----------------------------- MODULE OperatorShell -----------------------------
(***************************************************************************)
(* The interactive shell: ux/shell.py with the request that brain/app.py   *)
(* and brain/config.py make of a command, and the saved runs that          *)
(* ux/history.py reads back.  The operator sets up a context, runs tasks   *)
(* and benchmark cases in it, opens saved runs and reruns them.  A run is  *)
(* one step of the shell, which waits for it; other processes leave runs   *)
(* in the same directory between the steps.  Commands that are refused, or *)
(* fail with a BrainConfigError, change nothing and have no action.        *)
(***************************************************************************)
EXTENDS Naturals, Sequences, FiniteSets

CONSTANTS
  Boards, Typos,          \* board ids with and without a configuration
  Providers, NeedsModel,  \* decision providers; those that insist on a model
  DefaultProvider,
  Models, Artifacts, Workspaces, BuildCommands,
  Cases, Suites,          \* benchmark cases; sequences of them
  OtherRequests,          \* what other processes ask for
  MaxRuns,                \* bound on saved runs
  Reference,              \* the canonical image of a board
  None

GuidedTasks == {"verify", "diagnose", "repair"}
Tasks == GuidedTasks \cup {"run"}

(* What a run was asked to do.  A case brings its own board, image and     *)
(* workspace.  limits are port, iterations and seconds per serial read;    *)
(* the shell has no way to change them or the timeouts, the two command    *)
(* line programs have.                                                     *)
Request == [task : Tasks \cup Cases, board : Boards \cup Typos \cup {None},
            provider : Providers, model : Models \cup {None},
            artifact : Artifacts \cup {Reference},
            workspace : Workspaces \cup {None},
            build : BuildCommands \cup {None},
            limits : {"default", "own"}, timeouts : {"default", "own"}]

CaseShape(q) ==
  q.task \in Cases => /\ q.board = None /\ q.artifact = Reference
                      /\ q.workspace = None /\ q.build = None

ASSUME ShellAssumption ==
  /\ NeedsModel \subseteq Providers /\ DefaultProvider \in Providers
  /\ OtherRequests \subseteq {q \in Request : /\ q.task \in {"run"} \cup Cases
                                       /\ CaseShape(q)}
  /\ \A s \in Suites : s \in Seq(Cases)
  /\ None \notin Providers \cup Boards \cup Typos \cup Models \cup Workspaces \cup BuildCommands
  /\ Cases \cap Tasks = {} /\ Boards \cap Typos = {} /\ MaxRuns \in Nat

VARIABLES
  context,      \* ShellContext
  environment,  \* provider and model of os.environ
  seen,         \* UXRenderer.current_session_id
  runs,         \* the directories below runs/, oldest first
  status        \* open, quit, or crashed by an exception

vars == <<context, environment, seen, runs, status>>

(* A run directory is named by its place in runs: after its session, or    *)
(* "turnkey-..." when it had none.  saved: it has a turnkey_request.json,  *)
(* written at the end of a run; readable: its JSON files are whole.        *)
Run == [asked : Request, saved : BOOLEAN, session : BOOLEAN,
        readable : BOOLEAN, own : BOOLEAN, rerunOf : 0 .. MaxRuns]

TypeOK ==
  /\ context \in [board : Boards \cup Typos \cup {None},
                  provider : Providers \cup {None}, model : Models \cup {None},
                  artifact : Artifacts \cup {None},
                  workspace : Workspaces \cup {None},
                  build : BuildCommands \cup {None}, last : 0 .. MaxRuns]
  /\ environment \in [provider : Providers \cup {None},
                      model : Models \cup {None}]
  /\ seen \in 0 .. MaxRuns
  /\ runs \in Seq(Run) /\ Len(runs) <= MaxRuns
  /\ status \in {"open", "quit", "crashed"}

Init ==
  /\ context = [board |-> None, provider |-> None, model |-> None,
                artifact |-> None, workspace |-> None, build |-> None,
                last |-> 0]
  /\ environment = [provider |-> None, model |-> None]
  /\ seen = 0 /\ runs = <<>> /\ status = "open"

-----------------------------------------------------------------------------
(* Commands that set the context.                                          *)
Set(field, values) ==
  /\ status = "open"
  /\ \E v \in values : context' = [context EXCEPT ![field] = v]
  /\ UNCHANGED <<environment, seen, runs, status>>

SetBoard == Set("board", Boards \cup Typos)
SetProvider == Set("provider", Providers)
SetModel == Set("model", Models \cup {None})
SetWorkspace == Set("workspace", Workspaces \cup {None})
SetBuildCommand == Set("build", BuildCommands \cup {None})
SetArtifact == Set("artifact", Artifacts \cup {None})

(* load_local_env runs before each run and fills in what is still unset.   *)
FillEnvironment ==
  /\ status = "open"
  /\ \E p \in Providers, m \in Models :
       environment' = [provider |-> IF environment.provider = None THEN p
                                    ELSE environment.provider,
                       model |-> IF environment.model = None THEN m
                                 ELSE environment.model]
  /\ UNCHANGED <<context, seen, runs, status>>

Quit ==
  /\ status = "open" /\ status' = "quit"
  /\ UNCHANGED <<context, environment, seen, runs>>

-----------------------------------------------------------------------------
(* Requests.                                                               *)
ChosenProvider(p) ==
  CHOOSE q \in Providers :
    q = (IF p # None THEN p
         ELSE IF environment.provider # None THEN environment.provider
         ELSE DefaultProvider)
ChosenModel(m) == IF m # None THEN m ELSE environment.model

Configured(q) == q.provider \in NeedsModel => q.model # None
Edits(q) == q.workspace # None /\ q.build # None

\* Mutant of UsesWorkspace: verify and diagnose pass the workspace on.
UsesWorkspaceAlways(task) == TRUE
UsesWorkspace(task) == task \in {"run", "repair"}

FreeformRequest(task) ==
  [task |-> task, board |-> context.board,
   provider |-> ChosenProvider(context.provider),
   model |-> ChosenModel(context.model),
   artifact |-> IF context.artifact = None THEN Reference ELSE context.artifact,
   workspace |-> IF UsesWorkspace(task) THEN context.workspace ELSE None,
   build |-> IF UsesWorkspace(task) THEN context.build ELSE None,
   limits |-> "default", timeouts |-> "default"]

CaseRequest(case, provider, model) ==
  [task |-> case, board |-> None, provider |-> ChosenProvider(provider),
   model |-> ChosenModel(model), artifact |-> Reference,
   workspace |-> None, build |-> None,
   limits |-> "default", timeouts |-> "default"]

\* Mutant of RerunRequest: the model is the one set in the shell.
RerunRequestOfContext(q) ==
  [q EXCEPT !.model = ChosenModel(context.model), !.timeouts = "default"]
RerunRequest(q) ==
  IF q.task \in Cases THEN CaseRequest(q.task, q.provider, q.model)
  ELSE [q EXCEPT !.model = ChosenModel(q.model), !.timeouts = "default"]

-----------------------------------------------------------------------------
(* Runs.  One that ends leaves its request; only a server that was killed  *)
(* while it wrote leaves a torn file.                                      *)
Ended(q, i) ==
  {r \in [asked : {q}, saved : {TRUE}, session : BOOLEAN, readable : BOOLEAN,
          own : {TRUE}, rerunOf : {i}] : ~r.readable => r.session}
BrokenOff(q, i) ==
  [asked : {q}, saved : {FALSE}, session : BOOLEAN, readable : {TRUE},
   own : {TRUE}, rerunOf : {i}]

(* An exception that the shell does not expect ends it: an unknown board,  *)
(* a missing image or workspace, a file that cannot be written.            *)
Crashes(q, i) ==
  /\ status' = "crashed"
  /\ \/ UNCHANGED runs
     \/ /\ q.board \notin Typos /\ Len(runs) < MaxRuns
        /\ \E r \in BrokenOff(q, i) : runs' = Append(runs, r)
  /\ UNCHANGED <<context, environment, seen>>

\* Mutant of AfterTask: without a session the selection stays what it was.
AfterTaskKept(session, place) == IF session THEN place ELSE context.last
AfterTask(session, place) == IF session THEN place ELSE seen

RunTask(q, i) ==
  /\ q.board \notin Typos /\ Len(runs) < MaxRuns
  /\ \E r \in Ended(q, i) : LET place == Len(runs) + 1 IN
       /\ runs' = Append(runs, r)
       /\ seen' = IF r.session THEN place ELSE seen
       /\ context' = [context EXCEPT !.last = AfterTask(r.session, place)]
  /\ UNCHANGED <<environment, status>>

(* The report of a case names its session; without one, the directory of   *)
(* the run, or nothing if more than one directory is new.                  *)
RunCases(qs, i) ==
  /\ Len(runs) + Len(qs) <= MaxRuns
  /\ \E new \in [DOMAIN qs -> UNION {Ended(qs[n], i) : n \in DOMAIN qs}] :
       /\ \A n \in DOMAIN qs : new[n].asked = qs[n]
       /\ runs' = runs \o new
       /\ LET sessions == {n \in DOMAIN qs : new[n].session}
              place == Len(runs) + Len(qs)
          IN /\ \/ sessions = {} /\ seen' = seen
                \/ \E n \in sessions : /\ \A m \in sessions : m <= n
                                       /\ seen' = Len(runs) + n
             /\ \E l \in IF Len(qs) \in sessions THEN {place} ELSE {place, 0} :
                  context' = [context EXCEPT !.last = l]
  /\ UNCHANGED <<environment, status>>

-----------------------------------------------------------------------------
(* Commands that run something.  An unconfigured provider is an error      *)
(* before the board is looked at.                                          *)
Task(task) ==
  LET q == FreeformRequest(task) IN
  /\ status = "open" /\ context.board # None
  /\ task = "repair" => context.workspace # None /\ context.build # None
  /\ Configured(q)
  /\ RunTask(q, 0) \/ Crashes(q, 0)

Benchmark(suite) ==
  LET qs == [n \in DOMAIN suite |->
               CaseRequest(suite[n], context.provider, context.model)]
  IN /\ status = "open" /\ suite # <<>> /\ Configured(qs[1])
     /\ RunCases(qs, 0) \/ Crashes(qs[1], 0)

Rerun(i) ==
  LET q == RerunRequest(runs[i].asked) IN
  /\ status = "open" /\ runs[i].readable /\ runs[i].saved
  /\ Configured(q)
  /\ \/ IF q.task \in Cases THEN RunCases(<<q>>, i) ELSE RunTask(q, i)
     \/ Crashes(q, i)

-----------------------------------------------------------------------------
(* Saved runs.                                                             *)
Listed == {i \in DOMAIN runs : runs[i].saved /\ runs[i].readable}

(* list_history sorts by created_at, of which "turnkey-..." takes the      *)
(* place in a run that had no session: it is greater than any date.        *)
Before(i, j) ==
  IF runs[i].session = runs[j].session THEN i > j ELSE ~runs[i].session

IsSelected(i) ==
  IF context.last # 0 THEN i = context.last
  ELSE i \in Listed /\ \A j \in Listed \ {i} : Before(i, j)

Select(i) ==
  /\ status = "open" /\ runs[i].readable
  /\ context' = [context EXCEPT !.last = i]
  /\ UNCHANGED <<environment, seen, runs, status>>

(* /show, /artifacts and the shortcuts: of a run that is named, or of the  *)
(* selected one.                                                           *)
View == \E i \in DOMAIN runs : Select(i)
ViewSelected == \E i \in DOMAIN runs : IsSelected(i) /\ Select(i)

(* A run of another process: of the two command line programs, or a        *)
(* session without a turnkey request.                                      *)
OtherRun ==
  /\ status = "open" /\ Len(runs) < MaxRuns
  /\ \E q \in OtherRequests, saved, session, readable \in BOOLEAN :
       runs' = Append(runs, [asked |-> q, saved |-> saved, session |-> session,
                             readable |-> readable, own |-> FALSE, rerunOf |-> 0])
  /\ UNCHANGED <<context, environment, seen, status>>

Next ==
  \/ SetBoard \/ SetProvider \/ SetModel
  \/ SetWorkspace \/ SetBuildCommand \/ SetArtifact
  \/ FillEnvironment \/ Quit
  \/ \E task \in Tasks : Task(task)
  \/ \E suite \in Suites \cup {<<c>> : c \in Cases} : Benchmark(suite)
  \/ \E i \in DOMAIN runs : Rerun(i)
  \/ View \/ ViewSelected \/ OtherRun

Spec == Init /\ [][Next]_vars

-----------------------------------------------------------------------------
(* A guided command edits exactly what it says: a run of /verify or        *)
(* /diagnose can never edit or build, whatever workspace the shell has     *)
(* then or when the run is repeated; one of /repair always can, and so can *)
(* every repetition of it.                                                 *)
GuidedRunsKeepTheirWord ==
  \A n \in DOMAIN runs :
    /\ runs[n].asked.task \in {"verify", "diagnose"} => ~Edits(runs[n].asked)
    /\ runs[n].asked.task = "repair" => Edits(runs[n].asked)

(* A rerun asks for what the saved run asked for: nothing of the context   *)
(* of the shell, or of an environment filled in since, gets into it.       *)
(* Except: the timeouts; for a case also its limits; and a model, if the   *)
(* saved run named none.                                                   *)
RerunRepeats ==
  \A n \in DOMAIN runs : runs[n].rerunOf # 0 =>
    LET q == runs[n].asked
        first == runs[runs[n].rerunOf].asked
    IN /\ runs[n].rerunOf < n /\ runs[runs[n].rerunOf].saved
       /\ \A field \in DOMAIN q :
            \/ q[field] = first[field]
            \/ field = "timeouts" /\ q[field] = "default"
            \/ field = "limits" /\ q.task \in Cases /\ q[field] = "default"
            \/ field = "model" /\ first[field] = None

Own == {n \in DOMAIN runs : runs[n].own /\ runs[n].session}
NewestOwn ==
  IF Own = {} THEN 0 ELSE CHOOSE n \in Own : \A m \in Own : m <= n

(* When a freeform run ends, the shell selects the newest session that its *)
(* own runs have opened, also when the last run opened none: never one     *)
(* that the operator only looked at, nor one of another process.           *)
SelectsItsOwn ==
  [][ ( /\ Len(runs') > Len(runs) /\ status' = "open"
        /\ runs'[Len(runs')].own /\ runs'[Len(runs')].asked.task \in Tasks )
      => context'.last = NewestOwn' ]_vars
=============================================================================
