------------------------------ MODULE ZephyrBuild -----------------------------
(***************************************************************************)
(* zephyr_build.py: processes that build firmware.  Each resolves, in this *)
(* order, a Python with west, a Zephyr workspace and an SDK, provisions    *)
(* what is missing into a cache that they share without a lock, and then   *)
(* builds an app in a build directory of its own.  A process may die, or a *)
(* command of its fail, at every step; what it leaves behind is what the   *)
(* next one finds.                                                         *)
(***************************************************************************)
EXTENDS Naturals, FiniteSets

CONSTANTS
  Builders,
  Modules,      \* HAL projects
  Apps,
  Hosts,        \* what a host has besides the cache (see below)
  Requests,     \* command lines of the builders (see below)
  HexImages,    \* the images whose configuration makes zephyr.hex too
  NestedApps,   \* apps whose artifacts are in <build>/<app>/zephyr
  MaxVersion,   \* bound on edits of a source tree
  MaxFaults,    \* bound on deaths and failed commands
  None, Torn

(* A host: workspaces (the intact ones found before the cache, each the    *)
(* set of its modules), sdk (none, first, last: an SDK before or after the *)
(* managed one), toolchain (a Python beside that SDK runs west), imported  *)
(* and named (the modules that `west update`, and `west update <name>`,    *)
(* bring), clutter (the managed workspace is some other directory).        *)
(* Requests: functions from the builders to None (it    *)
(* does not run) or required (the modules of its board), ensureOnly,       *)
(* skipWorkspace, skipSdk, scratch, pristine, edits (the app and its       *)
(* sources change between runs).                                           *)
ASSUME BuildAssumption ==
  /\ \A h \in Hosts : h.imported \cup h.named \subseteq Modules
  /\ \A r \in Requests : \A b \in Builders :
       r[b] # None => /\ r[b].required \subseteq Modules
                      /\ r[b].pristine \in {"auto", "always", "never"}
  /\ MaxVersion \in Nat \ {0} /\ MaxFaults \in Nat
  /\ IsFiniteSet(Builders)
  /\ None \notin Builders \cup Apps \cup (Apps \X (1 .. MaxVersion))

VARIABLES
  host,
  venv,      \* python, pip, checked (what _ensure_west_python looks at), west
  space,     \* managed workspace: manifest, west (.west), part, exported, required
  sdk,       \* managed SDK: content, marker (sdk_version), genuine, setUp, writer
  request,   \* per builder, as all that follow
  step,
  chosen,    \* the workspace and SDK it resolved
  archive,   \* its SDK download
  app,       \* what it was asked to build
  source,    \* version of its sources
  dir,       \* its build directory
  uncleaned, \* builders whose build directory was left half cleaned
  spoiled,   \* an SDK install was cut short or met another one
  faults

cache == <<venv, space, sdk, spoiled>>
mine == <<request, chosen, archive, app, source, dir, uncleaned>>
vars == <<host, cache, mine, step, faults>>

Parts == {"zephyr"} \cup Modules
Places == {"plain", "nested"}
Images == {<<a, v>> : a \in Apps, v \in 1 .. MaxVersion} \cup {Torn}
EmptyDir == [app |-> None, elf |-> [p \in Places |-> None],
             hex |-> [p \in Places |-> None], outElf |-> None, outHex |-> None]
NoSdk == [content |-> "none", marker |-> FALSE, genuine |-> FALSE,
          setUp |-> FALSE, writer |-> None]

Steps == {"idle", "venv", "pip", "workspace", "init", "update", "export",
          "require", "reexport", "rerequire", "sdk", "fetch", "verify",
          "remove", "move", "moving", "setup", "projects", "prepare", "build",
          "copy", "done", "failed"}

TypeOK ==
  /\ venv \subseteq {"python", "pip", "checked", "west"}
  /\ space \in [manifest : BOOLEAN, west : BOOLEAN, exported : BOOLEAN,
                required : BOOLEAN, part : [Parts -> {"none", "half", "whole"}]]
  /\ sdk \in [content : {"none", "half", "whole"}, marker : BOOLEAN,
              genuine : BOOLEAN, setUp : BOOLEAN, writer : Builders \cup {None}]
  /\ step \in [Builders -> Steps]
  /\ chosen \in [Builders -> [workspace : {None, "other", "managed"},
                              sdk : {None, "other", "managed"}]]
  /\ archive \in [Builders -> {None, "good", "bad"}]
  /\ app \in [Builders -> Apps] /\ source \in [Builders -> 1 .. MaxVersion]
  /\ dir \in [Builders -> [app : Apps \cup {None},
                           elf : [Places -> Images \cup {None}],
                           hex : [Places -> Images \cup {None}],
                           outElf : Images \cup {None},
                           outHex : Images \cup {None}]]
  /\ uncleaned \subseteq Builders /\ spoiled \in BOOLEAN
  /\ faults \in 0 .. MaxFaults

Init ==
  /\ host \in Hosts /\ request \in Requests
  /\ venv = {}
  /\ space = [manifest |-> FALSE, west |-> FALSE, exported |-> FALSE,
              required |-> FALSE, part |-> [p \in Parts |-> "none"]]
  /\ sdk = NoSdk
  /\ step = [b \in Builders |-> "idle"]
  /\ chosen = [b \in Builders |-> [workspace |-> None, sdk |-> None]]
  /\ archive = [b \in Builders |-> None]
  /\ \E a \in Apps : app = [b \in Builders |-> a]
  /\ source = [b \in Builders |-> 1]
  /\ dir = [b \in Builders |-> EmptyDir]
  /\ uncleaned = {} /\ spoiled = FALSE /\ faults = 0

-----------------------------------------------------------------------------
Go(b, s) == step' = [step EXCEPT ![b] = s]
Request(b) == request[b]
Image(b) == <<app[b], source[b]>>

(* A new process, perhaps after an edit or for another app.                *)
Start(b) ==
  /\ step[b] \in {"idle", "done", "failed"} /\ request[b] # None
  /\ \/ UNCHANGED <<app, source>>
     \/ /\ Request(b).edits
        /\ \E v \in {source[b], source[b] + 1} \cap 1 .. MaxVersion :
             source' = [source EXCEPT ![b] = v]
        /\ \E a \in Apps : app' = [app EXCEPT ![b] = a]
  /\ chosen' = [chosen EXCEPT ![b] = [workspace |-> None, sdk |-> None]]
  /\ archive' = [archive EXCEPT ![b] = None]
  /\ Go(b, "venv")
  /\ UNCHANGED <<host, cache, request, dir, uncleaned, faults>>

(* _ensure_west_python: a venv if there is no interpreter, then pip.       *)
EnsureVenv(b) ==
  /\ step[b] = "venv"
  /\ IF {"python", "checked"} \subseteq venv
       THEN Go(b, "workspace") /\ UNCHANGED venv
       ELSE /\ Go(b, "pip")
            /\ venv' = IF "python" \in venv THEN venv
                       ELSE venv \cup {"python", "pip"}
  /\ UNCHANGED <<host, space, sdk, spoiled, mine, faults>>

PipInstall(b) ==
  /\ step[b] = "pip"
  /\ IF "pip" \in venv
       THEN venv' = venv \cup {"checked", "west"} /\ Go(b, "workspace")
       ELSE Go(b, "failed") /\ UNCHANGED venv
  /\ UNCHANGED <<host, space, sdk, spoiled, mine, faults>>

-----------------------------------------------------------------------------
(* _workspace_supports_board: the directories of its modules exist.        *)
Supports(parts, b) == \A m \in Request(b).required : parts[m] # "none"
IsWorkspace == space.part["zephyr"] # "none"

OtherWorkspace(b) ==
  \E modules \in host.workspaces : Request(b).required \subseteq modules

\* Mutant of NextOfManaged: a workspace that is there counts as set up.
NextOfManagedAtOnce == "sdk"

(* ensure_runtime exports and installs again whenever it uses the cache.   *)
NextOfManaged == "reexport"

\* Mutant of BringUp: a workspace that lacks modules is initialised anew.
BringUpAnew == "init"

(* A workspace that lacks modules is updated, any other one initialised.   *)
BringUp == IF IsWorkspace THEN "update" ELSE "init"

(* _resolve_workspace_dir: a candidate that will do, or the managed one,   *)
(* created or brought up to date.                                          *)
ResolveWorkspace(b) ==
  /\ step[b] = "workspace"
  /\ \/ /\ OtherWorkspace(b)
        /\ chosen' = [chosen EXCEPT ![b].workspace = "other"]
        /\ Go(b, "sdk") /\ UNCHANGED space
     \/ /\ ~OtherWorkspace(b) /\ IsWorkspace /\ Supports(space.part, b)
        /\ chosen' = [chosen EXCEPT ![b].workspace = "managed"]
        /\ Go(b, NextOfManaged) /\ UNCHANGED space
     \/ /\ ~OtherWorkspace(b) /\ ~(IsWorkspace /\ Supports(space.part, b))
        /\ UNCHANGED chosen
        /\ IF \/ Request(b).skipWorkspace
              \/ host.clutter /\ ~IsWorkspace /\ ~space.manifest
             THEN Go(b, "failed") /\ UNCHANGED space
             ELSE /\ space' = [space EXCEPT !.manifest = @ \/ ~IsWorkspace]
                  /\ Go(b, BringUp)
  /\ UNCHANGED <<host, venv, sdk, spoiled, request, archive, app, source, dir,
                 uncleaned, faults>>

(* `west init -l`: refused in a directory that has a .west.                *)
WestInit(b) ==
  /\ step[b] = "init"
  /\ IF "west" \in venv /\ ~space.west
       THEN space' = [space EXCEPT !.west = TRUE] /\ Go(b, "update")
       ELSE Go(b, "failed") /\ UNCHANGED space
  /\ UNCHANGED <<host, venv, sdk, spoiled, mine, faults>>

WestUpdate(b) ==
  /\ step[b] = "update"
  /\ space' = [space EXCEPT !.part = [p \in Parts |->
                 IF p \in {"zephyr"} \cup host.imported THEN "whole" ELSE @[p]]]
  /\ Go(b, "export")
  /\ UNCHANGED <<host, venv, sdk, spoiled, mine, faults>>

(* `west zephyr-export` and the Python requirements: after an update, and  *)
(* once more by ensure_runtime whenever the managed workspace is used.     *)
Export(b) ==
  /\ step[b] \in {"export", "reexport"}
  /\ IF "west" \in venv /\ space.part["zephyr"] = "whole"
       THEN /\ space' = [space EXCEPT !.exported = TRUE]
            /\ Go(b, IF step[b] = "export" THEN "require" ELSE "rerequire")
       ELSE Go(b, "failed") /\ UNCHANGED space
  /\ UNCHANGED <<host, venv, sdk, spoiled, mine, faults>>

InstallRequirements(b) ==
  /\ step[b] \in {"require", "rerequire"}
  /\ space' = [space EXCEPT !.required = TRUE]
  /\ Go(b, IF step[b] = "require" THEN NextOfManaged ELSE "sdk")
  /\ chosen' = [chosen EXCEPT ![b].workspace = "managed"]
  /\ UNCHANGED <<host, venv, sdk, spoiled, request, archive, app, source, dir,
                 uncleaned, faults>>

-----------------------------------------------------------------------------
(* _resolve_sdk_dir: the file sdk_version makes a directory an SDK.        *)
ResolveSdk(b) ==
  /\ step[b] = "sdk"
  /\ LET found == IF host.sdk = "first" THEN "other"
                  ELSE IF sdk.marker THEN "managed"
                  ELSE IF host.sdk = "last" THEN "other" ELSE None
     IN  /\ chosen' = [chosen EXCEPT ![b].sdk = found]
         /\ Go(b, IF found # None
                    THEN IF Request(b).ensureOnly THEN "done" ELSE "projects"
                    ELSE IF Request(b).skipSdk THEN "failed" ELSE "fetch")
  /\ UNCHANGED <<host, cache, request, archive, app, source, dir, uncleaned,
                 faults>>

(* _install_managed_sdk: download into a temporary directory, compare with *)
(* the published checksum, extract, replace what is at managed_sdk_dir.    *)
FetchSdk(b) ==
  /\ step[b] = "fetch"
  /\ \/ archive' = [archive EXCEPT ![b] = "good"] /\ UNCHANGED faults
     \/ /\ faults < MaxFaults
        /\ archive' = [archive EXCEPT ![b] = "bad"] /\ faults' = faults + 1
  /\ Go(b, "verify")
  /\ UNCHANGED <<host, cache, request, chosen, app, source, dir, uncleaned>>

\* Mutant of VerifyArchive: the checksum is computed, not compared.
VerifyArchiveNot(b) ==
  /\ step[b] = "verify"
  /\ Go(b, "remove")
  /\ UNCHANGED <<host, cache, mine, faults>>

VerifyArchive(b) ==
  /\ step[b] = "verify"
  /\ Go(b, IF archive[b] = "good" THEN "remove" ELSE "failed")
  /\ UNCHANGED <<host, cache, mine, faults>>

(* The builders between the check of the archive and the end of the setup. *)
Installing ==
  {c \in Builders : step[c] \in {"remove", "move", "moving", "setup"}}
Meeting == spoiled \/ Cardinality(Installing) > 1

RemoveOldSdk(b) ==
  /\ step[b] = "remove"
  /\ sdk' = NoSdk /\ spoiled' = Meeting
  /\ Go(b, "move")
  /\ UNCHANGED <<host, venv, space, mine, faults>>

(* shutil.move: into a directory that has appeared meanwhile, or a copy    *)
(* file by file, which somebody else may remove under it.                  *)
MoveSdk(b) ==
  /\ step[b] = "move"
  /\ spoiled' = Meeting
  /\ IF sdk.content # "none"
       THEN Go(b, "setup") /\ UNCHANGED sdk
       ELSE /\ \E marker \in BOOLEAN :
                 sdk' = [content |-> "half", marker |-> marker,
                         genuine |-> archive[b] = "good", setUp |-> FALSE,
                         writer |-> b]
            /\ Go(b, "moving")
  /\ UNCHANGED <<host, venv, space, mine, faults>>

FinishMove(b) ==
  /\ step[b] = "moving"
  /\ spoiled' = Meeting
  /\ IF sdk.writer = b
       THEN /\ sdk' = [sdk EXCEPT !.content = "whole", !.marker = TRUE]
            /\ Go(b, "setup")
       ELSE Go(b, "failed") /\ UNCHANGED sdk
  /\ UNCHANGED <<host, venv, space, mine, faults>>

(* _run_sdk_setup, and the look for sdk_version after it.                  *)
SetUpSdk(b) ==
  /\ step[b] = "setup"
  /\ spoiled' = Meeting
  /\ IF sdk.content = "whole"
       THEN /\ sdk' = [sdk EXCEPT !.setUp = TRUE]
            /\ chosen' = [chosen EXCEPT ![b].sdk = "managed"]
            /\ Go(b, IF Request(b).ensureOnly THEN "done" ELSE "projects")
       ELSE Go(b, "failed") /\ UNCHANGED <<sdk, chosen>>
  /\ UNCHANGED <<host, venv, space, request, archive, app, source, dir,
                 uncleaned, faults>>

-----------------------------------------------------------------------------
(* _resolve_toolchain_python: west runs in the Python of a toolchain that  *)
(* has the SDK, or else in the venv.                                       *)
WestRuns(b) == "west" \in venv \/ (chosen[b].sdk = "other" /\ host.toolchain)

(* _ensure_workspace_projects: the modules that are still missing are asked *)
(* for by name, one after the other, until one cannot be had.              *)
Missing(b) ==
  IF chosen[b].workspace = "other" THEN {}
  ELSE {m \in Request(b).required : space.part[m] = "none"}
Fetchable(b) == IF WestRuns(b) THEN Missing(b) \cap host.named ELSE {}

Fetched(got, half) ==
  [space EXCEPT !.part = [p \in Parts |->
     IF p \in half THEN "half" ELSE IF p \in got THEN "whole" ELSE @[p]]]

EnsureProjects(b) ==
  /\ step[b] = "projects"
  /\ \/ /\ Missing(b) \subseteq Fetchable(b)
        /\ space' = Fetched(Missing(b), {}) /\ Go(b, "prepare")
     \/ /\ ~Missing(b) \subseteq Fetchable(b)
        /\ \E got \in SUBSET Fetchable(b) : space' = Fetched(got, {})
        /\ Go(b, "failed")
  /\ UNCHANGED <<host, venv, sdk, spoiled, mine, faults>>

(* run_build up to `west build`: a build directory whose CMakeCache names  *)
(* another app is cleaned, unless its pristine policy forbids that; a      *)
(* scratch build starts from a fresh directory.                            *)
CacheMatches(b) == dir[b].app \in {None, app[b]}

MustClean(b) ==
  ~Request(b).scratch /\ Request(b).pristine # "never" /\ ~CacheMatches(b)

Prepare(b) ==
  /\ step[b] = "prepare"
  /\ IF MustClean(b)
       THEN /\ dir' = [dir EXCEPT ![b] = EmptyDir]
            /\ uncleaned' = uncleaned \ {b}
       ELSE UNCHANGED <<dir, uncleaned>>
  /\ Go(b, "build")
  /\ UNCHANGED <<host, cache, request, chosen, archive, app, source, faults>>

UsableSdk == sdk.content = "whole" /\ sdk.setUp
Buildable(b) ==
  /\ WestRuns(b)
  /\ chosen[b].workspace = "other"
       \/ \A p \in {"zephyr"} \cup Request(b).required : space.part[p] = "whole"
  /\ chosen[b].sdk = "other" \/ UsableSdk
  /\ Request(b).scratch \/ Request(b).pristine # "never" \/ CacheMatches(b)

(* What `west build` makes of a directory: the elf where the app's layout  *)
(* has it, the hex if configured; `-p always` empties the directory first. *)
Place(b) == IF app[b] \in NestedApps THEN "nested" ELSE "plain"
Built(b, d) ==
  LET base == IF Request(b).pristine = "always" THEN EmptyDir ELSE d
  IN  [app |-> app[b], elf |-> [base.elf EXCEPT ![Place(b)] = Image(b)],
       hex |-> IF Image(b) \in HexImages
                 THEN [base.hex EXCEPT ![Place(b)] = Image(b)] ELSE base.hex,
       outElf |-> base.outElf, outHex |-> base.outHex]

WestBuild(b) ==
  /\ step[b] = "build" /\ ~Request(b).scratch
  /\ IF Buildable(b)
       THEN /\ dir' = [dir EXCEPT ![b] = Built(b, @)] /\ Go(b, "copy")
            /\ uncleaned' = IF Request(b).pristine = "always"
                              THEN uncleaned \ {b} ELSE uncleaned
       ELSE Go(b, "failed") /\ UNCHANGED <<dir, uncleaned>>
  /\ UNCHANGED <<host, cache, request, chosen, archive, app, source, faults>>

\* Mutant of Copied: an artifact that is in place is kept.
CopiedOnce(d, out) ==
  LET place == IF d.elf["plain"] # None THEN "plain" ELSE "nested"
  IN  [out EXCEPT !.outElf = IF @ = None THEN d.elf[place] ELSE @,
                  !.outHex = IF d.hex[place] # None THEN d.hex[place] ELSE @]

(* _resolve_artifact_paths and _copy_artifacts from a work directory d.    *)
Copied(d, out) ==
  LET place == IF d.elf["plain"] # None THEN "plain" ELSE "nested"
  IN  [app |-> out.app, elf |-> out.elf, hex |-> out.hex,
       outElf |-> d.elf[place],
       outHex |-> IF d.hex[place] # None THEN d.hex[place] ELSE out.outHex]

CopyArtifacts(b) ==
  /\ step[b] = "copy"
  /\ dir' = [dir EXCEPT ![b] = Copied(@, @)]
  /\ Go(b, "done")
  /\ UNCHANGED <<host, cache, request, chosen, archive, app, source, uncleaned,
                 faults>>

(* The same in a scratch directory, which is removed in the end; the build *)
(* directory is emptied before the copy.                                   *)
ScratchBuild(b) ==
  /\ step[b] = "build" /\ Request(b).scratch
  /\ IF Buildable(b)
       THEN /\ dir' = [dir EXCEPT ![b] = Copied(Built(b, EmptyDir), EmptyDir)]
            /\ uncleaned' = uncleaned \ {b} /\ Go(b, "done")
       ELSE Go(b, "failed") /\ UNCHANGED <<dir, uncleaned>>
  /\ UNCHANGED <<host, cache, request, chosen, archive, app, source, faults>>

-----------------------------------------------------------------------------
(* What an interrupted removal may leave of the build directory.           *)
HalfCleaned(d) ==
  {[app |-> a, elf |-> e, hex |-> d.hex, outElf |-> o, outHex |-> d.outHex] :
     a \in {d.app, None}, o \in {d.outElf, None},
     e \in {d.elf, EmptyDir.elf}}

(* ... and an interrupted `west update`: zephyr comes first.               *)
HalfUpdated(parts) ==
  {f \in [Parts -> {"none", "half", "whole"}] :
     /\ \A p \in Parts : f[p] \in {parts[p], "half", "whole"}
     /\ \A p \in Parts \ ({"zephyr"} \cup host.imported) : f[p] = parts[p]
     /\ parts["zephyr"] = "whole" => f["zephyr"] = "whole"
     /\ \A p \in Parts : parts[p] = "whole" => f[p] = "whole"
     /\ f["zephyr"] # "whole" => \A m \in Modules : f[m] = parts[m]}

(* The process dies, or its command fails: at every step, with the part of *)
(* the step that was done.                                                 *)
CutVenv(b) ==
  /\ \/ step[b] = "venv" /\ "python" \notin venv
        /\ venv' \in {venv \cup s : s \in SUBSET {"python", "pip"}}
     \/ step[b] = "pip" /\ "pip" \in venv
        /\ venv' \in {venv \cup s : s \in SUBSET {"checked", "west"}}
  /\ UNCHANGED <<space, sdk, spoiled, dir, uncleaned>>

CutUpdate(b) ==
  /\ step[b] = "update"
  /\ \E f \in HalfUpdated(space.part) : space' = [space EXCEPT !.part = f]
  /\ UNCHANGED <<venv, sdk, spoiled, dir, uncleaned>>

CutProjects(b) ==
  /\ step[b] = "projects"
  /\ \E got \in SUBSET Fetchable(b), half \in {{m} : m \in Fetchable(b)} \cup {{}} :
       space' = Fetched(got, half)
  /\ UNCHANGED <<venv, sdk, spoiled, dir, uncleaned>>

CutInstall(b) ==
  /\ b \in Installing
  /\ sdk' \in IF step[b] = "remove" /\ sdk.content # "none"
                THEN {[sdk EXCEPT !.content = "half", !.marker = m] :
                        m \in {sdk.marker, FALSE}}
                ELSE {sdk}
  /\ spoiled' = TRUE
  /\ UNCHANGED <<venv, space, dir, uncleaned>>

CutClean(b) ==
  /\ \/ step[b] = "prepare" /\ MustClean(b)
     \/ step[b] = "build" /\ Request(b).scratch
  /\ \E d \in HalfCleaned(dir[b]) : dir' = [dir EXCEPT ![b] = d]
  /\ uncleaned' = uncleaned \cup {b}
  /\ UNCHANGED <<venv, space, sdk, spoiled>>

CutCopy(b) ==
  /\ step[b] = "copy"
  /\ \E image \in {dir[b].outElf, Torn} :
       dir' = [dir EXCEPT ![b].outElf = image]
  /\ UNCHANGED <<venv, space, sdk, spoiled, uncleaned>>

CutElsewhere(b) ==
  /\ step[b] \notin {"idle", "done", "failed"}
  /\ b \notin Installing
  /\ UNCHANGED <<venv, space, sdk, spoiled, dir, uncleaned>>

Cut(b) ==
  /\ faults < MaxFaults /\ faults' = faults + 1
  /\ \/ CutVenv(b) \/ CutUpdate(b) \/ CutProjects(b) \/ CutInstall(b)
     \/ CutClean(b) \/ CutCopy(b) \/ CutElsewhere(b)
  /\ Go(b, "failed")
  /\ UNCHANGED <<host, request, chosen, archive, app, source>>

Progress(b) ==
  \/ EnsureVenv(b) \/ PipInstall(b)
  \/ ResolveWorkspace(b) \/ WestInit(b) \/ WestUpdate(b) \/ Export(b)
  \/ InstallRequirements(b)
  \/ ResolveSdk(b) \/ FetchSdk(b) \/ VerifyArchive(b) \/ RemoveOldSdk(b)
  \/ MoveSdk(b) \/ FinishMove(b) \/ SetUpSdk(b)
  \/ EnsureProjects(b) \/ Prepare(b) \/ WestBuild(b) \/ CopyArtifacts(b)
  \/ ScratchBuild(b)

Next == \E b \in Builders : Start(b) \/ Progress(b) \/ Cut(b)

Fairness == \A b \in Builders : WF_vars(Progress(b)) /\ WF_vars(Start(b))
Spec == Init /\ [][Next]_vars /\ Fairness

-----------------------------------------------------------------------------
(* `west build` runs in a managed workspace only after this workspace was  *)
(* exported and its Python requirements installed, and with a directory    *)
(* for every module of the board - also when the process that fetched it   *)
(* died right after.                                                       *)
ManagedWorkspaceReady ==
  \A b \in Builders :
    /\ step[b] \in {"prepare", "build"} /\ chosen[b].workspace = "managed"
    => /\ space.exported /\ space.required /\ space.part["zephyr"] = "whole"
       /\ Supports(space.part, b)

(* What is at managed_sdk_dir came from an archive with the published      *)
(* checksum; and a build that takes it while nobody installs finds it      *)
(* complete and set up, unless an install was cut short or two of them     *)
(* met - sdk_version alone does not tell.                                  *)
SdkTrusted ==
  /\ sdk.content # "none" => sdk.genuine
  /\ \A b \in Builders :
       step[b] = "build" /\ chosen[b].sdk = "managed" /\ Installing = {}
       => UsableSdk \/ spoiled

(* Exit code 0 of a build: firmware.elf, and firmware.hex where one is     *)
(* configured, are this app in its current version, whatever was built in  *)
(* the directory before and however it ended; only a removal that was cut  *)
(* short may leave an older artifact that is preferred.                    *)
SuccessMeansFresh ==
  \A b \in Builders \ uncleaned :
    step[b] = "done" /\ ~Request(b).ensureOnly
    => /\ dir[b].outElf = Image(b)
       /\ Image(b) \in HexImages => dir[b].outHex = Image(b)

(* The leftovers that no retry repairs: an interpreter without pip, checks *)
(* that pass without west, .west without zephyr, a half-fetched directory  *)
(* that is taken for a whole one, an sdk_version without a usable SDK; and *)
(* the requests that this host cannot serve.                               *)
Stranded(b) ==
  LET r == Request(b) IN
  \/ {"python"} = venv \cap {"python", "pip"}
  \/ venv \cap {"checked", "west"} = {"checked"}
  \/ space.west /\ ~IsWorkspace
  \/ \E p \in {"zephyr"} \cup r.required : space.part[p] = "half"
  \/ sdk.marker /\ ~UsableSdk
  \/ r.skipWorkspace \/ r.skipSdk \/ host.clutter
  \/ r.pristine = "never" /\ ~CacheMatches(b)
  \/ ~r.required \subseteq host.imported \cup host.named

(* A build that is run again until it works does work, once failures stop: *)
(* except for the leftovers above, every failure is repaired by a retry.   *)
(* (Of a builder that has the cache to itself; two that install the SDK at *)
(* the same time can remove it under each other for ever.)                 *)
Alone(b) == \A c \in Builders : request[c] # None <=> c = b

Recovers ==
  \A b \in Builders : Alone(b) ~> (step[b] = "done" \/ (Alone(b) /\ Stranded(b)))
=============================================================================
