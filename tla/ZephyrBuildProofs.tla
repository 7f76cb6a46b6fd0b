--------------------------- MODULE ZephyrBuildProofs ---------------------------
(***************************************************************************)
(* Theorems about ZephyrBuild, for any number of builders, modules, apps   *)
(* and failures.                                                           *)
(***************************************************************************)
EXTENDS ZephyrBuild, TLAPS, FiniteSetTheorems

----------------------------------------------------------------------------
(* What the control of a builder consists of: its types, and that a        *)
(* builder runs only with a request.                                       *)

SpaceType ==
  [manifest : BOOLEAN, west : BOOLEAN, exported : BOOLEAN, required : BOOLEAN,
   part : [Parts -> {"none", "half", "whole"}]]
ChosenType ==
  [workspace : {None, "other", "managed"}, sdk : {None, "other", "managed"}]

ControlInv ==
  /\ request \in Requests
  /\ step \in [Builders -> Steps]
  /\ chosen \in [Builders -> ChosenType]
  /\ \A b \in Builders : step[b] # "idle" => request[b] # None

LEMMA ControlInit == Init => ControlInv
  BY DEF Init, ControlInv, Steps, ChosenType

LEMMA ControlStep == ControlInv /\ [Next]_vars => ControlInv'
<1> SUFFICES ASSUME ControlInv, [Next]_vars PROVE ControlInv'
  OBVIOUS
<1> USE DEF ControlInv, Go, cache, mine
<1>1. CASE UNCHANGED vars
  BY <1>1 DEF vars
<1>2. ASSUME NEW b \in Builders, Start(b) PROVE ControlInv'
  BY <1>2 DEF Start, Steps, ChosenType
<1>3. ASSUME NEW b \in Builders, EnsureVenv(b) \/ PipInstall(b)
      PROVE  ControlInv'
  BY <1>3 DEF EnsureVenv, PipInstall, Steps
<1>4. ASSUME NEW b \in Builders, ResolveWorkspace(b) PROVE ControlInv'
  BY <1>4 DEF ResolveWorkspace, BringUp, NextOfManaged, Steps, ChosenType
<1>5. ASSUME NEW b \in Builders, WestInit(b) \/ WestUpdate(b) \/ Export(b)
      PROVE  ControlInv'
  BY <1>5 DEF WestInit, WestUpdate, Export, Steps
<1>6. ASSUME NEW b \in Builders, InstallRequirements(b) PROVE ControlInv'
  BY <1>6 DEF InstallRequirements, NextOfManaged, Steps, ChosenType
<1>7. ASSUME NEW b \in Builders, ResolveSdk(b) PROVE ControlInv'
  BY <1>7 DEF ResolveSdk, Steps, ChosenType
<1>8. ASSUME NEW b \in Builders, FetchSdk(b) \/ VerifyArchive(b)
      PROVE  ControlInv'
  BY <1>8 DEF FetchSdk, VerifyArchive, Steps
<1>9. ASSUME NEW b \in Builders,
             RemoveOldSdk(b) \/ MoveSdk(b) \/ FinishMove(b)
      PROVE  ControlInv'
  BY <1>9 DEF RemoveOldSdk, MoveSdk, FinishMove, Steps
<1>10. ASSUME NEW b \in Builders, SetUpSdk(b) PROVE ControlInv'
  BY <1>10 DEF SetUpSdk, Steps, ChosenType
<1>11. ASSUME NEW b \in Builders,
              EnsureProjects(b) \/ Prepare(b) \/ WestBuild(b)
       PROVE  ControlInv'
  BY <1>11 DEF EnsureProjects, Prepare, WestBuild, Steps
<1>12. ASSUME NEW b \in Builders, CopyArtifacts(b) \/ ScratchBuild(b)
       PROVE  ControlInv'
  BY <1>12 DEF CopyArtifacts, ScratchBuild, Steps
<1>13. ASSUME NEW b \in Builders, Cut(b) PROVE ControlInv'
  <2>1. step[b] # "idle"
    BY <1>13 DEF Cut, CutVenv, CutUpdate, CutProjects, CutInstall, CutClean, CutCopy,
                 CutElsewhere, Installing
  <2> QED
    BY <1>13, <2>1 DEF Cut, Steps
<1> QED
  BY <1>1, <1>2, <1>3, <1>4, <1>5, <1>6, <1>7, <1>8, <1>9, <1>10, <1>11,
     <1>12, <1>13 DEF Next, Progress

LEMMA Controlled == Spec => []ControlInv
  BY ControlInit, ControlStep, PTL DEF Spec

----------------------------------------------------------------------------
(* The managed workspace.  It only grows: nothing that was fetched, or     *)
(* done to it, is undone.  What a builder relies on at a step it has seen  *)
(* done before, and is still so.                                           *)

Grows(old, new) ==
  /\ old.exported => new.exported
  /\ old.required => new.required
  /\ old.part["zephyr"] = "whole" => new.part["zephyr"] = "whole"
  /\ \A p \in Parts : old.part[p] # "none" => new.part[p] # "none"

Exported == space.exported /\ space.part["zephyr"] = "whole"

AfterWorkspace == {"sdk", "fetch", "verify", "remove", "move", "moving",
                   "setup", "projects", "prepare", "build", "copy"}

ReadyAt(b) ==
  /\ step[b] \in {"require", "rerequire"} => Exported
  /\ chosen[b].workspace = "managed" /\ step[b] \in AfterWorkspace
     => Exported /\ space.required
  /\ chosen[b].workspace = "managed" /\ step[b] \in {"prepare", "build"}
     => Supports(space.part, b)

ReadyInv == space \in SpaceType /\ \A b \in Builders : ReadyAt(b)

\* The modules of a request are parts of the workspace.
LEMMA RequiredParts ==
  ASSUME ControlInv, NEW b \in Builders, step[b] # "idle"
  PROVE  Request(b).required \subseteq Parts
  BY BuildAssumption DEF ControlInv, Request, Parts

LEMMA ReadyInit == Init => ReadyInv
<1> SUFFICES ASSUME Init PROVE ReadyInv
  OBVIOUS
<1>1. space \in SpaceType
  BY DEF Init, SpaceType
<1>2. ASSUME NEW b \in Builders PROVE ReadyAt(b)
  BY DEF Init, ReadyAt, AfterWorkspace
<1> QED
  BY <1>1, <1>2 DEF ReadyInv

\* Every step that writes the managed workspace adds to it.
LEMMA SpaceStep ==
  ASSUME ControlInv, space \in SpaceType, [Next]_vars
  PROVE  space' \in SpaceType /\ Grows(space, space')
<1> USE DEF SpaceType, Grows, cache
<1>0. "zephyr" \in Parts
  BY DEF Parts
<1>1. CASE UNCHANGED space
  BY <1>1
<1>2. ASSUME NEW b \in Builders, ResolveWorkspace(b)
      PROVE  space' \in SpaceType /\ Grows(space, space')
  BY <1>2 DEF ResolveWorkspace
<1>3. ASSUME NEW b \in Builders, WestInit(b)
      PROVE  space' \in SpaceType /\ Grows(space, space')
  BY <1>3 DEF WestInit
<1>4. ASSUME NEW b \in Builders, WestUpdate(b)
      PROVE  space' \in SpaceType /\ Grows(space, space')
  BY <1>0, <1>4 DEF WestUpdate
<1>5. ASSUME NEW b \in Builders, Export(b) \/ InstallRequirements(b)
      PROVE  space' \in SpaceType /\ Grows(space, space')
  BY <1>5 DEF Export, InstallRequirements
<1>6. ASSUME NEW b \in Builders, EnsureProjects(b)
      PROVE  space' \in SpaceType /\ Grows(space, space')
  BY <1>0, <1>6 DEF EnsureProjects, Fetched, Fetchable, Missing
<1>7. ASSUME NEW b \in Builders, CutUpdate(b)
      PROVE  space' \in SpaceType /\ Grows(space, space')
  <2>1. PICK f \in HalfUpdated(space.part) : space' = [space EXCEPT !.part = f]
    BY <1>7 DEF CutUpdate
  <2>2. /\ f \in [Parts -> {"none", "half", "whole"}]
        /\ space.part["zephyr"] = "whole" => f["zephyr"] = "whole"
        /\ \A p \in Parts : space.part[p] # "none" => f[p] # "none"
    BY DEF HalfUpdated
  <2> QED
    BY <2>1, <2>2
<1>8. ASSUME NEW b \in Builders, CutProjects(b)
      PROVE  space' \in SpaceType /\ Grows(space, space')
  BY <1>0, <1>8 DEF CutProjects, Fetched, Fetchable, Missing
<1>9. \/ UNCHANGED space
      \/ \E b \in Builders :
           \/ ResolveWorkspace(b) \/ WestInit(b) \/ WestUpdate(b) \/ Export(b)
           \/ InstallRequirements(b) \/ EnsureProjects(b) \/ CutUpdate(b)
           \/ CutProjects(b)
  BY DEF Next, Progress, vars, Start, EnsureVenv, PipInstall, ResolveSdk,
         FetchSdk, VerifyArchive, RemoveOldSdk, MoveSdk, FinishMove, SetUpSdk,
         Prepare, WestBuild, CopyArtifacts, ScratchBuild, Cut, CutVenv,
         CutInstall, CutClean, CutCopy, CutElsewhere
<1> QED
  BY <1>1, <1>2, <1>3, <1>4, <1>5, <1>6, <1>7, <1>8, <1>9

\* What a builder that does not move relies on stays.
LEMMA OthersReady ==
  ASSUME ControlInv, ReadyInv, NEW c \in Builders, Grows(space, space'),
         UNCHANGED request, step'[c] = step[c], chosen'[c].workspace = chosen[c].workspace
  PROVE  ReadyAt(c)'
<1>1. step[c] \in {"prepare", "build"} => Request(c).required \subseteq Parts
  BY RequiredParts
<1> QED
  BY <1>1 DEF ReadyInv, ReadyAt, Exported, Grows, Supports, Request

LEMMA ReadyStep == ControlInv /\ ReadyInv /\ [Next]_vars => ReadyInv'
<1> SUFFICES ASSUME ControlInv, ReadyInv, [Next]_vars PROVE ReadyInv'
  OBVIOUS
<1>1. space' \in SpaceType /\ Grows(space, space')
  BY SpaceStep DEF ReadyInv
<1>2. CASE UNCHANGED vars
  BY <1>2, <1>1, OthersReady DEF ReadyInv, vars, mine
<1>3. ASSUME NEW b \in Builders, Start(b) \/ Progress(b) \/ Cut(b)
      PROVE  ReadyInv'
  <2>1. ASSUME NEW c \in Builders, c # b PROVE ReadyAt(c)'
    <3>1. UNCHANGED request /\ step'[c] = step[c]
      BY <1>3, <2>1 DEF ControlInv, Go, mine, Progress, Start, EnsureVenv, PipInstall,
           ResolveWorkspace, WestInit, WestUpdate, Export, InstallRequirements,
           ResolveSdk, FetchSdk, VerifyArchive, RemoveOldSdk, MoveSdk,
           FinishMove, SetUpSdk, EnsureProjects, Prepare, WestBuild,
           CopyArtifacts, ScratchBuild, Cut
    <3>2. chosen'[c] = chosen[c]
      BY <1>3, <2>1 DEF ControlInv, mine, Progress, Start, EnsureVenv, PipInstall,
           ResolveWorkspace, WestInit, WestUpdate, Export, InstallRequirements,
           ResolveSdk, FetchSdk, VerifyArchive, RemoveOldSdk, MoveSdk,
           FinishMove, SetUpSdk, EnsureProjects, Prepare, WestBuild,
           CopyArtifacts, ScratchBuild, Cut
    <3> QED
      BY <1>1, <3>1, <3>2, OthersReady
  <2>2. ReadyAt(b)'
    <3> USE DEF ControlInv, ReadyInv, ReadyAt, AfterWorkspace, Exported, Go,
                cache, mine
    <3>1. CASE Start(b) \/ EnsureVenv(b) \/ PipInstall(b)
      BY <3>1 DEF Start, EnsureVenv, PipInstall
    <3>2. CASE ResolveWorkspace(b)
      BY <3>2 DEF ResolveWorkspace, BringUp, NextOfManaged, ChosenType
    <3>3. CASE WestInit(b) \/ WestUpdate(b)
      BY <3>3 DEF WestInit, WestUpdate
    <3>4. CASE Export(b)
      BY <3>4 DEF Export, SpaceType
    <3>5. CASE InstallRequirements(b)
      BY <3>5 DEF InstallRequirements, SpaceType, NextOfManaged
    <3>6. CASE \/ FetchSdk(b) \/ VerifyArchive(b) \/ RemoveOldSdk(b)
               \/ MoveSdk(b) \/ FinishMove(b)
      BY <3>6 DEF FetchSdk, VerifyArchive, RemoveOldSdk, MoveSdk, FinishMove
    <3>7. CASE ResolveSdk(b) \/ SetUpSdk(b)
      BY <3>7 DEF ResolveSdk, SetUpSdk, ChosenType
    <3>8. CASE EnsureProjects(b)
      <4>1. step[b] = "projects" /\ UNCHANGED <<request, chosen>>
        BY <3>8 DEF EnsureProjects
      <4>2. CASE step'[b] = "prepare"
        <5>1. chosen[b].workspace = "managed" => Supports(space'.part, b)
          <6> SUFFICES ASSUME chosen[b].workspace = "managed",
                              ~Supports(space'.part, b)
                       PROVE  FALSE
            OBVIOUS
          <6>1. Request(b).required \subseteq Parts
            BY <4>1, RequiredParts
          <6>2. /\ Missing(b) = {m \in Request(b).required : space.part[m] = "none"}
                /\ space' = Fetched(Missing(b), {})
            BY <3>8, <4>2 DEF EnsureProjects, Missing
          <6> QED
            BY <6>1, <6>2 DEF Supports, Fetched, SpaceType
        <5> QED
          BY <4>1, <4>2, <5>1, <1>1 DEF Supports, Grows, Request
      <4>3. CASE step'[b] = "failed"
        BY <4>3
      <4> QED
        BY <3>8, <4>2, <4>3 DEF EnsureProjects
    <3>9. CASE Prepare(b)
      BY <3>9, <1>1 DEF Prepare, Supports, Request
    <3>10. CASE WestBuild(b) \/ CopyArtifacts(b) \/ ScratchBuild(b)
      BY <3>10 DEF WestBuild, CopyArtifacts, ScratchBuild
    <3>11. CASE Cut(b)
      BY <3>11 DEF Cut
    <3> QED
      BY <1>3, <3>1, <3>2, <3>3, <3>4, <3>5, <3>6, <3>7, <3>8, <3>9, <3>10,
         <3>11 DEF Progress
  <2> QED
    BY <1>1, <2>1, <2>2 DEF ReadyInv
<1> QED
  BY <1>2, <1>3 DEF Next

\* `west build` runs in a managed workspace only when it was exported, its
\* requirements installed and a directory fetched for every module, whatever
\* other builders do to it and wherever one of them died (zephyr_build.main).
THEOREM WorkspaceReady == Spec => []ManagedWorkspaceReady
<1>1. ReadyInv => ManagedWorkspaceReady
  BY DEF ReadyInv, ReadyAt, ManagedWorkspaceReady, AfterWorkspace, Exported
<1> QED
  BY <1>1, ReadyInit, ReadyStep, Controlled, PTL DEF Spec

----------------------------------------------------------------------------
(* The managed SDK.  While nothing is spoiled at most one builder is       *)
(* between remove and setup, and what is at managed_sdk_dir is what this   *)
(* builder has made of it so far; an SDK that nobody is installing is      *)
(* complete.                                                               *)

SdkType ==
  [content : {"none", "half", "whole"}, marker : BOOLEAN, genuine : BOOLEAN,
   setUp : BOOLEAN, writer : Builders \cup {None}]

GenuineInv ==
  /\ sdk \in SdkType
  /\ archive \in [Builders -> {None, "good", "bad"}]
  /\ sdk.content # "none" => sdk.genuine
  /\ sdk.writer # None => sdk.content # "none"
  /\ \A b \in Builders : step[b] \in {"remove", "move"} => archive[b] = "good"

Complete == UsableSdk \/ Installing # {}

InstallAt(b) ==
  /\ step[b] = "move" => sdk.content = "none"
  /\ step[b] = "moving" => sdk.content = "half" /\ sdk.writer = b
  /\ step[b] = "setup" => sdk.content = "whole"
  /\ chosen[b].sdk = "managed" /\ step[b] \in {"projects", "prepare", "build"}
     => Complete

InstallInv ==
  \/ spoiled
  \/ (sdk.marker => Complete) /\ \A b \in Builders : InstallAt(b)

SdkInv == GenuineInv /\ InstallInv

LEMMA SdkInit == Init => SdkInv
<1> SUFFICES ASSUME Init PROVE SdkInv
  OBVIOUS
<1>1. GenuineInv
  BY DEF Init, GenuineInv, SdkType, NoSdk
<1>2. InstallInv
  BY DEF Init, InstallInv, InstallAt, NoSdk
<1> QED
  BY <1>1, <1>2 DEF SdkInv

\* A builder whose step of an install spoils nothing has the cache to itself.
LEMMA OneInstalls ==
  ASSUME ~Meeting, NEW b \in Installing
  PROVE  ~spoiled /\ Installing = {b}
<1>1. Installing \subseteq Builders /\ IsFiniteSet(Installing)
  BY BuildAssumption, FS_Subset DEF Installing
<1>2. Cardinality(Installing) \in Nat /\ ~(Cardinality(Installing) > 1)
  BY <1>1, FS_CardinalityType DEF Meeting
<1>3. Cardinality(Installing) # 0
  BY <1>1, FS_EmptySet
<1>4. Cardinality(Installing) = 1
  BY <1>2, <1>3
<1>5. \E x : Installing = {x}
  BY <1>1, <1>4, FS_Singleton
<1> QED
  BY <1>5 DEF Meeting

LEMMA GenuineStep == ControlInv /\ GenuineInv /\ [Next]_vars => GenuineInv'
<1> SUFFICES ASSUME ControlInv, GenuineInv, [Next]_vars PROVE GenuineInv'
  OBVIOUS
<1> USE DEF ControlInv, GenuineInv, Go, cache, mine
<1>1. CASE UNCHANGED vars
  BY <1>1 DEF vars
<1>2. ASSUME NEW b \in Builders, Start(b) PROVE GenuineInv'
  BY <1>2 DEF Start
<1>3. ASSUME NEW b \in Builders,
             \/ EnsureVenv(b) \/ PipInstall(b) \/ ResolveWorkspace(b)
             \/ WestInit(b) \/ WestUpdate(b) \/ Export(b)
      PROVE  GenuineInv'
  BY <1>3 DEF EnsureVenv, PipInstall, ResolveWorkspace, BringUp, NextOfManaged,
              WestInit, WestUpdate, Export
<1>4. ASSUME NEW b \in Builders, InstallRequirements(b) \/ ResolveSdk(b)
      PROVE  GenuineInv'
  BY <1>4 DEF InstallRequirements, NextOfManaged, ResolveSdk
<1>5. ASSUME NEW b \in Builders, FetchSdk(b) PROVE GenuineInv'
  BY <1>5 DEF FetchSdk
<1>6. ASSUME NEW b \in Builders, VerifyArchive(b) PROVE GenuineInv'
  BY <1>6 DEF VerifyArchive
<1>7. ASSUME NEW b \in Builders, RemoveOldSdk(b) PROVE GenuineInv'
  BY <1>7 DEF RemoveOldSdk, NoSdk, SdkType
<1>8. ASSUME NEW b \in Builders, MoveSdk(b) PROVE GenuineInv'
  <2>1. archive[b] = "good" /\ UNCHANGED archive
    BY <1>8 DEF MoveSdk
  <2>2. step' \in {[step EXCEPT ![b] = "setup"], [step EXCEPT ![b] = "moving"]}
    BY <1>8 DEF MoveSdk
  <2>3. CASE UNCHANGED sdk
    BY <2>1, <2>2, <2>3
  <2>4. CASE sdk.content = "none"
    <3>1. PICK marker \in BOOLEAN :
            sdk' = [content |-> "half", marker |-> marker, genuine |-> TRUE,
                    setUp |-> FALSE, writer |-> b]
      BY <1>8, <2>1, <2>4 DEF MoveSdk
    <3> QED
      BY <2>1, <2>2, <3>1 DEF SdkType
  <2> QED
    BY <1>8, <2>3, <2>4 DEF MoveSdk
<1>9. ASSUME NEW b \in Builders, FinishMove(b) PROVE GenuineInv'
  <2>1. UNCHANGED archive
    BY <1>9 DEF FinishMove
  <2>2. CASE sdk.writer = b
    <3>1. sdk.content # "none" /\ sdk.genuine
      BY <2>2, BuildAssumption
    <3>2. sdk' = [sdk EXCEPT !.content = "whole", !.marker = TRUE]
      BY <1>9, <2>2 DEF FinishMove
    <3>3. step' = [step EXCEPT ![b] = "setup"]
      BY <1>9, <2>2 DEF FinishMove
    <3> QED
      BY <2>1, <3>1, <3>2, <3>3 DEF SdkType
  <2>3. CASE sdk.writer # b
    BY <1>9, <2>1, <2>3 DEF FinishMove
  <2> QED
    BY <2>2, <2>3
<1>10. ASSUME NEW b \in Builders, SetUpSdk(b) PROVE GenuineInv'
  BY <1>10, ZenonT(40) DEF SetUpSdk, SdkType
<1>11. ASSUME NEW b \in Builders, EnsureProjects(b) \/ Prepare(b)
       PROVE  GenuineInv'
  BY <1>11 DEF EnsureProjects, Prepare
<1>12. ASSUME NEW b \in Builders,
              WestBuild(b) \/ CopyArtifacts(b) \/ ScratchBuild(b)
       PROVE  GenuineInv'
  BY <1>12 DEF WestBuild, CopyArtifacts, ScratchBuild
<1>13. ASSUME NEW b \in Builders, Cut(b) PROVE GenuineInv'
  <2>1. step' = [step EXCEPT ![b] = "failed"] /\ UNCHANGED archive
    BY <1>13 DEF Cut
  <2>2. CASE UNCHANGED sdk
    BY <2>1, <2>2
  <2>3. CASE CutInstall(b) /\ sdk' # sdk
    <3>1. sdk.content # "none"
      BY <2>2, <2>3 DEF CutInstall
    <3>2. PICK m \in BOOLEAN :
            sdk' = [sdk EXCEPT !.content = "half", !.marker = m]
      BY <2>2, <2>3 DEF CutInstall, SdkType
    <3> QED
      BY <2>1, <3>1, <3>2 DEF SdkType
  <2> QED
    BY <1>13, <2>2, <2>3
       DEF Cut, CutVenv, CutUpdate, CutProjects, CutClean, CutCopy, CutElsewhere
<1> QED
  BY <1>1, <1>2, <1>3, <1>4, <1>5, <1>6, <1>7, <1>8, <1>9, <1>10, <1>11,
     <1>12, <1>13 DEF Next, Progress

\* A step outside of an install neither touches the SDK nor enters one, nor
\* leaves one; to choose the managed SDK it looks for its marker.
OutsideStep(b) ==
  /\ UNCHANGED <<sdk, spoiled>> /\ b \notin Installing
  /\ \A c \in Builders \ {b} : UNCHANGED <<step[c], chosen[c]>>
  /\ step'[b] \notin {"move", "moving", "setup"}
  /\ step'[b] \in {"projects", "prepare", "build"} /\ chosen'[b].sdk = "managed"
     => \/ sdk.marker
        \/ chosen[b].sdk = "managed" /\ step[b] \in {"projects", "prepare"}

LEMMA OutsideKeeps ==
  ASSUME ControlInv, InstallInv, NEW b \in Builders, OutsideStep(b)
  PROVE  InstallInv'
<1>1. Installing \subseteq Installing'
  BY DEF Installing, OutsideStep
<1>2. Complete => Complete'
  BY <1>1 DEF Complete, UsableSdk, OutsideStep
<1> QED
  BY <1>2 DEF InstallInv, InstallAt, OutsideStep

LEMMA InstallStep ==
  ControlInv /\ SdkInv /\ [Next]_vars => InstallInv'
<1> SUFFICES ASSUME ControlInv, SdkInv, [Next]_vars PROVE InstallInv'
  OBVIOUS
<1> USE DEF SdkInv
<1>1. CASE UNCHANGED vars
  BY <1>1 DEF vars, cache, mine, InstallInv, InstallAt, Complete, UsableSdk,
              Installing
<1>2. ASSUME NEW b \in Builders,
             Start(b) \/ Progress(b) \/ Cut(b), b \notin Installing
      PROVE  InstallInv'
  <2> USE DEF OutsideStep, Installing, ControlInv, ChosenType, Go, cache, mine
  <2>1. CASE Start(b) \/ EnsureVenv(b) \/ PipInstall(b)
    <3>1. OutsideStep(b)
      BY <1>2, <2>1 DEF Start, EnsureVenv, PipInstall
    <3> QED
      BY <3>1, OutsideKeeps
  <2>2. CASE ResolveWorkspace(b)
    <3>1. OutsideStep(b)
      BY <1>2, <2>2 DEF ResolveWorkspace, BringUp, NextOfManaged
    <3> QED
      BY <3>1, OutsideKeeps
  <2>3. CASE \/ WestInit(b) \/ WestUpdate(b) \/ Export(b)
             \/ InstallRequirements(b)
    <3>1. OutsideStep(b)
      BY <1>2, <2>3 DEF WestInit, WestUpdate, Export, InstallRequirements,
                        NextOfManaged
    <3> QED
      BY <3>1, OutsideKeeps
  <2>4. CASE ResolveSdk(b)
    <3>1. OutsideStep(b)
      BY <1>2, <2>4, BuildAssumption DEF ResolveSdk
    <3> QED
      BY <3>1, OutsideKeeps
  <2>5. CASE FetchSdk(b) \/ VerifyArchive(b)
    <3>1. OutsideStep(b)
      BY <1>2, <2>5 DEF FetchSdk, VerifyArchive
    <3> QED
      BY <3>1, OutsideKeeps
  <2>6. CASE EnsureProjects(b) \/ Prepare(b)
    <3>1. OutsideStep(b)
      BY <1>2, <2>6 DEF EnsureProjects, Prepare
    <3> QED
      BY <3>1, OutsideKeeps
  <2>7. CASE WestBuild(b) \/ CopyArtifacts(b) \/ ScratchBuild(b)
    <3>1. OutsideStep(b)
      BY <1>2, <2>7 DEF WestBuild, CopyArtifacts, ScratchBuild
    <3> QED
      BY <3>1, OutsideKeeps
  <2>8. CASE Cut(b)
    <3>1. OutsideStep(b)
      BY <1>2, <2>8 DEF Cut, CutVenv, CutUpdate, CutProjects, CutInstall, CutClean, CutCopy,
                        CutElsewhere
    <3> QED
      BY <3>1, OutsideKeeps
  <2>9. ~(RemoveOldSdk(b) \/ MoveSdk(b) \/ FinishMove(b) \/ SetUpSdk(b))
    BY <1>2 DEF RemoveOldSdk, MoveSdk, FinishMove, SetUpSdk
  <2> QED
    BY <1>2, <2>1, <2>2, <2>3, <2>4, <2>5, <2>6, <2>7, <2>8, <2>9 DEF Progress
<1>3. ASSUME NEW b \in Installing, Start(b) \/ Progress(b) \/ Cut(b)
      PROVE  InstallInv'
  <2> SUFFICES ASSUME ~spoiled' PROVE InstallInv'
    BY DEF InstallInv
  <2>1. b \in Builders /\ step[b] \in {"remove", "move", "moving", "setup"}
    BY <1>3 DEF Installing
  <2>2. RemoveOldSdk(b) \/ MoveSdk(b) \/ FinishMove(b) \/ SetUpSdk(b)
    BY <1>3, <2>1 DEF Progress, Start, EnsureVenv, PipInstall, ResolveWorkspace,
         WestInit, WestUpdate, Export, InstallRequirements, ResolveSdk,
         FetchSdk, VerifyArchive, EnsureProjects, Prepare, WestBuild,
         CopyArtifacts, ScratchBuild, Cut, CutVenv, CutUpdate, CutProjects, CutInstall,
         CutClean, CutCopy, CutElsewhere
  <2>3. spoiled' = Meeting
    BY <2>2 DEF RemoveOldSdk, MoveSdk, FinishMove, SetUpSdk
  <2>4. ~spoiled /\ Installing = {b}
    BY <1>3, <2>3, OneInstalls
  <2>5. ASSUME NEW c \in Builders, c # b
        PROVE  /\ step'[c] = step[c] /\ chosen'[c] = chosen[c]
               /\ step[c] \notin {"remove", "move", "moving", "setup"}
    BY <2>1, <2>2, <2>4, <2>5
       DEF Installing, ControlInv, Go, mine, RemoveOldSdk, MoveSdk, FinishMove,
           SetUpSdk
  <2>6. (sdk.marker => Complete) /\ InstallAt(b) /\ sdk \in SdkType
    BY <2>1, <2>4 DEF InstallInv, GenuineInv
  <2>7. ASSUME Complete', InstallAt(b)' PROVE InstallInv'
    BY <2>5, <2>7 DEF InstallInv, InstallAt
  <2>8. CASE RemoveOldSdk(b) \/ MoveSdk(b) \/ FinishMove(b)
    <3>1. CASE step[b] = "remove"
      <4>1. sdk' = NoSdk /\ step' = [step EXCEPT ![b] = "move"]
        BY <2>8, <3>1 DEF RemoveOldSdk, MoveSdk, FinishMove, Go
      <4> QED
        BY <2>1, <2>7, <4>1 DEF NoSdk, Installing, InstallAt, ControlInv, Complete
    <3>2. CASE step[b] = "move"
      <4>1. /\ sdk'.content = "half" /\ sdk'.writer = b
            /\ step' = [step EXCEPT ![b] = "moving"]
        BY <2>6, <2>8, <3>2 DEF RemoveOldSdk, MoveSdk, FinishMove, Go, InstallAt
      <4> QED
        BY <2>1, <2>7, <4>1 DEF Installing, InstallAt, ControlInv, Complete
    <3>3. CASE step[b] = "moving"
      <4>1. /\ sdk' = [sdk EXCEPT !.content = "whole", !.marker = TRUE]
            /\ step' = [step EXCEPT ![b] = "setup"]
        BY <2>6, <2>8, <3>3 DEF RemoveOldSdk, MoveSdk, FinishMove, Go, InstallAt
      <4> QED
        BY <2>1, <2>6, <2>7, <4>1
           DEF Installing, InstallAt, ControlInv, SdkType, Complete
    <3>4. step[b] \in {"remove", "move", "moving"}
      BY <2>8 DEF RemoveOldSdk, MoveSdk, FinishMove
    <3> QED
      BY <3>1, <3>2, <3>3, <3>4
  <2>9. CASE SetUpSdk(b)
    <3>1. sdk.content = "whole" /\ sdk' = [sdk EXCEPT !.setUp = TRUE]
      BY <2>6, <2>9 DEF SetUpSdk, InstallAt
    <3>2. UsableSdk'
      BY <2>6, <3>1 DEF SdkType, UsableSdk
    <3>3. step'[b] \notin {"move", "moving", "setup"}
      BY <2>1, <2>9 DEF SetUpSdk, ControlInv, Go
    <3>4. InstallAt(b)'
      BY <3>2, <3>3 DEF InstallAt, Complete
    <3> QED
      BY <3>2, <3>4, <2>7 DEF Complete
  <2> QED
    BY <2>2, <2>8, <2>9
<1> QED
  BY <1>1, <1>2, <1>3 DEF Next

\* What is at managed_sdk_dir has the published checksum; and a build that
\* takes it while nobody installs finds it complete, unless an install was
\* cut short or two of them met (zephyr_build._install_managed_sdk).
THEOREM SdkIsTrusted == Spec => []SdkTrusted
<1>1. SdkInv => SdkTrusted
  BY DEF SdkInv, GenuineInv, InstallInv, InstallAt, Complete, SdkTrusted
<1>2. ControlInv /\ SdkInv /\ [Next]_vars => SdkInv'
  BY GenuineStep, InstallStep DEF SdkInv
<1> QED
  BY <1>1, <1>2, SdkInit, Controlled, PTL DEF Spec

----------------------------------------------------------------------------
(* The artifacts.  A build directory that was not left half cleaned holds  *)
(* artifacts of one app only, at the place of this app's layout, so the    *)
(* one that is found is the one that was just built.                       *)

DirType ==
  [app : Apps \cup {None}, elf : [Places -> Images \cup {None}],
   hex : [Places -> Images \cup {None}], outElf : Images \cup {None},
   outHex : Images \cup {None}]

PlaceOf(a) == IF a \in NestedApps THEN "nested" ELSE "plain"

\* Nothing, or artifacts of the app that the CMakeCache names.
OneApp(d) ==
  \A p \in Places : d.elf[p] # None => d.app # None /\ p = PlaceOf(d.app)

\* The directory has just been built for b.
BuiltFor(b, d) ==
  /\ d.app = app[b] /\ d.elf[Place(b)] = Image(b)
  /\ Image(b) \in HexImages => d.hex[Place(b)] = Image(b)

Fresh(b) ==
  /\ dir[b].outElf = Image(b)
  /\ Image(b) \in HexImages => dir[b].outHex = Image(b)

DirAt(b) ==
  /\ OneApp(dir[b])
  /\ /\ step[b] = "build" /\ ~Request(b).scratch
     /\ Request(b).pristine # "never"
     => CacheMatches(b)
  /\ step[b] = "copy" => BuiltFor(b, dir[b])
  /\ step[b] = "done" /\ ~Request(b).ensureOnly => Fresh(b)

DirInv ==
  /\ app \in [Builders -> Apps] /\ source \in [Builders -> 1 .. MaxVersion]
  /\ dir \in [Builders -> DirType]
  /\ \A b \in Builders \ uncleaned : DirAt(b)

LEMMA ImageType ==
  ASSUME DirInv, NEW b \in Builders
  PROVE  /\ app[b] \in Apps /\ Image(b) \in Images /\ Image(b) # None
         /\ Place(b) \in Places /\ Place(b) = PlaceOf(app[b])
         /\ app[b] # None
<1>1. Image(b) \in Apps \X (1 .. MaxVersion)
  BY DEF DirInv, Image
<1> QED
  BY <1>1, BuildAssumption DEF DirInv, Images, Place, Places, PlaceOf

LEMMA EmptyDirType == EmptyDir \in DirType /\ OneApp(EmptyDir)
  BY DEF EmptyDir, DirType, OneApp

\* What `west build` makes of a directory of the same app, or of none.
LEMMA BuiltFacts ==
  ASSUME DirInv, NEW b \in Builders, NEW d \in DirType
  PROVE  /\ Built(b, d) \in DirType /\ BuiltFor(b, Built(b, d))
         /\ \/ Request(b).pristine = "always"
            \/ OneApp(d) /\ d.app \in {None, app[b]}
            => OneApp(Built(b, d))
<1> DEFINE base == IF Request(b).pristine = "always" THEN EmptyDir ELSE d
           made == [app |-> app[b], elf |-> [base.elf EXCEPT ![Place(b)] = Image(b)],
                    hex |-> IF Image(b) \in HexImages
                              THEN [base.hex EXCEPT ![Place(b)] = Image(b)]
                              ELSE base.hex,
                    outElf |-> base.outElf, outHex |-> base.outHex]
<1>1. base \in DirType
  BY EmptyDirType
<1>2. Built(b, d) = made
  BY DEF Built
<1>3. /\ app[b] \in Apps /\ Image(b) \in Images /\ Image(b) # None
      /\ Place(b) \in Places /\ Place(b) = PlaceOf(app[b]) /\ app[b] # None
  BY ImageType
<1>4. made \in DirType /\ BuiltFor(b, made)
  <2> HIDE DEF base
  <2> QED
    BY <1>1, <1>3 DEF DirType, BuiltFor
<1>5. ASSUME \/ Request(b).pristine = "always"
             \/ OneApp(d) /\ d.app \in {None, app[b]}
      PROVE  OneApp(made)
  <2>1. OneApp(base) /\ base.app \in {None, app[b]}
    BY <1>5, EmptyDirType DEF EmptyDir
  <2> HIDE DEF base
  <2> QED
    BY <1>1, <1>3, <2>1 DEF OneApp, DirType
<1> QED
  BY <1>2, <1>4, <1>5

LEMMA CopiedFacts ==
  ASSUME DirInv, NEW b \in Builders, NEW d \in DirType, NEW out \in DirType,
         OneApp(d), BuiltFor(b, d)
  PROVE  /\ Copied(d, out) \in DirType
         /\ Copied(d, out).app = out.app /\ Copied(d, out).elf = out.elf
         /\ Copied(d, out).outElf = Image(b)
         /\ Image(b) \in HexImages => Copied(d, out).outHex = Image(b)
<1> DEFINE place == IF d.elf["plain"] # None THEN "plain" ELSE "nested"
           made == [app |-> out.app, elf |-> out.elf, hex |-> out.hex,
                    outElf |-> d.elf[place],
                    outHex |-> IF d.hex[place] # None THEN d.hex[place]
                               ELSE out.outHex]
<1>1. Copied(d, out) = made
  BY DEF Copied
<1>2. place = Place(b)
  BY ImageType DEF OneApp, BuiltFor, Places
<1> HIDE DEF place
<1>3. made \in DirType
  BY <1>2, ImageType DEF DirType
<1>4. d.elf[place] = Image(b) /\ (Image(b) \in HexImages => d.hex[place] = Image(b))
  BY <1>2 DEF BuiltFor
<1> QED
  BY <1>1, <1>3, <1>4, ImageType

LEMMA DirInit == Init => DirInv
<1> SUFFICES ASSUME Init PROVE DirInv
  OBVIOUS
<1>1. dir \in [Builders -> DirType]
  BY EmptyDirType DEF Init
<1>2. ASSUME NEW b \in Builders PROVE DirAt(b)
  BY EmptyDirType DEF Init, DirAt
<1>3. 1 \in 1 .. MaxVersion
  BY BuildAssumption
<1> QED
  BY <1>1, <1>2, <1>3 DEF Init, DirInv

\* A step of b is about the directory of b.
LEMMA OwnDir ==
  ASSUME ControlInv, DirInv, NEW b \in Builders,
         Start(b) \/ Progress(b) \/ Cut(b)
  PROVE  /\ app' \in [Builders -> Apps]
         /\ source' \in [Builders -> 1 .. MaxVersion]
         /\ UNCHANGED request
         /\ \A c \in Builders \ {b} :
              /\ UNCHANGED <<app[c], source[c], dir[c], step[c]>>
              /\ c \in uncleaned <=> c \in uncleaned'
<1> USE DEF ControlInv, DirInv, Go, mine
<1>1. CASE Start(b)
  BY <1>1 DEF Start
<1>2. CASE \/ EnsureVenv(b) \/ PipInstall(b) \/ ResolveWorkspace(b)
           \/ WestInit(b) \/ WestUpdate(b) \/ Export(b) \/ InstallRequirements(b)
  BY <1>2 DEF EnsureVenv, PipInstall, ResolveWorkspace, WestInit, WestUpdate,
              Export, InstallRequirements
<1>3. CASE \/ ResolveSdk(b) \/ FetchSdk(b) \/ VerifyArchive(b)
           \/ RemoveOldSdk(b) \/ MoveSdk(b) \/ FinishMove(b) \/ SetUpSdk(b)
  BY <1>3 DEF ResolveSdk, FetchSdk, VerifyArchive, RemoveOldSdk, MoveSdk,
              FinishMove, SetUpSdk
<1>4. CASE \/ EnsureProjects(b) \/ Prepare(b) \/ WestBuild(b)
           \/ CopyArtifacts(b) \/ ScratchBuild(b)
  BY <1>4 DEF EnsureProjects, Prepare, WestBuild, CopyArtifacts, ScratchBuild
<1>5. CASE Cut(b)
  BY <1>5 DEF Cut, CutVenv, CutUpdate, CutProjects, CutInstall, CutClean, CutCopy,
              CutElsewhere
<1> QED
  BY <1>1, <1>2, <1>3, <1>4, <1>5 DEF Progress

\* What a step makes of its own directory.
LEMMA OwnDirAt ==
  ASSUME ControlInv, DirInv, NEW b \in Builders,
         Start(b) \/ Progress(b) \/ Cut(b)
  PROVE  dir'[b] \in DirType /\ (b \notin uncleaned' => DirAt(b)')
         /\ dir' \in [Builders -> DirType]
<1> DEFINE Goal == /\ dir'[b] \in DirType /\ (b \notin uncleaned' => DirAt(b)')
                   /\ dir' \in [Builders -> DirType]
<1>0. dir[b] \in DirType /\ (b \notin uncleaned => DirAt(b))
  BY DEF DirInv
<1>q. UNCHANGED request
  BY OwnDir
<1>1. ASSUME UNCHANGED <<dir, uncleaned>>,
             step'[b] \notin {"build", "copy"},
             step'[b] = "done" => Request(b).ensureOnly
      PROVE  Goal
  BY <1>0, <1>1, <1>q DEF DirInv, DirAt, OneApp, Request
<1>2. CASE Start(b) \/ EnsureVenv(b) \/ PipInstall(b) \/ ResolveWorkspace(b)
  <2>1. UNCHANGED <<dir, uncleaned>> /\ step'[b] \notin {"build", "copy", "done"}
    BY <1>2 DEF Start, EnsureVenv, PipInstall, ResolveWorkspace, BringUp,
                NextOfManaged, ControlInv, Go, mine
  <2> QED
    BY <1>1, <2>1
<1>3. CASE WestInit(b) \/ WestUpdate(b) \/ Export(b) \/ InstallRequirements(b)
  <2>1. UNCHANGED <<dir, uncleaned>> /\ step'[b] \notin {"build", "copy", "done"}
    BY <1>3 DEF WestInit, WestUpdate, Export, InstallRequirements,
                NextOfManaged, ControlInv, Go, mine
  <2> QED
    BY <1>1, <2>1
<1>4. CASE ResolveSdk(b) \/ SetUpSdk(b)
  <2>1. /\ UNCHANGED <<dir, uncleaned>> /\ step'[b] \notin {"build", "copy"}
        /\ step'[b] = "done" => Request(b).ensureOnly
    BY <1>4 DEF ResolveSdk, SetUpSdk, ControlInv, Go
  <2> QED
    BY <1>1, <2>1
<1>5. CASE \/ FetchSdk(b) \/ VerifyArchive(b) \/ RemoveOldSdk(b)
           \/ MoveSdk(b) \/ FinishMove(b) \/ EnsureProjects(b)
  <2>1. UNCHANGED <<dir, uncleaned>> /\ step'[b] \notin {"build", "copy", "done"}
    BY <1>5 DEF FetchSdk, VerifyArchive, RemoveOldSdk, MoveSdk, FinishMove,
                EnsureProjects, ControlInv, Go, mine
  <2> QED
    BY <1>1, <2>1
<1>6. CASE Prepare(b)
  <2>1. step' = [step EXCEPT ![b] = "build"] /\ UNCHANGED app
    BY <1>6 DEF Prepare, Go
  <2>2. CASE MustClean(b)
    <3>1. dir' = [dir EXCEPT ![b] = EmptyDir]
      BY <1>6, <2>2 DEF Prepare
    <3>2. dir'[b] = EmptyDir /\ dir' \in [Builders -> DirType]
      BY <3>1, EmptyDirType DEF DirInv
    <3>3. OneApp(dir'[b]) /\ CacheMatches(b)'
      BY <3>2, EmptyDirType DEF CacheMatches, EmptyDir
    <3> QED
      BY <2>1, <3>2, <3>3, EmptyDirType DEF DirAt, ControlInv
  <2>3. CASE ~MustClean(b)
    <3>1. UNCHANGED <<dir, uncleaned>>
      BY <1>6, <2>3 DEF Prepare
    <3> QED
      BY <1>0, <1>q, <2>1, <2>3, <3>1
         DEF DirInv, DirAt, ControlInv, OneApp, MustClean, CacheMatches, Request
  <2> QED
    BY <2>2, <2>3
<1>7. CASE WestBuild(b)
  <2>1. CASE Buildable(b)
    <3>1. /\ dir' = [dir EXCEPT ![b] = Built(b, dir[b])]
          /\ step' = [step EXCEPT ![b] = "copy"]
          /\ UNCHANGED <<app, source>>
          /\ uncleaned' = IF Request(b).pristine = "always"
                            THEN uncleaned \ {b} ELSE uncleaned
      BY <1>7, <2>1 DEF WestBuild, Go
    <3>2. /\ Built(b, dir[b]) \in DirType /\ BuiltFor(b, Built(b, dir[b]))
          /\ \/ Request(b).pristine = "always"
             \/ OneApp(dir[b]) /\ dir[b].app \in {None, app[b]}
             => OneApp(Built(b, dir[b]))
      BY <1>0, BuiltFacts
    <3>3. dir'[b] = Built(b, dir[b]) /\ dir' \in [Builders -> DirType]
      BY <3>1, <3>2 DEF DirInv
    <3>4. CASE b \notin uncleaned'
      <4>1. \/ Request(b).pristine = "always"
            \/ OneApp(dir[b]) /\ dir[b].app \in {None, app[b]}
        BY <1>0, <1>7, <2>1, <3>1, <3>4
           DEF WestBuild, DirAt, CacheMatches, Buildable
      <4>2. OneApp(dir'[b])
        BY <3>2, <3>3, <4>1
      <4>3. BuiltFor(b, dir[b])'
        BY <3>1, <3>2, <3>3 DEF BuiltFor, Place, Image
      <4> QED
        BY <3>1, <3>2, <3>3, <4>2, <4>3 DEF DirAt, ControlInv
    <3> QED
      BY <3>2, <3>3, <3>4
  <2>2. CASE ~Buildable(b)
    <3>1. UNCHANGED <<dir, uncleaned>> /\ step'[b] = "failed"
      BY <1>7, <2>2 DEF WestBuild, Go, ControlInv
    <3> QED
      BY <1>1, <3>1
  <2> QED
    BY <2>1, <2>2
<1>8. CASE CopyArtifacts(b)
  <2>1. /\ dir' = [dir EXCEPT ![b] = Copied(dir[b], dir[b])]
        /\ step[b] = "copy" /\ step' = [step EXCEPT ![b] = "done"]
        /\ UNCHANGED <<app, source, uncleaned>>
    BY <1>8 DEF CopyArtifacts, Go
  <2>2. Copied(dir[b], dir[b]) \in DirType
    BY <1>0, <2>1, ImageType DEF Copied, DirType, Places
  <2>3. dir'[b] = Copied(dir[b], dir[b]) /\ dir' \in [Builders -> DirType]
    BY <2>1, <2>2 DEF DirInv
  <2>4. CASE b \notin uncleaned
    <3>1. OneApp(dir[b]) /\ BuiltFor(b, dir[b])
      BY <1>0, <2>1, <2>4 DEF DirAt
    <3>2. Fresh(b)' /\ OneApp(dir'[b])
      BY <1>0, <2>1, <2>3, <3>1, CopiedFacts DEF Fresh, OneApp, Image
    <3> QED
      BY <2>1, <2>2, <2>3, <3>2 DEF DirAt, ControlInv
  <2> QED
    BY <2>1, <2>2, <2>3, <2>4
<1>9. CASE ScratchBuild(b)
  <2>1. CASE Buildable(b)
    <3> DEFINE made == Built(b, EmptyDir)
    <3>1. /\ dir' = [dir EXCEPT ![b] = Copied(made, EmptyDir)]
          /\ step' = [step EXCEPT ![b] = "done"] /\ UNCHANGED <<app, source>>
      BY <1>9, <2>1 DEF ScratchBuild, Go
    <3>2. made \in DirType /\ BuiltFor(b, made) /\ OneApp(made)
      BY BuiltFacts, EmptyDirType DEF EmptyDir
    <3> HIDE DEF made
    <3>3. /\ Copied(made, EmptyDir) \in DirType
          /\ Copied(made, EmptyDir).app = EmptyDir.app
          /\ Copied(made, EmptyDir).elf = EmptyDir.elf
          /\ Copied(made, EmptyDir).outElf = Image(b)
          /\ Image(b) \in HexImages => Copied(made, EmptyDir).outHex = Image(b)
      BY <3>2, CopiedFacts, EmptyDirType
    <3>4. dir'[b] = Copied(made, EmptyDir) /\ dir' \in [Builders -> DirType]
      BY <3>1, <3>3 DEF DirInv
    <3>5. Fresh(b)' /\ OneApp(dir'[b])
      BY <3>1, <3>3, <3>4, EmptyDirType DEF Fresh, OneApp, Image
    <3> QED
      BY <3>1, <3>3, <3>4, <3>5 DEF DirAt, ControlInv
  <2>2. CASE ~Buildable(b)
    <3>1. UNCHANGED <<dir, uncleaned>> /\ step'[b] = "failed"
      BY <1>9, <2>2 DEF ScratchBuild, Go, ControlInv
    <3> QED
      BY <1>1, <3>1
  <2> QED
    BY <2>1, <2>2
<1>10. CASE Cut(b)
  <2>1. step'[b] = "failed" /\ UNCHANGED <<app, source>>
    BY <1>10 DEF Cut, Go, ControlInv
  <2>2. CASE UNCHANGED <<dir, uncleaned>>
    BY <1>1, <2>1, <2>2
  <2>3. CASE CutClean(b)
    <3>1. PICK d \in HalfCleaned(dir[b]) : dir' = [dir EXCEPT ![b] = d]
      BY <2>3 DEF CutClean
    <3>2. d \in DirType
      BY <1>0, EmptyDirType DEF HalfCleaned, DirType
    <3>3. b \in uncleaned'
      BY <2>3 DEF CutClean
    <3> QED
      BY <3>1, <3>2, <3>3 DEF DirInv
  <2>4. CASE CutCopy(b)
    <3>1. PICK image \in {dir[b].outElf, Torn} :
            dir' = [dir EXCEPT ![b].outElf = image]
      BY <2>4 DEF CutCopy
    <3>2. image \in Images \cup {None}
      BY <1>0, <3>1 DEF DirType, Images
    <3>3. /\ dir'[b] \in DirType /\ dir'[b].elf = dir[b].elf
          /\ dir'[b].app = dir[b].app /\ dir' \in [Builders -> DirType]
      BY <1>0, <3>1, <3>2 DEF DirInv, DirType
    <3>4. UNCHANGED uncleaned
      BY <2>4 DEF CutCopy
    <3> QED
      BY <1>0, <2>1, <3>3, <3>4 DEF DirAt, OneApp
  <2> QED
    BY <1>10, <2>2, <2>3, <2>4
       DEF Cut, CutVenv, CutUpdate, CutProjects, CutInstall, CutElsewhere
<1> QED
  BY <1>2, <1>3, <1>4, <1>5, <1>6, <1>7, <1>8, <1>9, <1>10 DEF Progress

LEMMA DirStep == ControlInv /\ DirInv /\ [Next]_vars => DirInv'
<1> SUFFICES ASSUME ControlInv, DirInv, [Next]_vars PROVE DirInv'
  OBVIOUS
<1> USE DEF DirAt, OneApp, CacheMatches, BuiltFor, Fresh, Request, Image, Place
<1>1. CASE UNCHANGED vars
  BY <1>1 DEF vars, mine, DirInv
<1>2. ASSUME NEW b \in Builders, Start(b) \/ Progress(b) \/ Cut(b)
      PROVE  DirInv'
  <2>1. ASSUME NEW c \in Builders \ uncleaned', c # b PROVE DirAt(c)'
    <3>1. /\ app'[c] = app[c] /\ source'[c] = source[c] /\ dir'[c] = dir[c]
          /\ step'[c] = step[c] /\ request' = request /\ c \notin uncleaned
      BY <1>2, <2>1, OwnDir
    <3>2. DirAt(c)
      BY <3>1 DEF DirInv
    <3> QED
      BY <3>1, <3>2
  <2>2. DirInv' <=> /\ app' \in [Builders -> Apps]
                    /\ source' \in [Builders -> 1 .. MaxVersion]
                    /\ dir' \in [Builders -> DirType]
                    /\ \A c \in Builders \ uncleaned' : DirAt(c)'
    BY DEF DirInv
  <2> QED
    BY <1>2, <2>1, <2>2, OwnDir, OwnDirAt
<1> QED
  BY <1>1, <1>2 DEF Next

\* Exit code 0 of a build: firmware.elf and firmware.hex are this app in its
\* current version, whatever was built or broken off in the directory before,
\* unless a removal was cut short (zephyr_build.run_build).
THEOREM SuccessIsFresh == Spec => []SuccessMeansFresh
<1>1. DirInv => SuccessMeansFresh
  BY DEF DirInv, DirAt, Fresh, SuccessMeansFresh
<1> QED
  BY <1>1, DirInit, DirStep, Controlled, PTL DEF Spec

----------------------------------------------------------------------------
(* Types: what the invariants above leave over.                            *)

RestInv ==
  /\ venv \subseteq {"python", "pip", "checked", "west"}
  /\ uncleaned \subseteq Builders /\ spoiled \in BOOLEAN
  /\ faults \in 0 .. MaxFaults

LEMMA RestInit == Init => RestInv
<1> SUFFICES ASSUME Init PROVE RestInv
  OBVIOUS
<1>1. venv = {} /\ uncleaned = {} /\ spoiled = FALSE /\ faults = 0
  BY DEF Init
<1>2. MaxFaults \in Nat
  BY BuildAssumption
<1>3. faults \in 0 .. MaxFaults
  BY <1>1, <1>2
<1>4. venv \subseteq {"python", "pip", "checked", "west"} /\ uncleaned \subseteq Builders
  BY <1>1
<1>5. spoiled \in BOOLEAN
  BY <1>1
<1> QED
  BY <1>3, <1>4, <1>5 DEF RestInv

LEMMA RestStep == RestInv /\ [Next]_vars => RestInv'
<1> SUFFICES ASSUME RestInv, [Next]_vars PROVE RestInv'
  OBVIOUS
<1> USE DEF RestInv, cache, mine
<1>1. CASE UNCHANGED vars
  BY <1>1 DEF vars
<1>2. ASSUME NEW b \in Builders, Start(b) \/ Progress(b) PROVE RestInv'
  <2>1. venv' = venv \/ EnsureVenv(b) \/ PipInstall(b)
    BY <1>2 DEF Progress, Start, ResolveWorkspace, WestInit, WestUpdate, Export,
         InstallRequirements, ResolveSdk, FetchSdk, VerifyArchive, RemoveOldSdk,
         MoveSdk, FinishMove, SetUpSdk, EnsureProjects, Prepare, WestBuild,
         CopyArtifacts, ScratchBuild
  <2>2. venv' \subseteq {"python", "pip", "checked", "west"}
    BY <2>1 DEF EnsureVenv, PipInstall
  <2>3. spoiled' \in {spoiled, Meeting}
    BY <1>2 DEF Progress, Start, EnsureVenv, PipInstall, ResolveWorkspace,
         WestInit, WestUpdate, Export, InstallRequirements, ResolveSdk,
         FetchSdk, VerifyArchive, RemoveOldSdk, MoveSdk, FinishMove, SetUpSdk,
         EnsureProjects, Prepare, WestBuild, CopyArtifacts, ScratchBuild
  <2>4. Meeting \in BOOLEAN
    BY DEF Meeting
  <2>5. uncleaned' \subseteq uncleaned
    BY <1>2 DEF Progress, Start, EnsureVenv, PipInstall, ResolveWorkspace,
         WestInit, WestUpdate, Export, InstallRequirements, ResolveSdk,
         FetchSdk, VerifyArchive, RemoveOldSdk, MoveSdk, FinishMove, SetUpSdk,
         EnsureProjects, Prepare, WestBuild, CopyArtifacts, ScratchBuild
  <2>6. faults' \in 0 .. MaxFaults
    BY <1>2, BuildAssumption
       DEF Progress, Start, EnsureVenv, PipInstall, ResolveWorkspace,
         WestInit, WestUpdate, Export, InstallRequirements, ResolveSdk,
         FetchSdk, VerifyArchive, RemoveOldSdk, MoveSdk, FinishMove, SetUpSdk,
         EnsureProjects, Prepare, WestBuild, CopyArtifacts, ScratchBuild
  <2> QED
    BY <2>2, <2>3, <2>4, <2>5, <2>6
<1>3. ASSUME NEW b \in Builders, Cut(b) PROVE RestInv'
  <2>1. venv' \subseteq {"python", "pip", "checked", "west"}
    BY <1>3 DEF Cut, CutVenv, CutUpdate, CutProjects, CutInstall, CutClean, CutCopy,
                CutElsewhere
  <2>2. spoiled' \in {spoiled, TRUE} /\ uncleaned' \in {uncleaned, uncleaned \cup {b}}
    BY <1>3 DEF Cut, CutVenv, CutUpdate, CutProjects, CutInstall, CutClean, CutCopy,
                CutElsewhere
  <2>3. faults' \in 0 .. MaxFaults
    BY <1>3, BuildAssumption DEF Cut
  <2> QED
    BY <2>1, <2>2, <2>3
<1> QED
  BY <1>1, <1>2, <1>3 DEF Next

\* Every variable keeps its type, however many builders share the cache.
THEOREM TypeCorrect == Spec => []TypeOK
<1>1. ControlInv /\ ReadyInv /\ SdkInv /\ DirInv /\ RestInv => TypeOK
  BY DEF ControlInv, ChosenType, ReadyInv, SpaceType, SdkInv, GenuineInv, SdkType,
         DirInv, DirType, RestInv, TypeOK
<1>2. ControlInv /\ SdkInv /\ [Next]_vars => SdkInv'
  BY GenuineStep, InstallStep DEF SdkInv
<1> QED
  BY <1>1, <1>2, ReadyInit, ReadyStep, SdkInit, DirInit, DirStep, RestInit,
     RestStep, Controlled, PTL DEF Spec
=============================================================================
