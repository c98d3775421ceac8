-------------------------- MODULE BootloaderProofs --------------------------
(***************************************************************************)
(* Theorems about Bootloader, for any set of versions and whatever is cut  *)
(* short where.                                                            *)
(***************************************************************************)
EXTENDS Bootloader, TLAPS

Installing == {"acquire", "remove", "removing", "rename", "deps", "npm", "switch"}
Booting == {"seed", "seeding", "startDeps", "startNpm", "verify", "reverify", "online"}

\* Nothing runs while the command line is idle; what is installed is a version,
\* newer than current's unless it was uploaded; what is booted is current's.
CommandInv ==
  /\ pc = "idle" <=> cmd = "none"
  /\ pc \in Installing => target \in Versions
  /\ pc \in Installing /\ cmd # "upload" => current = None \/ target > current
  /\ pc \in Booting => cmd = "start" /\ target = current /\ target \in Versions
  /\ pc = "fetch" => cmd \in {"start", "update"}

\* How far the target's directory has come at each step of its installation.
StageInv ==
  /\ pc = "rename" => versions[target] = "absent"
  /\ pc = "deps" => versions[target] = "code"
  /\ pc = "npm" => versions[target] = "half"
  /\ pc = "switch" => versions[target] = "ready"

IInv == TypeOK /\ CommandInv /\ StageInv

-----------------------------------------------------------------------------
(* How a command goes on or ends                                           *)

\* Ending a command, or booting current's version, keeps what is known of the
\* command, whatever has become of the directories.
LEMMA QuitKeeps ==
  ASSUME NEW how \in {"ok", "failed", "killed"}, Quit(how)
  PROVE  /\ CommandInv' /\ StageInv'
         /\ cmd' = "none" /\ pc' = "idle" /\ target' = None /\ updated' = FALSE /\ exit' = how
BY DEF Quit, CommandInv, StageInv, Installing, Booting

\* Going on to start a version, by any command, keeps the invariant.
LEMMA BootKeeps ==
  ASSUME IInv, cmd = "start", Boot(current), current' = current
  PROVE  /\ CommandInv' /\ StageInv'
         /\ cmd' \in {"none", "start"} /\ pc' \in {"idle", "seed"} /\ target' \in Versions \cup {None}
         /\ updated' \in BOOLEAN /\ exit' \in {"none", "ok", "failed", "killed"}
         /\ pc' = "idle" => ~Installed(current)
<1>1. CASE Installed(current) /\ pc' = "seed" /\ target' = current /\ UNCHANGED <<cmd, updated, exit>>
  BY <1>1 DEF IInv, TypeOK, CommandInv, StageInv, Installing, Booting, Installed
<1>2. CASE ~Installed(current) /\ Quit("failed")
  BY <1>2, QuitKeeps
<1> QED BY <1>1, <1>2 DEF Boot

\* updateLogic or the upload throws.
LEMMA FailKeeps ==
  ASSUME IInv, Fail, current' = current
  PROVE  /\ CommandInv' /\ StageInv'
         /\ cmd' \in {"none", "start"} /\ pc' \in {"idle", "seed"} /\ target' \in Versions \cup {None}
         /\ updated' \in BOOLEAN /\ exit' \in {"none", "ok", "failed", "killed"}
         /\ cmd = "start" /\ pc' = "idle" => ~Installed(current)
<1>1. CASE cmd = "start" /\ Installed(current) /\ Boot(current)
  BY <1>1, BootKeeps
<1>2. CASE ~(cmd = "start" /\ Installed(current)) /\ Quit("failed")
  BY <1>2, QuitKeeps
<1> QED BY <1>1, <1>2 DEF Fail

\* An update that finds nothing newer keeps the version at hand, and the invariant.
LEMMA KeepCurrentKeeps ==
  ASSUME IInv, KeepCurrent, current' = current
  PROVE  /\ CommandInv' /\ StageInv'
         /\ cmd' \in {"none", "start"} /\ pc' \in {"idle", "seed"} /\ target' \in Versions \cup {None}
         /\ updated' \in BOOLEAN /\ exit' \in {"none", "ok", "failed", "killed"}
         /\ cmd = "start" /\ pc' = "idle" => ~Installed(current)
<1>1. CASE cmd = "start" /\ Boot(current)
  BY <1>1, BootKeeps
<1>2. CASE cmd # "start" /\ Quit("ok")
  BY <1>2, QuitKeeps
<1> QED BY <1>1, <1>2 DEF KeepCurrent

-----------------------------------------------------------------------------
(* The steps                                                               *)

\* A `start' command may begin in any state of the disk.
LEMMA StartStep == ASSUME IInv, Start PROVE IInv'
<1>1. UNCHANGED <<disk, world>> /\ pc = "idle"
  BY DEF Start
<1>2. CASE cmd' = "start" /\ pc' = "fetch" /\ UNCHANGED <<target, updated, exit>>
  BY <1>1, <1>2 DEF IInv, TypeOK, CommandInv, StageInv, Installing, Booting, disk, world
<1>3. CASE /\ current # None
           /\ cmd' = "start" /\ pc' = "seed" /\ target' = current /\ UNCHANGED <<updated, exit>>
  BY <1>1, <1>3 DEF IInv, TypeOK, CommandInv, StageInv, Installing, Booting, disk, world
<1>4. CASE Quit("failed")
  BY <1>1, <1>4, QuitKeeps DEF IInv, TypeOK, disk, world
<1> QED BY <1>2, <1>3, <1>4 DEF Start

\* An `update' or `upload' command may begin in any state of the disk.
LEMMA RequestStep ==
  ASSUME IInv, Update \/ \E v \in Versions : Upload(v) PROVE IInv'
BY DEF Update, Upload, IInv, TypeOK, CommandInv, StageInv, Installing, Booting, disk, world

\* A download names the version that the command is about to install.
LEMMA FetchStep == ASSUME IInv, Fetch PROVE IInv'
<1>1. UNCHANGED <<disk, world>> /\ pc = "fetch"
  BY DEF Fetch
<1>2. CASE KeepCurrent
  BY <1>1, <1>2, KeepCurrentKeeps DEF IInv, TypeOK, disk, world
<1>3. CASE Fail
  BY <1>1, <1>3, FailKeeps DEF IInv, TypeOK, disk, world
<1>4. CASE Quit("failed")
  BY <1>1, <1>4, QuitKeeps DEF IInv, TypeOK, disk, world
<1>5. CASE Newer(stable) /\ pc' = "acquire" /\ target' = stable /\ UNCHANGED <<cmd, updated, exit>>
  BY <1>1, <1>5 DEF IInv, TypeOK, CommandInv, StageInv, Installing, Booting, Newer, disk, world
<1> QED BY <1>2, <1>3, <1>4, <1>5 DEF Fetch

\* The installation goes on with what the download brought, or fails.
LEMMA AcquireStep == ASSUME IInv, Acquire PROVE IInv'
<1>1. UNCHANGED <<disk, world>> /\ pc = "acquire"
  BY DEF Acquire
<1>2. CASE Fail
  BY <1>1, <1>2, FailKeeps DEF IInv, TypeOK, disk, world
<1>3. CASE Goto("remove")
  BY <1>1, <1>3 DEF Goto, IInv, TypeOK, CommandInv, StageInv, Installing, Booting, disk, world
<1> QED BY <1>2, <1>3 DEF Acquire

\* The removal of an old directory of the version begins.
LEMMA RemoveStep == ASSUME IInv, Remove PROVE IInv'
<1>1. UNCHANGED <<current, data, proven, world>> /\ pc = "remove" /\ target \in Versions /\ target # None
  BY VersionsAssumption DEF Remove, IInv, CommandInv, Installing, None
<1>2. CASE versions' = [versions EXCEPT ![target] = "wreck"] /\ Goto("removing")
  BY <1>1, <1>2 DEF Goto, IInv, TypeOK, DirStates, CommandInv, StageInv, Installing, Booting, world
<1>3. CASE versions[target] = "absent" /\ UNCHANGED versions /\ Goto("rename")
  BY <1>1, <1>3 DEF Goto, IInv, TypeOK, CommandInv, StageInv, Installing, Booting, world
<1> QED BY <1>1, <1>2, <1>3 DEF Remove, Installed

\* The removal ends, and the staged directory takes the version's place.
LEMMA RemovedStep == ASSUME IInv, Removed \/ Rename PROVE IInv'
<1>1. /\ UNCHANGED <<current, data, proven, world>> /\ pc \in {"removing", "rename"}
      /\ target \in Versions
  BY DEF Removed, Rename, IInv, CommandInv, Installing
<1>2. CASE Fail /\ UNCHANGED versions
  BY <1>1, <1>2, FailKeeps DEF IInv, TypeOK, world
<1>3. CASE versions' = [versions EXCEPT ![target] = "absent"] /\ Goto("rename")
  BY <1>1, <1>3 DEF Goto, IInv, TypeOK, DirStates, CommandInv, StageInv, Installing, Booting, world
<1>4. CASE versions' = [versions EXCEPT ![target] = "code"] /\ Goto("deps")
  BY <1>1, <1>4 DEF Goto, IInv, TypeOK, DirStates, CommandInv, StageInv, Installing, Booting, world
<1> QED BY <1>2, <1>3, <1>4 DEF Removed, Rename

\* npm install ends complete, half done or not at all.
LEMMA InstallStep ==
  ASSUME IInv, InstallDeps("deps", "npm", "switch") \/ NpmRuns("npm", "switch", Fail) PROVE IInv'
<1>1. /\ UNCHANGED <<current, data, proven, world>> /\ pc \in {"deps", "npm"}
      /\ target \in Versions
  BY DEF InstallDeps, NpmRuns, IInv, CommandInv, Installing
<1>2. CASE InstallDeps("deps", "npm", "switch")
  <2>1. versions[target] = "code"
    BY <1>2 DEF InstallDeps, IInv, StageInv
  <2>2. versions' = [versions EXCEPT ![target] = "half"] /\ Goto("npm")
    BY <1>2, <2>1 DEF InstallDeps
  <2> QED BY <1>1, <2>2
          DEF Goto, IInv, TypeOK, DirStates, CommandInv, StageInv, Installing, Booting, world
<1>3. CASE NpmRuns("npm", "switch", Fail)
  <2>1. versions[target] = "half"
    BY <1>3 DEF NpmRuns, IInv, StageInv
  <2>2. CASE versions' = [versions EXCEPT ![target] = "ready"] /\ Goto("switch")
    BY <1>1, <2>2 DEF Goto, IInv, TypeOK, DirStates, CommandInv, StageInv, Installing, Booting, world
  <2>3. CASE Fail /\ \E left \in {"code", "half"} : versions' = [versions EXCEPT ![target] = left]
    BY <1>1, <2>3, FailKeeps DEF IInv, TypeOK, DirStates, world
  <2> QED BY <1>3, <2>1, <2>2, <2>3 DEF NpmRuns
<1> QED BY <1>2, <1>3

\* current.json is moved: the version named is whole.
LEMMA SwitchStep == ASSUME IInv, Switch PROVE IInv'
<1>1. /\ UNCHANGED <<versions, data, proven, world>> /\ pc = "switch"
      /\ target \in Versions
  BY DEF Switch, IInv, CommandInv, Installing
<1>2. CASE Fail /\ UNCHANGED current
  BY <1>1, <1>2, FailKeeps DEF IInv, TypeOK, world
<1>3. CASE /\ current' = target
           /\ cmd = "start" /\ pc' = "seed" /\ updated' = TRUE /\ UNCHANGED <<cmd, target, exit>>
  BY <1>1, <1>3 DEF IInv, TypeOK, CommandInv, StageInv, Installing, Booting, world
<1>4. CASE current' = target /\ Quit("ok")
  BY <1>1, <1>4, QuitKeeps DEF IInv, TypeOK, world
<1> QED BY <1>2, <1>3, <1>4 DEF Switch

\* The steps of a start, which has current's version for its target.
LEMMA BootStep ==
  ASSUME IInv,
         Seed \/ Seeded \/ InstallDeps("startDeps", "startNpm", "verify")
           \/ NpmRuns("startNpm", "verify", Quit("failed"))
  PROVE  IInv'
<1>1. /\ UNCHANGED <<current, proven, world>> /\ pc \in Booting
      /\ target \in Versions /\ target = current
      /\ data' \in {"absent", "partial", "seeded"}
  BY DEF Seed, Seeded, InstallDeps, NpmRuns, IInv, TypeOK, CommandInv, Booting
<1>2. versions' \in [Versions -> DirStates]
  BY <1>1 DEF Seed, Seeded, InstallDeps, NpmRuns, IInv, TypeOK, DirStates
<1>3. CASE \E step \in {"seeding", "startDeps", "startNpm", "verify"} : Goto(step)
  BY <1>1, <1>2, <1>3 DEF Goto, IInv, TypeOK, CommandInv, StageInv, Installing, Booting, world
<1>4. CASE Quit("failed")
  BY <1>1, <1>2, <1>4, QuitKeeps DEF IInv, TypeOK, world
<1> QED BY <1>3, <1>4 DEF Seed, Seeded, InstallDeps, NpmRuns

\* A start, verified or given up, leaves current.json as it is.
LEMMA VerifyStep == ASSUME IInv, StartAndVerify PROVE IInv' /\ current' = current
<1>1. /\ UNCHANGED <<versions, data, world>> /\ pc \in {"verify", "reverify"}
      /\ target \in Versions /\ target = current
  BY DEF StartAndVerify, IInv, CommandInv, Booting
<1>2. CASE /\ pc' = "online" /\ proven' = proven \cup {target}
           /\ current' \in {target, current} /\ UNCHANGED <<cmd, target, updated, exit>>
  BY <1>1, <1>2 DEF IInv, TypeOK, CommandInv, StageInv, Installing, Booting, world
<1>3. CASE Quit("failed") /\ UNCHANGED <<proven, current>>
  BY <1>1, <1>3, QuitKeeps DEF IInv, TypeOK, world
<1> QED BY <1>1, <1>2, <1>3 DEF StartAndVerify

\* A kill, a stop and a new release on the server keep the invariant.
LEMMA WorldStep == ASSUME IInv, Leave \/ Crash \/ Publish PROVE IInv'
<1>1. CASE UNCHANGED <<disk, world>> /\ (Quit("ok") \/ Quit("killed"))
  BY <1>1, QuitKeeps DEF IInv, TypeOK, disk, world
<1>2. CASE Publish
  BY <1>2 DEF Publish, IInv, TypeOK, CommandInv, StageInv, disk, command
<1> QED BY <1>1, <1>2 DEF Leave, Crash

\* Every step keeps the invariant.
LEMMA InductiveStep == IInv /\ [Next]_vars => IInv'
<1>1. IInv /\ UNCHANGED vars => IInv'
  BY DEF IInv, TypeOK, CommandInv, StageInv, vars, disk, world, command
<1> QED BY <1>1, StartStep, RequestStep, FetchStep, AcquireStep, RemoveStep, RemovedStep, InstallStep,
           SwitchStep, BootStep, VerifyStep, WorldStep DEF Next, Steps

\* The invariant of commands and their stages holds of every behaviour.
THEOREM Invariance == Spec => []IInv
<1>1. Init => IInv
  BY DEF Init, IInv, TypeOK, DirStates, CommandInv, StageInv, Installing, Booting
<1> QED BY <1>1, InductiveStep, PTL DEF Spec

\* Every variable keeps its type (gateway.mjs, lib/install.mjs).
THEOREM TypeCorrect == Spec => []TypeOK
<1>1. IInv => TypeOK
  BY DEF IInv
<1> QED BY <1>1, Invariance, PTL

-----------------------------------------------------------------------------
(* What a step may do to the disk                                          *)

\* current.json is written by the switch of an installation only: what a start
\* writes once the version is online is what was there.
LEMMA OnlySwitchMoves ==
  ASSUME IInv, [Next]_vars, current' # current
  PROVE  Switch /\ current' = target /\ target \in Versions
<1>1. ~UNCHANGED vars /\ ~Start /\ ~Update /\ ~(\E v \in Versions : Upload(v)) /\ ~Leave /\ ~Crash
      /\ ~Publish
  BY DEF vars, disk, Start, Update, Upload, Leave, Crash, Publish
<1>2. ~Fetch /\ ~Acquire /\ ~Remove /\ ~Removed /\ ~Rename /\ ~Seed /\ ~Seeded
  BY DEF Fetch, Acquire, Remove, Removed, Rename, Seed, Seeded, disk
<1>3. ~InstallDeps("deps", "npm", "switch") /\ ~InstallDeps("startDeps", "startNpm", "verify")
      /\ ~NpmRuns("npm", "switch", Fail) /\ ~NpmRuns("startNpm", "verify", Quit("failed"))
  BY DEF InstallDeps, NpmRuns
<1>4. ~StartAndVerify
  BY VerifyStep
<1>5. Switch
  BY <1>1, <1>2, <1>3, <1>4 DEF Next, Steps
<1> QED BY <1>5 DEF Switch, IInv, CommandInv, Installing

\* current.json never points to a version that is not completely installed,
\* wherever an earlier installation of it was killed.
THEOREM SwitchesToWhole == Spec => SwitchOnlyToWhole
<1>1. IInv /\ [Next]_vars => [current' # current => versions[current'] = "ready"]_vars
  BY OnlySwitchMoves DEF IInv, StageInv, Switch
<1> QED BY <1>1, Invariance, PTL DEF Spec, SwitchOnlyToWhole

\* Only an upload takes current back.
THEOREM NeverBack == Spec => NoDowngrade
<1>1. IInv /\ [Next]_vars =>
        [current' # current /\ current # None => current' > current \/ cmd = "upload"]_vars
  BY OnlySwitchMoves DEF IInv, CommandInv, Installing, Switch
<1> QED BY <1>1, Invariance, PTL DEF Spec, NoDowngrade

\* An installation takes nothing from a complete version but its own target, and
\* current's is the target of an upload only.
LEMMA ReadyStays ==
  ASSUME IInv, [Next]_vars, NEW v \in Versions, versions[v] = "ready", versions'[v] # "ready"
  PROVE  v = target /\ pc \in Installing
<1>1. TypeOK
  BY DEF IInv
<1>2. versions' # versions
  OBVIOUS
<1>3. ~UNCHANGED vars /\ ~Start /\ ~Update /\ ~(\E w \in Versions : Upload(w)) /\ ~Leave /\ ~Crash
      /\ ~Publish /\ ~Fetch /\ ~Acquire /\ ~Seed /\ ~Seeded /\ ~StartAndVerify /\ ~Switch
  BY <1>2 DEF vars, disk, Start, Update, Upload, Leave, Crash, Publish, Fetch, Acquire, Seed, Seeded,
              StartAndVerify, Switch
<1>4. ASSUME NEW step, NEW npm, NEW next, InstallDeps(step, npm, next) PROVE FALSE
  <2>1. versions' = [versions EXCEPT ![target] = IF versions[target] = "code" THEN "half" ELSE versions[target]]
    BY <1>2, <1>4 DEF InstallDeps
  <2> QED BY <1>1, <2>1 DEF TypeOK
<1>5. CASE NpmRuns("npm", "switch", Fail) \/ NpmRuns("startNpm", "verify", Quit("failed"))
  <2>1. PICK left \in {"ready", "code", "half"} :
          versions' = [versions EXCEPT ![target] = IF versions[target] = "half" THEN left ELSE versions[target]]
    BY <1>5 DEF NpmRuns
  <2>2. FALSE
    BY <1>1, <2>1 DEF TypeOK
  <2> QED BY <2>2
<1>6. CASE Remove \/ Removed \/ Rename
  <2>1. PICK state \in {"wreck", "absent", "code"} : versions' = [versions EXCEPT ![target] = state]
    BY <1>2, <1>6 DEF Remove, Removed, Rename
  <2>2. v = target
    BY <1>1, <2>1 DEF TypeOK
  <2> QED BY <1>6, <2>2 DEF Remove, Removed, Rename, Installing
<1> QED BY <1>3, <1>4, <1>5, <1>6 DEF Next, Steps

\* A version that is complete stays so for a rollback: no update touches current's.
THEOREM CurrentIsSpared == Spec => UpdateSparesCurrent
<1>1. IInv /\ [Next]_vars =>
        [\A v \in Versions : versions[v] = "ready" /\ versions'[v] # "ready" =>
           v = target /\ (v = current => cmd = "upload")]_vars
  <2> SUFFICES ASSUME IInv, [Next]_vars, NEW v \in Versions,
                      versions[v] = "ready", versions'[v] # "ready"
               PROVE  v = target /\ (v = current => cmd = "upload")
    OBVIOUS
  <2>1. v = target /\ pc \in Installing
    BY ReadyStays
  <2>2. v \in Nat /\ v # None
    BY VersionsAssumption DEF None
  <2> QED BY <2>1, <2>2 DEF IInv, CommandInv
<1> QED BY <1>1, Invariance, PTL DEF Spec, UpdateSparesCurrent

\* With current's directory there, a `start' whose update failed goes on to it.
THEOREM StillStarts == Spec => FailedUpdateStillStarts
<1>1. IInv /\ [Next]_vars =>
        [cmd = "start" /\ exit' = "failed" /\ pc' = "idle" /\ Installed(current) =>
           pc \in {"seeding", "startNpm", "verify", "reverify"}]_vars
  <2> SUFFICES ASSUME IInv, [Next]_vars, cmd = "start", exit' = "failed", pc' = "idle",
                      Installed(current), pc \notin {"seeding", "startNpm", "verify", "reverify"}
               PROVE  FALSE
    OBVIOUS
  <2>1. pc # "idle" /\ current # None
    BY DEF IInv, CommandInv, Installed
  <2>2. ~Fail /\ ~KeepCurrent
    BY DEF Fail, KeepCurrent, Boot
  <2>3. ~UNCHANGED vars /\ ~Start /\ ~Update /\ ~(\E v \in Versions : Upload(v)) /\ ~Leave /\ ~Crash
        /\ ~Publish
    BY <2>1 DEF vars, command, Start, Update, Upload, Leave, Crash, Publish, Quit
  <2>4. ~Fetch /\ ~Acquire /\ ~Remove /\ ~Removed /\ ~Rename
    BY <2>1, <2>2 DEF Fetch, Acquire, Remove, Removed, Rename, Goto
  <2>5. ~InstallDeps("deps", "npm", "switch") /\ ~InstallDeps("startDeps", "startNpm", "verify")
        /\ ~NpmRuns("npm", "switch", Fail) /\ ~NpmRuns("startNpm", "verify", Quit("failed"))
    BY <2>2 DEF InstallDeps, NpmRuns, Goto
  <2>6. ~Switch /\ ~Seed /\ ~Seeded /\ ~StartAndVerify
    BY <2>2 DEF Switch, Seed, Seeded, StartAndVerify, Goto
  <2> QED BY <2>3, <2>4, <2>5, <2>6 DEF Next, Steps
<1> QED BY <1>1, Invariance, PTL DEF Spec, FailedUpdateStillStarts

-----------------------------------------------------------------------------
(* The promise of the version store                                        *)

\* A step that leaves current.json and the whole versions alone is at most one
\* of a person who uploads.
LEMMA StoreIdle ==
  ASSUME UNCHANGED <<current, Whole>> PROVE [Store!Next]_(Store!vars)
<1>1. CASE (cmd' = "upload") = TRUE
  BY <1>1 DEF Store!Next, Store!TakeUpload
<1>2. CASE (cmd' = "upload") = FALSE
  BY <1>2 DEF Store!Next, Store!DropUpload
<1> QED BY <1>1, <1>2

\* Whatever happens to the directory of the version that is being installed,
\* the store allows it, as long as it does not become whole.
LEMMA StoreDiscards ==
  ASSUME IInv, pc \in Installing, current' = current, NEW s \in DirStates \ {"ready"},
         versions' = [versions EXCEPT ![target] = s],
         versions[target] = "ready" => cmd' = cmd
  PROVE  [Store!Next]_(Store!vars)
<1>1. target \in Versions /\ versions \in [Versions -> DirStates]
  BY DEF IInv, TypeOK, CommandInv
<1>2. Whole' = Whole \ {target}
  BY <1>1 DEF Whole
<1>3. CASE versions[target] = "ready"
  <2>1. target \in Whole
    BY <1>1, <1>3 DEF Whole
  <2>2. target = current => cmd = "upload"
    <3>1. target \in Nat /\ target # None
      BY <1>1, VersionsAssumption DEF None
    <3> QED BY <3>1 DEF IInv, CommandInv
  <2> QED BY <1>2, <1>3, <2>1, <2>2 DEF Store!Next, Store!Discard
<1>4. CASE versions[target] # "ready"
  <2>1. Whole' = Whole
    BY <1>2, <1>4 DEF Whole
  <2> QED BY <2>1, StoreIdle
<1> QED BY <1>3, <1>4

\* npm, however it ends: the target's directory becomes whole, or no other does.
LEMMA StoreNpm ==
  ASSUME IInv, target \in Versions, NEW step, NEW next, NEW failed, NpmRuns(step, next, failed)
  PROVE  [Store!Next]_(Store!vars)
<1>1. versions \in [Versions -> DirStates] /\ current' = current
  BY DEF IInv, TypeOK, NpmRuns
<1>2. CASE versions' = [versions EXCEPT ![target] = IF @ = "half" THEN "ready" ELSE @] /\ Goto(next)
  <2>1. CASE versions[target] = "half"
    <3>1. Whole' = Whole \cup {target} /\ target \in Versions \ Whole
      BY <1>1, <1>2, <2>1 DEF Whole
    <3>2. cmd' = cmd
      BY <1>2 DEF Goto
    <3> QED BY <1>1, <3>1, <3>2 DEF Store!Next, Store!Complete
  <2>2. CASE versions[target] # "half"
    <3>1. Whole' = Whole
      BY <1>1, <1>2, <2>2 DEF Whole
    <3> QED BY <1>1, <3>1, StoreIdle
  <2> QED BY <2>1, <2>2
<1>3. ASSUME NEW left \in {"code", "half"},
             versions' = [versions EXCEPT ![target] = IF @ = "half" THEN left ELSE @]
      PROVE  [Store!Next]_(Store!vars)
  <2>1. Whole' = Whole
    BY <1>1, <1>3 DEF Whole
  <2> QED BY <1>1, <2>1, StoreIdle
<1> QED BY <1>2, <1>3 DEF NpmRuns

\* Every step of the bootloader is one of the store or changes nothing of it.
LEMMA StoreStep == IInv /\ [Next]_vars => [Store!Next]_(Store!vars)
<1> SUFFICES ASSUME IInv, [Next]_vars PROVE [Store!Next]_(Store!vars)
  OBVIOUS
<1>1. ASSUME UNCHANGED <<current, versions>> PROVE [Store!Next]_(Store!vars)
  BY <1>1, StoreIdle DEF Whole
<1>2. CASE UNCHANGED vars \/ Start \/ Update \/ (\E v \in Versions : Upload(v)) \/ Leave
           \/ Crash \/ Publish \/ Fetch \/ Acquire \/ Seed \/ Seeded
  BY <1>1, <1>2 DEF vars, disk, Start, Update, Upload, Leave, Crash, Publish, Fetch, Acquire,
                    Seed, Seeded
<1>3. CASE StartAndVerify
  BY <1>1, <1>3, VerifyStep DEF StartAndVerify
<1>4. CASE Remove \/ Removed \/ Rename
  <2>1. pc \in Installing /\ current' = current
    BY <1>4 DEF Remove, Removed, Rename, Installing
  <2>2. CASE UNCHANGED versions
    BY <1>1, <2>1, <2>2
  <2>3. ASSUME NEW s \in {"wreck", "absent", "code"}, versions' = [versions EXCEPT ![target] = s],
               cmd' = cmd
        PROVE  [Store!Next]_(Store!vars)
    BY <2>1, <2>3, StoreDiscards DEF DirStates
  <2> QED BY <1>4, <2>2, <2>3 DEF Remove, Removed, Rename, Goto
<1>5. ASSUME NEW step, NEW npm, NEW next, InstallDeps(step, npm, next), target \in Versions
      PROVE  [Store!Next]_(Store!vars)
  <2>1. current' = current /\ versions \in [Versions -> DirStates]
    BY <1>5 DEF InstallDeps, IInv, TypeOK
  <2>2. Whole' = Whole
    <3>1. CASE UNCHANGED versions
      BY <3>1 DEF Whole
    <3>2. CASE versions' = [versions EXCEPT ![target] = IF @ = "code" THEN "half" ELSE @]
      BY <2>1, <3>2 DEF Whole
    <3> QED BY <1>5, <3>1, <3>2 DEF InstallDeps
  <2> QED BY <2>1, <2>2, StoreIdle
<1>6. CASE \/ InstallDeps("deps", "npm", "switch")
           \/ InstallDeps("startDeps", "startNpm", "verify")
           \/ NpmRuns("npm", "switch", Fail)
           \/ NpmRuns("startNpm", "verify", Quit("failed"))
  <2>1. target \in Versions
    BY <1>6 DEF InstallDeps, NpmRuns, IInv, CommandInv, Installing, Booting
  <2> QED BY <1>5, <1>6, <2>1, StoreNpm
<1>7. CASE Switch
  <2>1. CASE current' = current /\ UNCHANGED versions
    BY <1>1, <2>1
  <2>2. CASE current' = target /\ cmd' # "upload"
    <3>1. target \in Whole /\ (current = None \/ target > current \/ cmd = "upload")
      BY <1>7 DEF Switch, IInv, CommandInv, StageInv, Installing, Whole
    <3>2. Whole' = Whole
      BY <1>7 DEF Switch, Whole
    <3> QED BY <2>2, <3>1, <3>2 DEF Store!Next, Store!Point
  <2> QED BY <1>7, <2>1, <2>2 DEF Switch, Quit
<1> QED BY <1>2, <1>3, <1>4, <1>6, <1>7 DEF Next, Steps

\* The bootloader keeps what VersionStore promises of current.json and the
\* versions on disk, for any versions and whatever is killed where.
THEOREM StoreKept == Spec => ImplementsStore
<1>1. Init => Store!Init
  <2> SUFFICES ASSUME Init PROVE Store!Init
    OBVIOUS
  <2>1. Whole = {} /\ (cmd = "upload") = FALSE /\ current = None
    BY DEF Init, Whole
  <2> QED BY <2>1 DEF Store!Init
<1> QED BY <1>1, StoreStep, Invariance, PTL DEF Spec, ImplementsStore, Store!Spec

\* Whoever never uploads has, at every moment and after every kill, a current
\* version that is completely installed.
THEOREM CurrentIsWhole ==
  Spec /\ [][cmd' # "upload"]_vars => [](current # None => versions[current] = "ready")
<1> DEFINE Good == cmd # "upload" /\ (current # None => versions[current] = "ready")
<1>1. Init => Good
  BY DEF Init
<1>2. IInv /\ Good /\ [Next]_vars /\ [cmd' # "upload"]_vars => Good'
  <2> SUFFICES ASSUME IInv, Good, [Next]_vars, [cmd' # "upload"]_vars PROVE Good'
    OBVIOUS
  <2>1. cmd' # "upload"
    BY DEF vars, command
  <2>2. CASE current' # current
    <3>1. Switch /\ current' = target /\ target \in Versions
      BY <2>2, OnlySwitchMoves
    <3> QED BY <2>1, <3>1 DEF Switch, IInv, StageInv
  <2>3. CASE current' = current
    <3> SUFFICES ASSUME current # None, versions'[current] # "ready" PROVE FALSE
      BY <2>1, <2>3
    <3>1. current \in Versions
      BY DEF IInv, TypeOK
    <3>2. current = target /\ pc \in Installing
      BY <3>1, ReadyStays
    <3>3. target \in Nat /\ target # None
      BY <3>1, <3>2, VersionsAssumption DEF None
    <3> QED BY <3>2, <3>3 DEF IInv, CommandInv
  <2> QED BY <2>2, <2>3
<1> QED BY <1>1, <1>2, Invariance, PTL DEF Spec

\* A start never goes back to another version: by the time it verifies one,
\* current.json names that one already, and `current # target' never holds.
THEOREM RollbackNeverTaken == Spec => [](pc # "reverify")
<1> DEFINE Forward == pc # "reverify"
<1>1. Init => Forward
  BY DEF Init
<1>2. IInv /\ Forward /\ [Next]_vars => Forward'
  <2> SUFFICES ASSUME IInv, pc # "reverify", [Next]_vars, pc' = "reverify" PROVE FALSE
    OBVIOUS
  <2>1. ~UNCHANGED vars /\ ~Start /\ ~Update /\ ~(\E v \in Versions : Upload(v)) /\ ~Leave /\ ~Crash
        /\ ~Publish
    BY DEF vars, command, Start, Update, Upload, Leave, Crash, Publish, Quit
  <2>2. ~Fail /\ ~KeepCurrent
    BY DEF Fail, KeepCurrent, Boot, Quit
  <2>3. ~Fetch /\ ~Acquire /\ ~Remove /\ ~Removed /\ ~Rename /\ ~Switch /\ ~Seed /\ ~Seeded
    BY <2>2 DEF Fetch, Acquire, Remove, Removed, Rename, Switch, Seed, Seeded, Goto, Quit
  <2>4. ~InstallDeps("deps", "npm", "switch") /\ ~InstallDeps("startDeps", "startNpm", "verify")
        /\ ~NpmRuns("npm", "switch", Fail) /\ ~NpmRuns("startNpm", "verify", Quit("failed"))
    BY <2>2 DEF InstallDeps, NpmRuns, Goto, Quit
  <2>5. ~StartAndVerify
    BY DEF StartAndVerify, IInv, CommandInv, Booting, Quit
  <2> QED BY <2>1, <2>3, <2>4, <2>5 DEF Next, Steps
<1> QED BY <1>1, <1>2, Invariance, PTL DEF Spec
=============================================================================
