----------------------------- MODULE Bootloader -----------------------------
(***************************************************************************)
(* The gateway as a bootloader: the CLI commands of gateway.mjs (start,    *)
(* update, upload) over src/lib/install.mjs, and what they leave on disk.  *)
(*                                                                         *)
(* One command runs at a time and may be killed between any two of its     *)
(* steps; what is on disk stays.  A version's directory goes through       *)
(*   absent -> code (staged, skeleton verified) -> half (npm has created   *)
(*   node_modules) -> ready,     and to `wreck' while it is being removed. *)
(* Versions are numbers, compared as semverGt compares them.               *)
(***************************************************************************)
EXTENDS Naturals

CONSTANTS Versions,     \* published or uploaded version numbers
          AutoUpdate    \* what PAAW_AUTO_UPDATE or gateway.json may say at a start

ASSUME VersionsAssumption == Versions \subseteq Nat \ {0}
ASSUME AutoUpdateAssumption == AutoUpdate \subseteq BOOLEAN

None == 0

VARIABLES current,     \* current.json, or None
          versions,    \* each version's directory
          data,        \* the user's data directory
          proven,      \* versions that were verified online once
          stable,      \* what the package server offers
          works,       \* versions that stay alive when completely installed
          cmd, pc,     \* the command and its next step
          target,      \* the version it installs or starts
          updated,     \* an update was installed on the way
          exit         \* how the last command ended

disk == <<current, versions, data, proven>>
world == <<stable, works>>
command == <<cmd, pc, target, updated, exit>>
vars == <<disk, world, command>>

DirStates == {"absent", "code", "half", "ready", "wreck"}

TypeOK ==
  /\ current \in Versions \cup {None}
  /\ versions \in [Versions -> DirStates]
  /\ data \in {"absent", "partial", "seeded"}
  /\ proven \subseteq Versions
  /\ stable \in Versions
  /\ works \subseteq Versions
  /\ cmd \in {"none", "start", "update", "upload"}
  /\ pc \in {"idle", "fetch", "acquire", "remove", "removing", "rename", "deps", "npm",
             "switch", "seed", "seeding", "startDeps", "startNpm", "verify", "reverify",
             "online"}
  /\ target \in Versions \cup {None}
  /\ updated \in BOOLEAN
  /\ exit \in {"none", "ok", "failed", "killed"}

Init ==
  /\ current = None
  /\ versions = [v \in Versions |-> "absent"]
  /\ data = "absent"
  /\ proven = {}
  /\ stable \in Versions
  /\ works \in SUBSET Versions
  /\ cmd = "none" /\ pc = "idle" /\ target = None /\ updated = FALSE
  /\ exit = "none"

Installed(v) == v # None /\ versions[v] # "absent"

-----------------------------------------------------------------------------
(* How a command goes on, ends, or falls back                              *)

Goto(step) == pc' = step /\ UNCHANGED <<cmd, target, updated, exit>>

Quit(how) == cmd' = "none" /\ pc' = "idle" /\ target' = None /\ updated' = FALSE /\ exit' = how

\* cmdStart with its version settled; the directory must be there.
Boot(v) ==
  IF Installed(v)
    THEN pc' = "seed" /\ target' = v /\ UNCHANGED <<cmd, updated, exit>>
    ELSE Quit("failed")

\* updateLogic answers with the version at hand.
KeepCurrent == IF cmd = "start" THEN Boot(current) ELSE Quit("ok")

\* Mutant: `start' does not survive a failed update.
FailUncaught == Quit("failed")

\* updateLogic or installUploadedZip throws; safeUpdate catches it for `start'.
Fail == IF cmd = "start" /\ Installed(current) THEN Boot(current) ELSE Quit("failed")

Start ==
  /\ pc = "idle"
  /\ UNCHANGED <<disk, world>>
  /\ \/ /\ current = None \/ TRUE \in AutoUpdate
        /\ cmd' = "start" /\ pc' = "fetch" /\ UNCHANGED <<target, updated, exit>>
     \/ /\ current # None /\ FALSE \in AutoUpdate
        /\ IF Installed(current)
             THEN cmd' = "start" /\ pc' = "seed" /\ target' = current /\ UNCHANGED <<updated, exit>>
             ELSE Quit("failed")

Update ==
  /\ pc = "idle"
  /\ cmd' = "update" /\ pc' = "fetch"
  /\ UNCHANGED <<disk, world, target, updated, exit>>

Upload(v) ==
  /\ pc = "idle"
  /\ cmd' = "upload" /\ pc' = "acquire" /\ target' = v
  /\ UNCHANGED <<disk, world, updated, exit>>

-----------------------------------------------------------------------------
(* updateLogic                                                             *)

\* Mutant: the version at hand is installed again.
TakeEqual(s) == current = None \/ s >= current

Newer(s) == current = None \/ s > current

\* Mutant: the manifest's version is not checked before it is used (99 is none).
FetchUnchecked ==
  /\ pc = "fetch"
  /\ pc' = "acquire" /\ target' \in {stable, 99}
  /\ UNCHANGED <<disk, world, cmd, updated, exit>>

Fetch ==
  /\ pc = "fetch"
  /\ UNCHANGED <<disk, world>>
  /\ \/ IF current # None THEN KeepCurrent ELSE Quit("failed")   \* server not reached
     \/ Fail                                                     \* not a version: refused
     \/ IF Newer(stable)
          THEN pc' = "acquire" /\ target' = stable /\ UNCHANGED <<cmd, updated, exit>>
          ELSE KeepCurrent

-----------------------------------------------------------------------------
(* stageInstall                                                            *)

\* Download, sha256, extraction and the skeleton check stay in logs/ and in
\* the version's .tmp directory.
Acquire ==
  /\ pc = "acquire"
  /\ Fail \/ Goto("remove")
  /\ UNCHANGED <<disk, world>>

\* rm of the old directory: not atomic.
Remove ==
  /\ pc = "remove"
  /\ IF Installed(target)
       THEN versions' = [versions EXCEPT ![target] = "wreck"] /\ Goto("removing")
       ELSE UNCHANGED versions /\ Goto("rename")
  /\ UNCHANGED <<current, data, proven, world>>

Removed ==
  /\ pc = "removing"
  /\ \/ Fail /\ UNCHANGED versions
     \/ versions' = [versions EXCEPT ![target] = "absent"] /\ Goto("rename")
  /\ UNCHANGED <<current, data, proven, world>>

Rename ==
  /\ pc = "rename"
  /\ \/ Fail /\ UNCHANGED versions
     \/ versions' = [versions EXCEPT ![target] = "code"] /\ Goto("deps")
  /\ UNCHANGED <<current, data, proven, world>>

-----------------------------------------------------------------------------
(* installDeps, on behalf of an installation or of a start                 *)

\* A node_modules directory, however it came about, is taken for installed.
InstallDeps(step, npm, next) ==
  /\ pc = step
  /\ IF versions[target] \in {"half", "ready"}
       THEN UNCHANGED versions /\ Goto(next)
       ELSE /\ versions' = [versions EXCEPT ![target] = IF @ = "code" THEN "half" ELSE @]
            /\ Goto(npm)
  /\ UNCHANGED <<current, data, proven, world>>

\* Mutant: the exit codes of npm are not looked at.
NpmCodeIgnored(step, next, failed) ==
  /\ pc = step
  /\ \/ versions' = [versions EXCEPT ![target] = IF @ = "half" THEN "ready" ELSE @]
     \/ UNCHANGED versions
  /\ Goto(next)
  /\ UNCHANGED <<current, data, proven, world>>

\* Two tries; `failed' is where the throw leads.
NpmRuns(step, next, failed) ==
  /\ pc = step
  /\ \/ /\ versions' = [versions EXCEPT ![target] = IF @ = "half" THEN "ready" ELSE @]
        /\ Goto(next)
     \/ /\ failed
        /\ \E left \in {"code", "half"} :
             versions' = [versions EXCEPT ![target] = IF @ = "half" THEN left ELSE @]
  /\ UNCHANGED <<current, data, proven, world>>

\* writeCurrentAtomic: a rename.
Switch ==
  /\ pc = "switch"
  /\ \/ Fail /\ UNCHANGED current
     \/ /\ current' = target
        /\ IF cmd = "start"
             THEN pc' = "seed" /\ updated' = TRUE /\ UNCHANGED <<cmd, target, exit>>
             ELSE Quit("ok")
  /\ UNCHANGED <<versions, data, proven, world>>

-----------------------------------------------------------------------------
(* cmdStart, from ensureData on                                            *)

\* cp of data-seed: not atomic, and only when there is no data directory.
Seed ==
  /\ pc = "seed"
  /\ IF data = "absent"
       THEN data' = "partial" /\ Goto("seeding")
       ELSE UNCHANGED data /\ Goto("startDeps")
  /\ UNCHANGED <<current, versions, proven, world>>

Seeded ==
  /\ pc = "seeding"
  /\ \/ data' = "seeded" /\ Goto("startDeps")
     \/ UNCHANGED data /\ Quit("failed")
  /\ UNCHANGED <<current, versions, proven, world>>

\* startAndVerify, and the rollback to current when the version did not come
\* online.  A version that works may still fail: the port may be taken.  To be
\* online is to be taken for it: startAndVerify looks at the child's life only,
\* so a server that never answers is "online" 90 s and 2.5 s on.
Online(v) == versions[v] = "ready" /\ v \in works

StartAndVerify ==
  /\ pc \in {"verify", "reverify"}
  /\ \/ /\ Online(target)
        /\ pc' = "online"
        /\ proven' = proven \cup {target}
        /\ current' = IF pc = "reverify" \/ updated THEN target ELSE current
        /\ UNCHANGED <<cmd, target, updated, exit>>
     \/ /\ IF pc = "verify" /\ current # target /\ Installed(current)
             THEN pc' = "reverify" /\ target' = current /\ UNCHANGED <<cmd, updated, exit>>
             ELSE Quit("failed")
        /\ UNCHANGED <<proven, current>>
  /\ UNCHANGED <<versions, data, world>>

\* hangAround: a signal, or the server's own end, ends the command.
Leave == pc = "online" /\ Quit("ok") /\ UNCHANGED <<disk, world>>

-----------------------------------------------------------------------------
(* Around it                                                               *)

\* The command is killed, or the machine goes down.
Crash == pc \notin {"idle", "online"} /\ Quit("killed") /\ UNCHANGED <<disk, world>>

\* The package server offers another version, also an older one.
Publish ==
  /\ stable' \in Versions \ {stable}
  /\ UNCHANGED <<disk, works, command>>

Steps ==
  \/ Fetch \/ Acquire \/ Remove \/ Removed \/ Rename
  \/ InstallDeps("deps", "npm", "switch") \/ NpmRuns("npm", "switch", Fail) \/ Switch
  \/ Seed \/ Seeded
  \/ InstallDeps("startDeps", "startNpm", "verify") \/ NpmRuns("startNpm", "verify", Quit("failed"))
  \/ StartAndVerify

Next == \/ Start \/ Update \/ \E v \in Versions : Upload(v)
        \/ Steps \/ Leave \/ Crash \/ Publish

Spec == Init /\ [][Next]_vars

-----------------------------------------------------------------------------
(* Properties                                                              *)

\* current.json is switched only to a directory that is staged, checked and
\* completely installed, whatever was cut short before.
SwitchOnlyToWhole ==
  [][current' # current => versions[current'] = "ready"]_vars

\* Neither an older stable nor a fallback takes current back to an older
\* version; only a person's upload may.
NoDowngrade ==
  [][current' # current /\ current # None => current' > current \/ cmd = "upload"]_vars

\* Old versions stay as they are for a rollback: an installation touches its
\* own directory only, and no update, cut short wherever, touches current's.
UpdateSparesCurrent ==
  [][\A v \in Versions : versions[v] = "ready" /\ versions'[v] # "ready" =>
       v = target /\ (v = current => cmd = "upload")]_vars

\* A failed update does not keep `start' from starting: with current's
\* directory there, it gives up only over that version's own start (safeUpdate).
FailedUpdateStillStarts ==
  [][cmd = "start" /\ exit' = "failed" /\ pc' = "idle" /\ Installed(current) =>
       pc \in {"seeding", "startNpm", "verify", "reverify"}]_vars

\* gateway.mjs: "any step fails: start the previous version".  When the version
\* an update brought does not come online and one that did before is still whole
\* on disk, `start' goes on to another version and does not give up.
FailedStartRollsBack ==
  [][updated /\ pc = "verify" /\ pc' \notin {"verify", "online"} /\ exit' # "killed"
     /\ (\E v \in proven \ {target} : versions[v] = "ready") =>
       pc' = "reverify"]_vars

-----------------------------------------------------------------------------
(* The promise this implements                                             *)

Whole == {v \in Versions : versions[v] = "ready"}
Store == INSTANCE VersionStore WITH pointer <- current, whole <- Whole, hand <- cmd = "upload"

\* What is on disk is at every moment, a kill's included, what VersionStore allows.
ImplementsStore == Store!Spec
=============================================================================
