# A TLA+ verification of the PAAW gateway

This directory models the program logic of the repository: the admin platform
(`src/server.mjs` and `src/server/`), which manages one git checkout of the PAAW
server, and the gateway (`gateway.mjs`, `src/lib/`, `src/ui/server.mjs`), which
installs zip packages of it and runs them. TLC checks the models on small
instances; TLAPS proves their safety properties for every value of the constants.

- [The system](#the-system)
- [The modules and the code](#the-modules-and-the-code)
- [The runs, their bounds and what they show](#the-runs)
- [Where code and documentation disagree](#where-code-and-documentation-disagree)
- [Fairness](#fairness)
- [The proofs](#the-proofs)
- [What is left out, and the plan](#what-is-left-out-and-the-plan)

## The system

| Part | State | Operations | Hard behaviour |
|---|---|---|---|
| Process manager (`server/paaw-control.mjs`, routes in `server.mjs`) | `paawProcess`, `paawStatus`, the shared `stoppingPromise`, two timers per stop | start, stop, restart, upgrade, restore; 'exit' and 'error' of the child; SIGKILL timer at 5 s, failsafe at 10 s | requests overlap at every await and share one stop; children die at any time; spawn fails at once or later; kill may fail |
| Upgrade (`upgradePaaw`) | the git tree and stash list, `node_modules` | stash create/store, pull, stash apply, diagnosis, stash drop, npm install, recovery | each command may fail, also midway; the probes that diagnose may fail; the tree is shared with a person at a shell |
| Backups (`server/backup.mjs`) | archives named by hour, `data/` and `.paaw/` | create with rotation, list, restore with safety backup | tar fails midway; names collide within an hour; deletions fail; `maxBackups` is any number or none |
| Bootloader (`gateway.mjs`, `lib/install.mjs`) | `current.json`, `versions/<v>`, `data/` | start, update, upload, status | killed between any two steps; failing downloads, npm, starts; rollback |
| Console (`ui/server.mjs`, `lib/process.mjs`) | the one `job`, the registered child | start, stop, restart, update, upload, semgrep install, the shutdown | a child dies between any two awaits; how Node reports a signal; a body awaited between the look at the job and its use |
| Login (`server/auth.mjs`, `server/password.mjs`, the login route) | sessions, two rate limiters, password hashes | login, validateSession, upgrade of a weak hash | bcrypt is awaited between check and count, for the check and again for a new hash |
| Admin configuration (`server/config.mjs`) | `config.json` and its copy in memory, with overrides from the environment | load, saveConfig with its queue, saveCredentialUpgrades | read-merge-write by two kinds of writers, one outside the queue; a person edits the file; overrides must stay out of it |
| Audit log (`server/events.mjs`) | the last 500 events, a JSONL file | logEvent | the append may fail |
| Gateway configuration (`lib/config.mjs`, the settings route) | `gateway.json`, its copy in memory, the home directory | settings | every save has the same temporary file; the home moves while a job runs |
| Semgrep (`lib/semgrep.mjs`) | the cached probe | probe, install | external tools only |

The admin platform and the gateway are separate processes with separate trees. Within the
admin platform a request handler calls the process manager, and the upgrade and restore
handlers call the same `startPaaw`/`stopPaaw` as the others: the process handle, the status
and the shared stop promise are what they interact through. The login route reads the
configuration in memory and, through a credential upgrade, writes `config.json` beside
`saveConfig` and the person who edits it; a restart reads back what they left. Within the
gateway the command line and the console call the same installation and start functions; the
disk is what they share. The settings requests and the jobs share the home in memory, the
shutdown and the jobs the registered child.

### What makes each part correct

- **Process manager**: one server at most; the handle is held exactly while a child may
  live; a stop is reported done only after the exit (F-01 in the code's comments); one
  terminal audit event per stop; the status fits the handle; every request is answered; data
  is never unpacked over a live server.
- **Upgrade**: no boot on a half merged tree; local changes are kept; the diagnosis is true;
  a quiet upgrade completes.
- **Backups**: rotation keeps the newest and leaves too many only where deleting fails;
  archives of past hours stand; a restore brings the archive back and keeps what it
  overwrites.
- **Bootloader**: `current.json` names a complete version, never an older one; an update
  spares the current version; a failed update does not keep the system down; a failed start
  goes back to the version that ran.
- **Console**: one child; none lost; no ended child shown as running; jobs end; a server
  runs in the home that is shown; a gateway that leaves takes its server along.
- **Gateway configuration**: `gateway.json` is whole whenever the gateway is killed, and
  agrees with memory once saved.
- **Login**: guessing is bounded for an address, also with logins overlapping (an account's
  count is bounded too, but failures past its lock are answered without being counted for
  it: only the address stops them); a right password is refused only where failures came
  from; expired sessions do not pile up.
- **Admin configuration**: file and memory agree, but for edits and failed saves; a writer
  leaves the other writer's key alone; what comes from the environment stays out of the
  file.

## The modules and the code

`PROJECT.json` names the lines behind every definition.

**`ServerContract`** is the abstract specification of the process manager: a server that
is up or down, and what each caller of a stop has been told. It is booted only while
down, and "stopped" is told only while it is down. A server that is up may be `lost`
from sight, when a kill of it emits 'error': nothing is promised of it from then on,
but a caller is still told an outcome once, and "stopped" only if it has asked.

**`PaawControl`** models the process manager. Node runs one task at a time, so an
action is the code between two awaits. `Handle` is the beginning of a request's
route, up to its await of a stop if it needs one; `Resume` is its continuation.
The continuations of a settled stop run in the order the callers awaited it,
before any other task: `resume` is that queue, `waiting` holds the callers of a
pending stop, and `Quiet` says that the loop may take its next timer, request or
'exit' event. The 'error' event of a failed spawn (`SpawnError`) comes before such
tasks too. `Die` is the end of a child in the operating system and `ExitEvent`
the later news of it, so everything may happen in between, the two timers
included. A request spawns at most one child and begins at most one stop, so both
carry its name. What upgrade and restore do to the disk is one step here
(the code runs it without an await) that ends in one of the ways the next two
modules have in detail. `KillOutcomes` and `SpawnOutcomes` say how `child.kill` and
`spawn` may turn out:

| value | meaning in Node |
|---|---|
| kill `sent` | the signal is delivered, or the child is gone already (ESRCH) |
| kill `throws` | `child.kill` throws; the code catches it and fails the stop |
| kill `errors` | `child.kill` emits 'error' (EPERM): the handler meant for a failed spawn (line 162) drops the handle of a live child |
| spawn `alive`, `enoent`, `throws` | a child; an 'error' event in the next tick; an exception |

`killErrored` observes that a kill has emitted 'error'. What such a kill takes away
(one live server, held) is promised until then; everything else is promised also after
it: how stops settle and what is told of them, the status, the queues, the events.

**`UpgradeTree`** models the git and npm steps of `upgradePaaw` over sets of files:
staged and unstaged changes, what upstream has changed, files with conflict
markers or half written, our stash commit and the stash list. A pull and an apply may each
stop midway (the pull has a limit of 60 s, and disks fill) and leave any subset of their
files half written. Git is external
and behaves as its documentation and git 2.39 do; the header of the module lists
the points that matter. `SetAside` is not the code's: a person at a shell stashes
or checks out local changes during the pull.

**`Backup`** models `backup.mjs`. The archive of an hour is one slot. `czf` may leave
nothing, a partial or a complete archive when it fails, and `xzf` any subset of the
files. Rotation may fail to delete any of what it means to delete (`Excess`), and goes on;
`undeleted` observes which. `maxBackups` is what `Number()` makes of the setting, so it may
be 0, negative or `NaN`: `slice` then cuts at the other end, or nothing is ever deleted. A
backup that has rotated its own archive away is answered as failed, since the answer gives
the size of the file. `ServerWrites`, `Tick` and `StartOrStop` are the surroundings.

**`Bootloader`** models the CLI commands over the disk. Every step that is atomic on
disk is an action, and `Crash` may come between any two. A version's directory is
`code` once renamed into place, `half` when npm has begun, `ready` when npm is
through, `wreck` while it is being removed. `proven` and `updated` observe which
versions were once taken for online and whether this start installed an update; `works` is
the set of versions that stay alive, which is all that a start verifies in effect (see
`process.mjs:151` [below](#where-code-and-documentation-disagree)), and one that does may
still fail to start.

**`VersionStore`** is the abstract specification of the bootloader: the version the pointer
(`current.json`) names, the set of versions that are whole, and whether a person's upload
is at work. The pointer goes to a whole version only, forward unless by hand, and the
version it names is taken apart by hand only. A kill is no step of it. `Bootloader`
implements it with `whole` as the versions whose directory is `ready`.

**`GatewayConfig`** models `gateway.json` and its copy in memory. A request's record
holds its next step, the text it writes and what its open file has become: the
temporary file, `gateway.json` itself once another request has renamed it, or a file
in no directory. `overlapped` and `unsaved` observe whether two saves have been under
way at once, and whether memory has changed since the last one.

**`ControlPanel`** extends it with the console's job runner, the child it manages, the
settings and upload requests and the shutdown. A child's life is what Node shows of it:
`exited` has an exit code, `signalled` has none, and `exitCode` is null both for it and for
a live child. A start goes on from the health check when its child lives, with an answer or
with none in 90 s, which the code does not tell apart (`Health`), and looks at the child
once more after 2.5 s (`Register`). A child that is ended while a job waits in `killChild`
emits 'exit' once; a job that begins to wait after that is `stuck`. A request looks at the
job when it arrives and acts when its body is there (`Settings`, `Upload`). A start takes
the home twice, for the version's directory (`ReadCurrent`) and at the spawn for the data
(`SpawnIfPortFree`): `dirs` remembers both, and `moved` observes that a request has changed
the home in between. `Leave` is `bye`, which kills and awaits the registered child;
`KilledByBye` is the end of that child.

**`AdminConfig`** models `config.json`. The document is the users' credentials, one
ordinary setting in place of all, and where the bind host comes from. A credential is
whose password it verifies (its user's, the environment's, an edited one, a shipped
default) and whether it is due for a re-hash. `CallSave` takes the difference between memory
and file when `saveConfig` is called and queues it; `RunSave` is its turn of the queue:
read, merge, rename. `UpgradeCredential` is `saveCredentialUpgrades`, which goes beside
the queue. `LoadConfig` lays the environment over the file and is refused where
`validateAuthConfig` refuses. No route calls `saveConfig` at this commit; the module offers
it, its tests use it, and its queue and its comments promise what is checked here.
`edited`, `missed` and `settled` observe edits, failed saves, and the setting a save has
last written.

**`AdminAccess`** extends it with logins over the two limiters, sessions, boots and
crashes. A login is `Begin` up to the await of bcrypt, which keeps the clock of its
arrival; then `Refuse`, or `Accept`, which may go on to a second await and `Upgrade`. A
client of `Logins` has one login under way at a time and makes any number of them.
`guilty` and `refused` observe where failures came from and where a right password was
turned away at the gate.

The `MC` modules declare the model values of the instances and their scenarios. A
scenario is chosen in the initial state and says which of the surroundings take part,
so that one run covers several small instances in place of their product.

The `...Proofs` modules hold the theorems (see [The proofs](#the-proofs)).

## The runs

| Run | Instance | States | What it shows |
|---|---|---|---|
| `paaw_control` | 3 requests of any kind; kill sent, throwing or emitting 'error'; all spawns | 490 000 | one server, handle, confirmed stop, one terminal event, status, waiters, restore only while down, upgrade overlap bounded, every request answered, the contract implemented |
| `upgrade_tree` | 2 files; a pull may be refused, offline, end in a conflict or die midway | 1 952 | a half merged boot is that of a pull that failed in its merge, local changes kept, true diagnosis, a quiet upgrade completes exactly if nothing is unstaged |
| `backup` | 2 files, 3 hours, a `maxBackups` of 2, 0, -1 or `NaN`, 3 requests, contents 0..2 | 320 000 | retention, past archives stand, restore of another hour's archive, overwritten data safe |
| `bootloader` | 3 versions, automatic update on and off | 4 600 000 | `VersionStore` implemented (switch only to whole, no downgrade), current spared, failed update still starts |
| `control_panel` | 3 children and an upload; 2 children and a settings request; 2 settings requests | 430 000 | one live child, tracked, none shown after its exit, one home, server taken along, settings kept, nothing hangs unless struck |
| `admin_access` | 2 users, 2 clients, 2 tokens, limits 1 and 2, five scenarios | 1 850 000 | failures bounded, the innocent get in, spraying is stopped, sessions swept, file and memory agree, environment kept out |

Six more runs expect a violation; they are the next section.

**Bounds.** Three requests are the smallest number with which, after one that has started
the server, a stop has its owner and a sharer that both go on to start another, or a second
stop begins while the first one's child is still to exit. Two files tell a file that
conflicts from one that does not, and give a tar that stops midway something to leave out.
Three hours with two archives kept make rotation delete an archive, also the one being
restored; the other values of `maxBackups` are one for each way `slice` and the comparison
treat it. `backup` counts states up to a renaming of the files (`SYMMETRY`) and without the
last answer and what it left undeleted (`VIEW`): no action reads those two, and the
properties only as a step leaves them, which TLC looks at on every step. Three versions give
a current, an older and a newer one, and a downgrade after an update; Bootloader's state is
otherwise finite without a bound. Three children are the old one, its successor and the one
after a failed start; two settings requests are enough to share the temporary file, and one
with two children to move the home under a start that follows a restart. Two clients overlap
in verification; an account limit of 1 and an address limit of 2 let an account be locked
while its address is not. A window of one tick, a maximum age of 0, 1 and 2 and a day of two
ticks put each of them on either side of the clock's few values. The five scenarios of
`admin_access` are: clients that guess, at two addresses, with one tick; at one address,
with two events of clock and crash; clients that know their passwords, with old credentials,
files that are missing, corrupt or hold a default, an environment that may override, and
three events of save, edit and crash; and sessions under three ticks with a maximum age of
0, and under three events of tick and crash with one of 1.

The bounds are `MaxHour`, `MaxVersion`, `MaxRequests` in `Backup`, the number of `events`
of a scenario in `AdminAccess`, and the sets of requests, files, versions, children and
tokens elsewhere; nothing else is capped. A login with no free token is not answered in
the model; with two clients and two tokens the sweep and the logins of the run still
meet each other.

**Deadlock** is checked in `bootloader` and its violation run. Elsewhere the system may
stop: all requests are answered, the upgrade is over, the requests or the events of a
scenario are used up, the gateway is gone, or (`control_panel`) a job is stuck, which is a finding.

**Properties that say what holds instead of what is promised.** These properties are
the strongest true form of a promise that fails:
`UpgradeOverlapsOnlyItsBatch` (a live server under an upgrade can only come from a
request that shared its stop), `RestoreBringsBackOtherHours` (all but this hour's
archive), `NothingHangsUnlessStruck` (no foreign signal), `OneHome` (unless the home moved
during the start), `ExitTakesServerAlong` (but for a server a start has not registered),
`SettingsPersist` (as long as no two saves overlap), `SweptAtLogin` (what `createSession`
sweeps, not what `validateSession` refuses), `EnvStaysOut` (but for a login's own credential
upgrade) and `FileAgreesWithMemory` (that an edit or a patch outlives the next write of the
same key is not in it, and does not hold: see `config.mjs:435` and `:467` below). In
`upgrade_tree`, `HalfMergedBootOnlyOfPull` is what holds of `NeverBootHalfMerged` (a pull that
fails in its merge, by a conflict or midway, is the one exception; the files it leaves marked
or half written have no local change, and those changes are in the stash list), and
`QuietUpgradeNeedsStaged` what holds of `QuietUpgradeCompletes`: the two promises are the
properties of the runs `upgrade_pull_conflict` and `upgrade_local_changes`. In `paaw_control`,
`OneLiveServer`, half of `HandleOwnsServer`, `RestoreOnlyWhileDown` and
`UpgradeOverlapsOnlyItsBatch` hold until a kill emits 'error'.

## Where code and documentation disagree

| Run | The code | The promise |
|---|---|---|
| `paaw_upgrade_overlap` | An upgrade that shared its stop with a restart goes on under the server the restart started: the handle is not looked at after the await. | `paaw-control.mjs:541` "never git-pull / npm-install under a live server process" |
| `upgrade_pull_conflict` | A pull that ends in a conflict is recovered by a start on the conflicted tree, and so is one that dies midway on a half written one. | `paaw-control.mjs:647` "exactly the state we must NOT boot from" |
| `upgrade_local_changes` | `stash create` leaves the local changes in place, so the stash cannot be applied over them: the upgrade stops, the server stays down. | `README.md:139` "git stash → git pull → npm install → restart" |
| `backup_same_hour` | The safety backup overwrites this hour's archive before it is unpacked. | `README.md:150` stop, safety backup, unpack, restart |
| `bootloader_rollback` | `current.json` is written by the installation, so the rollback finds no previous version. | `gateway.mjs:19-20` verified first, "any step fails: start the previous version" |
| `control_panel_struck` | A child ended by a signal has a null `exitCode`; `killChild` awaits its 'exit' for ever. | `process.mjs:146` spawn error and exit both count as dead |

The others are in the models, where nothing promised of them is claimed, and in no run:

| Where | The code | The promise |
|---|---|---|
| `lib/process.mjs:151` | What `waitForHealthy` returns is discarded: a living server that has not answered in 90 s is announced as online and registered. | `lib/process.mjs:58` "only a 200 to GET / counts as alive" |
| `auth.mjs:136` | A `sessionMaxAge` of 0 is taken for one day, so such sessions live until the next login sweeps them. | `auth.mjs:121-122` "a legitimate 'everything expires at once' setting" |
| `server.mjs:209` | After a failed save the hash in memory is bcrypt already; no later login of that user saves again. | `server.mjs:210-212` "every future login re-hashes and re-attempts the write" |
| `config.mjs:467` | A credential upgrade writes every live hash that differs: also one from the environment, for a user the file has, and over one the operator has edited since. | `config.mjs:442`, `:447-448` only the re-hashed ones; overrides "must not become permanent file settings" |
| `config.mjs:435` | A patch is saved to the file only; the next save without a patch writes the memory's older value back. (`settled` is what a save last wrote, meant or not.) | `config.mjs:209-210` "fields changed by other writer paths [...] are preserved" |
| `lib/config.mjs:76` | Two overlapping saves share `gateway.json.tmp`: one truncates what the other then renames. | `lib-config.test.mjs:183` an atomic write |
| `ui/server.mjs:280` | Settings whose body was awaited meanwhile move the home under a start. | `ui/server.mjs:250`, `:280` no settings during a job, no move under a server |
| `ui/server.mjs:388` | An upload whose body was awaited while another job began is dropped and answered 202. | `ui/server.mjs:392` the installation has begun |
| `ui/server.mjs:436` | A gateway ended during a start leaves the server it has just spawned. | `ui/server.mjs:433` Ctrl+C stops PAAW too |
| `lib/semgrep.mjs:192` | The check after an installation does not reach the cached state. | `lib/semgrep.mjs:148` "or run again after the installation" |

The last is in no model (see [below](#what-is-left-out-and-the-plan)). Two more concern the
process manager. When SIGTERM throws, `finish` clears `stoppingPromise` before the
assignment of line 204 sets it, so the failed promise is shared with every later stop;
`child.kill` throws for SIGTERM only on a platform without the call. And `stash drop` is
given a commit, which git refuses: the entry stays in the list and the upgrade warns.

## Fairness

`PaawControl` assumes weak fairness of each `Task`: Node runs due continuations, events and
timers. Nothing makes a request come or a child die, so `EveryRequestAnswered` rests on the
failsafe timer alone where a child ignores SIGKILL. The fetch of the health check is taken
to answer or fail (`HealthAnswer`): the code gives it no timeout, and a server that accepts
the connection and never replies is outside the model. `ControlPanel` assumes, while the
gateway lives, that the running job makes a step when it can: timers fire, the port probe
has a limit, the health check ends after 90 s (a child that lives is then registered), and
SIGKILL ends a child that is being stopped. It also assumes what no code ensures, that a
download (`install.mjs:35`, a fetch without a limit) and `npm install` end: a job that waits
for either for ever keeps the one job slot, and that is outside the model. It assumes too
that the child `bye` kills ends (`KilledByBye`). Bodies need not arrive and saves need not
go on: nothing rests on them. `AdminAccess` assumes no fairness: `SprayIsStopped` says that
failures without end come only with successes without end, which time and scheduling cannot
change. `Bootloader`, `Backup` and `UpgradeTree` claim safety only.

## The proofs

Every property of the passing runs but the three listed at the end of this section is a
theorem, for all values of the constants that the named assumptions allow; of two of the
three, the safety half is.

| Module | Theorems |
|---|---|
| `PaawControlProofs` | `TypeCorrect`, `Invariance`, `HandleOwned`, `NeverTwoServers`, `StopIsConfirmed`, `OneTerminalEventEach`, `StatusAgrees` |
| `PaawContractProofs` | `QueueInvariance`, `NoWaiterLost`, `RestoreNeverOverServer`, `UpgradeSharesOnly`, `ContractKept` |
| `UpgradeTreeProofs` | `TypeCorrect`, `ChangesKept`, `VerdictTrue`, `HalfMergedBootIsOfPull`, `QuietUpgrades` |
| `BackupProofs` | `TypeCorrect`, `NewestKept`, `PastStands`, `OtherHoursBroughtBack`, `OverwrittenIsSafe` |
| `BootloaderProofs` | `Invariance`, `TypeCorrect`, `SwitchesToWhole`, `NeverBack`, `CurrentIsSpared`, `StillStarts`, `StoreKept`, `CurrentIsWhole`, `RollbackNeverTaken` |
| `ControlPanelProofs` | `Invariance`, `TypeCorrect`, `NeverTwoServers`, `NoServerLost`, `RegisterIsHonest`, `ServerAndGatewayAgree`, `ByeTakesServerAlong`, `WaitsForWhatIsToCome`, `StuckJobStays`, `SettingsAreKept` |
| `AdminAccessProofs` | `Invariance`, `TypeCorrect`, `FailuresAreBounded`, `InnocentGetsIn`, `SessionsSwept`, `FileAndMemoryAgree`, `EnvKeptOut`, `ShutOutUntilLater` |

**Assumptions.** Each module rests on the named `ASSUME`s of the module it is about, which
TLC evaluates in the runs: what is not a request, a child or a document, that the login
limits and windows are positive, that `maxBackups` is an integer or `NaN`, what a scenario
may be. No theorem has a hypothesis on how spawn, kill, git or npm turn out. One has a
hypothesis of its own: `CurrentIsWhole` is about those who never upload, for an upload of
the current version takes its directory away first (`VersionStore` says so: by hand only).

**Process manager.** `OneLiveServer` is not inductive: a start looks at the handle, not at
the children. `HandleOwnsServer` ties the two, and the start's guard then says that no
child is alive. It is stated with its two halves apart, since one survives a kill that emits
'error': the handle is never that of a child that is over, which is what lets a later start
go on from it. `ConfirmedStop` and `OneTerminalEvent` need to know that the one pending
stop is the shared one (`PendingIsShared`), so that a late exit settles only it; that a
stop with an outcome has a child (`StopsWellFormed`); and that a name is used once
(`NamesUnused`: an idle or waiting request has spawned no child yet, which is how a
request that goes on cannot overwrite a child). `IInv` is the conjunction.
The lemmas follow the operators: `StartKeeps`, `ProceedKeeps`, `StopKeeps` and `FinishKeeps`
say what each preserves, `InductiveStep` has one case per action.

**Its queues and its contract.** What the waiting requests are told needs `QueueInv` on top:
who has joined a stop saw it begun and has no answer yet (`JoinInv`); a shared stop that
is over failed as it began (`SharedInv`); the waiters await the one pending promise
(`WaitingInv`); those that are due shared one stop, and if it was confirmed, a child that
is alive is of one of them (`BatchInv`); and each waiter has one place in the two queues
together (`PlacesInv`, with the lemmas that say how appending, taking the head and
appending two queues change the number of places). `BatchInv` is why an upgrade can meet
only a server its own batch started, and why a boot of the implementation is a boot of a
server that is down for `ServerContract`: `StepRefines` takes the actions one by one, and
`ContractKept` is the refinement. The server of the contract is `lost` once `killErrored` is
set, in the step of the kill, when the child it was sent to is alive.

**Upgrade.** Our commit, once made, is in the stash list, or it holds all the local changes
and is about to be stored (`StashInv`), so that they are in the tree until then; nothing is reported
before the end (`ReportInv`); a tree is half merged after an apply, and then never booted, or
by a pull that fails in its merge, which only starts where upstream's files are not changed
here (`MergeInv`). What an undisturbed upgrade has done up to each step (`QuietInv`) gives
`QuietUpgrades`, in both directions.

**Backups.** No archive is of an hour to come (`PastOnly`), which makes the fresh archive the
newest; that it is left after a backup answered ok follows from the size in the answer. What
rotation means to delete is older than what it means to keep, for each kind of `maxBackups`
(`ExcessIsOldest`); that at most `maxBackups` are left but for failed deletions is a counting
argument at the oldest archive kept (`WithinLimit`, with the library's facts on cardinalities
and on the well-foundedness of the naturals).

**Bootloader.** What is installed is newer than the current version unless uploaded, what is
booted is the current one (`CommandInv`), and each step of an installation knows how far
its directory has come (`StageInv`): directories are changed by the installation's own
steps only, which is why a crash, wherever it falls, cannot make `current.json` move to
a directory that is not whole. For `StoreKept` each lemma takes one kind of step: a
directory turns whole at the end of npm only (`Complete`), stops being so when an installation
removes it (`Discard`, of the current version by hand only), and only `Switch` moves the pointer,
to a whole version (`Point`). That what is booted is current also says that
`current # target` is false wherever a start is verified, so the rollback is never taken:
`RollbackNeverTaken` proves of all instances what `bootloader_rollback` shows on one.

**Console.** `AliveInv` says at which steps which child may be alive; `PaawInv` ties the
register to the steps, `GoneInv` a gateway that has left, `HomeInv` carries the home a
start took from step to step up to the registration. For the settings, `FileInv` says
how much of a save's text is in the temporary file, as long as there is one save. For
`WaitsForWhatIsToCome`, `SeenInv` adds that, until a foreign signal, a child that a signal has
ended is in nobody's hands any more: its 'exit' has been seen by whoever sent it.

**Login and configuration.** `FailuresBounded` is not inductive, since the gate was passed
long before the failure counts. `FloodInv` adds to an entry's count the logins that may
still be counted in it (those in verification that arrived before it ends): a login that
passes the gate adds one to it, a failure moves one over. `ShutOutUntilLater` rests on
`ArrivedInv`: the clock a login keeps from its arrival is never ahead, so that what its
failure prunes or restarts has ended by the present clock too. `FileAndMemoryAgree`
is inductive with two more facts (`FileInv`): the setting that a load would find is the one a
save last wrote, also with no file to read, and under an override no queued save names the
users.

**Only model-checked.** Liveness, which is outside the prover's reach:
`EveryRequestAnswered`, `NothingHangsUnlessStruck`, `SprayIsStopped`. What liveness rests on is
proved of each: that a pending stop has a timer armed and every waiter its place
(`NoWaiterLost`), that what is awaited is still to come (`WaitsForWhatIsToCome`), and that an
address at its limit admits nobody more (`ShutOutUntilLater`); that those steps are then
taken, or run out, is TLC's. The violations are behaviours of an instance.

## What is left out, and the plan

Not modelled, and why:

- **Audit log** (`server/events.mjs`): a list of at most 500 entries and a file append, with
  no order or failure of its own to get wrong; that each stop writes one terminal event
  is checked in `PaawControl`.
- **HTTP layer** (`server.mjs`): routing, roles, reading bodies, static files. The routes that
  drive a stateful part are in the modules of that part.
- **Semgrep** (`lib/semgrep.mjs`): runs of other programs and a search of paths, nearly all of
  it text; its job is `work` in `ControlPanel`.
- **Web pages**: views of the two APIs.
- In modelled parts: the wording of answers and events, file names and their checks,
  download, sha256 and zip extraction (one step that succeeds or fails), `PAAW_SKIP_NPM_I`,
  two gateway processes on one home, `PAAW_HOME` and the like (which fix what the settings
  would change), ports and paths in `config.json`, that unknown users and locked accounts
  are answered in equal time. `healthCheckPaaw` is one answer. `paawPid`,
  `paawStartTime` and `paawRestartCount` are shown and never looked at, and are left out.
  The gateway's 'exit' handler, its end
  by an exception, and the start of another gateway after it are not in `ControlPanel`,
  which ends with `bye`.

The project was built in this order: `PaawControl` with `ServerContract`; its proofs;
`UpgradeTree`; `Backup`; `Bootloader`; `ControlPanel`; `AdminConfig` and `AdminAccess`;
`GatewayConfig` and the requests and shutdown of `ControlPanel`; the proofs of all of them.
What could follow:

1. A gateway that ends and another that starts beside the server it left: the 'exit'
   handler, the port probe as the only trace, and `OneLiveChild` over both.
2. `UpgradeTree` under `PaawControl`: one module in which the requests of the process manager
   and the git steps of an upgrade interleave, so that the overlap of
   `paaw_upgrade_overlap` is followed to the tree the server reads.
3. A crash of the admin platform in the middle of an upgrade or a restore: nothing on disk
   says that one was under way.
