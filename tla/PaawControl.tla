----------------------------- MODULE PaawControl -----------------------------
(***************************************************************************)
(* The child-process lifecycle of the admin platform:                      *)
(* src/server/paaw-control.mjs with the routes of src/server.mjs that      *)
(* drive it.                                                               *)
(*                                                                         *)
(* Node runs one task at a time, so an action is a run of code between two *)
(* awaits.  Two queues come before the next event of the loop: the         *)
(* continuations of a settled promise (`resume', in the order the callers  *)
(* awaited it) and the 'error' event of a spawn that failed.  Timers,      *)
(* requests and 'exit' events are tasks of the loop and wait for `Quiet'.  *)
(* A child dies on its own account at any time; its 'exit' comes later.    *)
(*                                                                         *)
(* A request calls startPaaw and stopPaaw at most once each, so the child  *)
(* it spawned and the stop it began carry its name.                        *)
(***************************************************************************)
EXTENDS Naturals, Sequences, FiniteSets

CONSTANTS Requests,       \* the requests one admin process serves (auto-start is one)
          None,
          KillOutcomes,   \* what child.kill may do with a live child
          SpawnOutcomes   \* how spawn may turn out

ASSUME NoneAssumption == None \notin Requests
ASSUME OutcomesAssumption == /\ KillOutcomes \subseteq {"sent", "throws", "errors"}
                             /\ SpawnOutcomes \subseteq {"alive", "enoent", "throws"}

VARIABLES admin,             \* "up", or "crashed" by an unhandled rejection
          paawProcess,       \* the child handle, or None
          paawStatus,
          stoppingPromise,   \* the stop whose promise is shared, or None
          os,                \* each child as the operating system and Node see it
          stop,              \* each stop sequence: its child, its outcome, its timers
          terminal,          \* terminal audit events each stop has written
          op, pc, result,    \* each request: its route, where it is, its reply
          joined,            \* the stop whose promise a request awaits
          waiting,           \* requests awaiting the pending promise, in order
          resume,            \* requests whose continuation is due, in order
          killErrored        \* (observer) a kill has emitted 'error': the handler of
                             \* line 162 has dropped the handle of a live child

lifecycle == <<paawProcess, paawStatus, os>>
stopping == <<stoppingPromise, stop, terminal, waiting>>
requests == <<op, pc, result>>
vars == <<admin, lifecycle, stopping, requests, joined, resume, killErrored>>

Ops == {"start", "stop", "restart", "upgrade", "restore"}
ChildStates == {"none", "unborn", "failed", "alive", "dead", "reaped"}
Results == {"none", "refused", "ok", "already", "stopFailed",
            "leftStopped", "recovered", "notRecovered", "upgraded", "notRestored"}

StopRecords == [proc : Requests \cup {None},
                outcome : {"none", "pending", "ok", "failed"},
                timer : {"off", "grace", "last"}]
NoStop == [proc |-> None, outcome |-> "none", timer |-> "off"]

TypeOK ==
  /\ admin \in {"up", "crashed"}
  /\ paawProcess \in Requests \cup {None}
  /\ paawStatus \in {"stopped", "starting", "running", "crashed"}
  /\ stoppingPromise \in Requests \cup {None}
  /\ os \in [Requests -> ChildStates]
  /\ stop \in [Requests -> StopRecords]
  /\ terminal \in [Requests -> Nat]
  /\ op \in [Requests -> Ops \cup {"none"}]
  /\ pc \in [Requests -> {"idle", "stopping", "verifying", "probing", "done"}]
  /\ result \in [Requests -> Results]
  /\ joined \in [Requests -> Requests \cup {None}]
  /\ waiting \in Seq(Requests)
  /\ resume \in Seq(Requests)
  /\ killErrored \in BOOLEAN

Init ==
  /\ admin = "up"
  /\ paawProcess = None
  /\ paawStatus = "stopped"
  /\ stoppingPromise = None
  /\ os = [r \in Requests |-> "none"]
  /\ stop = [r \in Requests |-> NoStop]
  /\ terminal = [r \in Requests |-> 0]
  /\ op = [r \in Requests |-> "none"]
  /\ pc = [r \in Requests |-> "idle"]
  /\ result = [r \in Requests |-> "none"]
  /\ joined = [r \in Requests |-> None]
  /\ waiting = <<>>
  /\ resume = <<>>
  /\ killErrored = FALSE

\* The loop takes its next timer, request or 'exit' event only now.
Quiet == /\ admin = "up"
         /\ resume = <<>>
         /\ \A c \in Requests : os[c] # "unborn"

-----------------------------------------------------------------------------
(* startPaaw.  `res' is what it returns, or that it throws.               *)

Spawn(r, how) ==
  \/ /\ how = "alive"
     /\ paawProcess' = r
     /\ paawStatus' = "running"
     /\ os' = [os EXCEPT ![r] = "alive"]
  \/ /\ how = "enoent"                      \* the child's 'error' event follows
     /\ paawProcess' = r
     /\ paawStatus' = "running"
     /\ os' = [os EXCEPT ![r] = "unborn"]
  \/ /\ how = "throws"
     /\ paawStatus' = "starting"
     /\ UNCHANGED <<paawProcess, os>>

SpawnResult(how) == IF how = "throws" THEN "throws" ELSE "ok"

\* Mutant: the guard on a live process is missing.
StartUnguarded(r, res) ==
  \E how \in SpawnOutcomes : Spawn(r, how) /\ res = SpawnResult(how)

StartPaaw(r, res) ==
  \/ /\ paawProcess # None
     /\ res = "already"
     /\ UNCHANGED lifecycle
  \/ /\ paawProcess = None
     /\ \E how \in SpawnOutcomes : Spawn(r, how) /\ res = SpawnResult(how)

StartResults == {"ok", "already", "throws"}

Reply(r, word) == /\ pc' = [pc EXCEPT ![r] = "done"]
                  /\ result' = [result EXCEPT ![r] = word]

-----------------------------------------------------------------------------
(* stopPaaw                                                                *)

Settled(rec, ok) == [rec EXCEPT !.outcome = IF ok THEN "ok" ELSE "failed", !.timer = "off"]

\* The promise settles, the timers are disarmed, the one terminal event is
\* written and every waiter has its continuation due.
Settle(s, ok) ==
  /\ stop' = [stop EXCEPT ![s] = Settled(@, ok)]
  /\ stoppingPromise' = None
  /\ terminal' = [terminal EXCEPT ![s] = @ + 1]
  /\ resume' = resume \o waiting
  /\ waiting' = <<>>

\* Mutants: a failed stop shown under a name the dashboard does not know; a
\* failed stop papered over as "stopped".
FinishUnlisted(s, ok) == Settle(s, ok) /\ paawStatus' = IF ok THEN "stopped" ELSE "stop_failed"
FinishPapered(s, ok) == Settle(s, ok) /\ paawStatus' = "stopped"

\* finish(), called once a stop: see Listeners and the timers.
Finish(s, ok) == Settle(s, ok) /\ paawStatus' = IF ok THEN "stopped" ELSE "crashed"

\* Mutant: the joiner of a pending stop is not queued behind it.
JoinForgotten(r) ==
  /\ joined' = [joined EXCEPT ![r] = stoppingPromise]
  /\ UNCHANGED <<lifecycle, stopping, resume, killErrored>>

JoinStop(r) ==
  /\ joined' = [joined EXCEPT ![r] = stoppingPromise]
  /\ IF stop[stoppingPromise].outcome = "pending"
       THEN waiting' = Append(waiting, r) /\ UNCHANGED resume
       ELSE resume' = Append(resume, r) /\ UNCHANGED waiting
  /\ UNCHANGED <<lifecycle, stoppingPromise, stop, terminal, killErrored>>

Begun(outcome, timer) == [proc |-> paawProcess, outcome |-> outcome, timer |-> timer]

\* The promise is shared only once its executor has returned: when SIGTERM
\* throws, finish() has already run and cleared stoppingPromise by then.
BeginStop(r) ==
  /\ joined' = [joined EXCEPT ![r] = r]
  /\ stoppingPromise' = r
  /\ UNCHANGED os
  /\ \/ /\ "sent" \in KillOutcomes \/ os[paawProcess] = "dead"   \* ESRCH is not an error
        /\ stop' = [stop EXCEPT ![r] = Begun("pending", "grace")]
        /\ waiting' = Append(waiting, r)
        /\ UNCHANGED <<paawProcess, paawStatus, terminal, resume, killErrored>>
     \/ /\ "throws" \in KillOutcomes
        /\ os[paawProcess] = "alive"
        /\ stop' = [stop EXCEPT ![r] = Begun("failed", "off")]
        /\ paawStatus' = "crashed"
        /\ terminal' = [terminal EXCEPT ![r] = @ + 1]
        /\ resume' = Append(resume, r)
        /\ UNCHANGED <<paawProcess, waiting, killErrored>>
     \/ /\ "errors" \in KillOutcomes               \* kill() emits 'error'
        /\ os[paawProcess] = "alive"
        /\ stop' = [stop EXCEPT ![r] = Begun("pending", "grace")]
        /\ waiting' = Append(waiting, r)
        /\ paawProcess' = None
        /\ paawStatus' = "crashed"
        /\ killErrored' = TRUE
        /\ UNCHANGED <<terminal, resume>>

StopPaaw(r) == IF stoppingPromise # None THEN JoinStop(r) ELSE BeginStop(r)

-----------------------------------------------------------------------------
(* What the routes do once no process is left in their way                 *)

\* Nothing catches a throw of spawn here: the handler's promise is rejected
\* and Node ends the process.
PlainStart(r) ==
  \E res \in StartResults :
    /\ StartPaaw(r, res)
    /\ IF res = "throws"
         THEN admin' = "crashed" /\ UNCHANGED <<pc, result>>
         ELSE Reply(r, res) /\ UNCHANGED admin

\* One uninterrupted run: stash, pull, apply, drop, npm install.  Module
\* UpgradeTree has the steps; here are the ways they end.  A throw of spawn in
\* the restart lands in the outer catch, whose recovery throws the same way.
UpgradeEnds == {"leftStopped", "recover", "installed"}

UpgradeWork(r) ==
  /\ UNCHANGED admin
  /\ \E end \in UpgradeEnds :
       \/ /\ end = "leftStopped"
          /\ Reply(r, "leftStopped")
          /\ UNCHANGED lifecycle
       \/ /\ end # "leftStopped"
          /\ \E res \in StartResults :
               /\ StartPaaw(r, res)
               /\ IF res = "throws" THEN Reply(r, "notRecovered")
                  ELSE IF end = "recover" THEN Reply(r, "recovered")
                  ELSE pc' = [pc EXCEPT ![r] = "verifying"] /\ UNCHANGED result

\* Mutant: restoreBackup without its own look at the process handle.
RestoreUnchecked(r) ==
  /\ UNCHANGED admin
  /\ \/ Reply(r, "notRestored") /\ UNCHANGED lifecycle
     \/ \E res \in StartResults :
          /\ StartPaaw(r, res)
          /\ Reply(r, IF res = "throws" THEN "notRestored" ELSE "ok")

\* Module Backup has the archives; here only whether the restore went through.
RestoreBackup(r) ==
  /\ UNCHANGED admin
  /\ \/ Reply(r, "notRestored") /\ UNCHANGED lifecycle
     \/ /\ paawProcess = None
        /\ \E res \in StartResults :
             /\ StartPaaw(r, res)
             /\ Reply(r, IF res = "throws" THEN "notRestored" ELSE "ok")

Proceed(r, o) ==
  \/ o \in {"start", "restart"} /\ PlainStart(r)
  \/ o = "upgrade" /\ UpgradeWork(r)
  \/ o = "restore" /\ RestoreBackup(r)
  \/ /\ o = "stop"
     /\ Reply(r, IF joined[r] = None THEN "refused" ELSE "ok")
     /\ UNCHANGED <<admin, lifecycle>>

-----------------------------------------------------------------------------
(* The tasks of the loop                                                   *)

Handle(r, o) ==
  /\ Quiet
  /\ pc[r] = "idle"
  /\ op' = [op EXCEPT ![r] = o]
  /\ \/ /\ o = "start" \/ paawProcess = None
        /\ Proceed(r, o)
        /\ UNCHANGED <<stopping, joined, resume, killErrored>>
     \/ /\ o # "start" /\ paawProcess # None
        /\ StopPaaw(r)
        /\ pc' = [pc EXCEPT ![r] = "stopping"]
        /\ UNCHANGED <<admin, result>>

\* Mutant: the stop's outcome is not looked at.
ResumeRegardless(r) ==
  /\ admin = "up"
  /\ pc[r] = "stopping" /\ resume # <<>> /\ r = Head(resume)
  /\ resume' = Tail(resume)
  /\ Proceed(r, op[r])
  /\ UNCHANGED <<stopping, op, joined, killErrored>>

\* A waiter goes on with the settled outcome of the stop it joined.
Resume(r) ==
  /\ admin = "up"
  /\ pc[r] = "stopping" /\ resume # <<>> /\ r = Head(resume)
  /\ resume' = Tail(resume)
  /\ IF stop[joined[r]].outcome = "ok"
       THEN Proceed(r, op[r])
       ELSE Reply(r, "stopFailed") /\ UNCHANGED <<admin, lifecycle>>
  /\ UNCHANGED <<stopping, op, joined, killErrored>>

\* The 'error' event of a spawn that failed: next tick, before any task.
SpawnError(c) ==
  /\ admin = "up"
  /\ resume = <<>>
  /\ os[c] = "unborn"
  /\ os' = [os EXCEPT ![c] = "failed"]
  /\ paawStatus' = "crashed"
  /\ paawProcess' = None
  /\ UNCHANGED <<admin, stopping, requests, joined, resume, killErrored>>

\* The child ends: of itself, or by a signal.  Node does not know yet.
Die(c) ==
  /\ os[c] = "alive"
  /\ os' = [os EXCEPT ![c] = "dead"]
  /\ UNCHANGED <<admin, paawProcess, paawStatus, stopping, requests, joined, resume, killErrored>>

\* Mutant: finish() without its settled guard.
ListenersUnsettled(c) == {s \in Requests : stop[s].proc = c}

\* The stops of c whose 'exit' listener still has a promise to settle.
Listeners(c) == {s \in Requests : stop[s].proc = c /\ stop[s].outcome = "pending"}

\* The generic handler runs first and drops the handle, whichever child it is.
ExitEvent(c) ==
  /\ Quiet
  /\ os[c] = "dead"
  /\ os' = [os EXCEPT ![c] = "reaped"]
  /\ paawProcess' = None
  /\ UNCHANGED <<admin, requests, joined, killErrored>>
  /\ \/ /\ Listeners(c) = {}
        /\ paawStatus' \in {"stopped", "crashed"}      \* stopped if the code is 0
        /\ UNCHANGED <<stopping, resume>>
     \/ \E s \in Listeners(c) : Finish(s, TRUE)

\* Mutant: one clearTimeout too many, the failsafe goes with the SIGKILL timer.
SigkillDisarmsFailsafe(s) ==
  /\ Quiet
  /\ stop[s].timer = "grace"
  /\ stop' = [stop EXCEPT ![s].timer = "off"]
  /\ UNCHANGED <<admin, lifecycle, stoppingPromise, terminal, waiting, requests, joined,
                 resume, killErrored>>

\* After 5 s.  Whether SIGKILL ends the child is the child's Die.
SigkillTimer(s) ==
  /\ Quiet
  /\ stop[s].timer = "grace"
  /\ UNCHANGED <<admin, os, requests, joined>>
  /\ \/ /\ "sent" \in KillOutcomes \/ os[stop[s].proc] # "alive"
        /\ stop' = [stop EXCEPT ![s].timer = "last"]
        /\ UNCHANGED <<paawProcess, paawStatus, stoppingPromise, terminal, waiting, resume,
                       killErrored>>
     \/ /\ "throws" \in KillOutcomes /\ os[stop[s].proc] = "alive"
        /\ Finish(s, FALSE)
        /\ UNCHANGED <<paawProcess, killErrored>>
     \/ /\ "errors" \in KillOutcomes /\ os[stop[s].proc] = "alive"
        /\ stop' = [stop EXCEPT ![s].timer = "last"]
        /\ paawProcess' = None
        /\ paawStatus' = "crashed"
        /\ killErrored' = TRUE
        /\ UNCHANGED <<stoppingPromise, terminal, waiting, resume>>

\* Mutants: the failsafe drops the handle of the child that refused to die; it
\* reports the stop as done.
FailsafeDropsHandle(s) ==
  /\ Quiet
  /\ stop[s].timer = "last"
  /\ Finish(s, FALSE)
  /\ paawProcess' = None
  /\ UNCHANGED <<admin, os, requests, joined, killErrored>>
FailsafeOptimistic(s) ==
  /\ Quiet
  /\ stop[s].timer = "last"
  /\ Finish(s, TRUE)
  /\ UNCHANGED <<admin, paawProcess, os, requests, joined, killErrored>>

\* After 10 s, always behind the first timer.
FailsafeTimer(s) ==
  /\ Quiet
  /\ stop[s].timer = "last"
  /\ Finish(s, FALSE)
  /\ UNCHANGED <<admin, paawProcess, os, requests, joined, killErrored>>

\* Three seconds on, healthCheckPaaw looks at the status, then asks the server.
VerifyUpgrade(r) ==
  /\ Quiet
  /\ pc[r] = "verifying"
  /\ IF paawStatus = "running"
       THEN pc' = [pc EXCEPT ![r] = "probing"] /\ UNCHANGED result
       ELSE Reply(r, "upgraded")
  /\ UNCHANGED <<admin, lifecycle, stopping, op, joined, resume, killErrored>>

HealthAnswer(r) ==
  /\ Quiet
  /\ pc[r] = "probing"
  /\ Reply(r, "upgraded")
  /\ UNCHANGED <<admin, lifecycle, stopping, op, joined, resume, killErrored>>

Task(r) == \/ Resume(r) \/ SpawnError(r) \/ ExitEvent(r)
           \/ SigkillTimer(r) \/ FailsafeTimer(r)
           \/ VerifyUpgrade(r) \/ HealthAnswer(r)

Next == \E r \in Requests : \/ \E o \in Ops : Handle(r, o)
                            \/ Die(r)
                            \/ Task(r)

Spec == Init /\ [][Next]_vars

\* The loop runs what is due.  Requests may never come, children may never die.
Fairness == \A r \in Requests : WF_vars(Task(r))
FairSpec == Spec /\ Fairness

-----------------------------------------------------------------------------
(* Properties                                                              *)

\* At most one server process is alive, whatever start, restart, upgrade and
\* restore requests overlap (paaw-control.mjs: "never start a second process
\* while the old one may still hold the port"), until a kill emits 'error'.
OneLiveServer ==
  killErrored \/ \A c, d \in Requests : os[c] = "alive" /\ os[d] = "alive" => c = d

\* The handle is held exactly as long as a child may be alive: from spawn
\* until its 'exit' or 'error' event.  A failed stop keeps it; a late 'exit'
\* of an abandoned stop does not take away the handle of a newer child.  Only
\* after a kill that emits 'error' may a child live without it, and even then
\* the handle is never that of a child that is over.
MayLive(c) == os[c] \in {"unborn", "alive", "dead"}
HandleOwnsServer ==
  \A c \in Requests : /\ paawProcess = c => MayLive(c)
                      /\ MayLive(c) => paawProcess = c \/ killErrored

\* A stop is answered ok only when its child has been reaped (F-01), and
\* nobody who shared it can see that answer earlier.
ConfirmedStop ==
  \A s \in Requests : stop[s].outcome = "ok" => os[stop[s].proc] = "reaped"

\* The audit contract of stopPaaw: each stop writes exactly one terminal event,
\* also when the exit comes after the failsafe has given the stop up.
OneTerminalEvent ==
  \A s \in Requests : terminal[s] = IF stop[s].outcome \in {"ok", "failed"} THEN 1 ELSE 0

\* What the dashboard shows agrees with the handle, across failed stops, late
\* exits and failed spawns: "running" only with a process held, "stopped" and
\* "starting" only without.
StatusAgreesWithHandle ==
  /\ paawStatus = "running" => paawProcess # None
  /\ paawStatus \in {"stopped", "starting"} => paawProcess = None

Places(q, r) == Cardinality({i \in DOMAIN q : q[i] = r})

\* No waiter is lost or resumed twice: a request stands in exactly one queue,
\* once, while it awaits a stop, and only a pending stop has waiters, with one
\* of its timers armed: whatever the child does, it will settle.
WaitersAccountedFor ==
  /\ admin = "up" =>
       \A r \in Requests :
         Places(waiting, r) + Places(resume, r) = IF pc[r] = "stopping" THEN 1 ELSE 0
  /\ waiting # <<>> => /\ stoppingPromise # None
                       /\ stop[stoppingPromise].outcome = "pending"
                       /\ stop[stoppingPromise].timer # "off"

NoServerAlive == \A c \in Requests : os[c] # "alive"

UpgradeWorks(r) ==
  /\ op'[r] = "upgrade" /\ pc[r] \in {"idle", "stopping"}
  /\ pc'[r] = "verifying" \/ result'[r] \in {"leftStopped", "recovered", "notRecovered"}

RestoreWorks(r) == op'[r] = "restore" /\ result[r] # "ok" /\ result'[r] = "ok"

\* Archives are never unpacked over a live server, even if another caller of
\* the same stop has already started a new one; until a kill emits 'error'.
\* Only a restore answered ok counts: one that fails midway is told, and
\* counted here, as one that was refused.
RestoreOnlyWhileDown ==
  [][\A r \in Requests : RestoreWorks(r) => NoServerAlive \/ killErrored]_vars

\* A server that is up while an upgrade works on the tree was started by a
\* request that shared the upgrade's own stop: nothing else slips in between
\* the confirmed exit and the git commands, until a kill emits 'error'.
SharesStop(c, r) == joined[c] # None /\ joined[c] = joined[r]
UpgradeOverlapsOnlyItsBatch ==
  [][\A r, c \in Requests :
       UpgradeWorks(r) /\ os[c] = "alive" => SharesStop(c, r) \/ killErrored]_vars

\* paaw-control.mjs: "never git-pull / npm-install under a live server process".
NeverUpgradeUnderLiveServer ==
  [][\A r \in Requests : UpgradeWorks(r) => NoServerAlive]_vars

\* Every stop settles, by the exit or by the failsafe, and every request gets
\* its reply, unless a rejection ends the admin process.
EveryRequestAnswered ==
  \A r \in Requests : (pc[r] # "idle") ~> (pc[r] = "done" \/ admin = "crashed")

-----------------------------------------------------------------------------
(* The contract this implements                                            *)

Told(s) == IF s = None THEN "none"
           ELSE CASE stop[s].outcome = "ok" -> "stopped"
                  [] stop[s].outcome = "failed" -> "failed"
                  [] OTHER -> "asked"

Contract == INSTANCE ServerContract WITH
              server <- IF killErrored THEN "lost" ELSE IF NoServerAlive THEN "down" ELSE "up",
              answer <- [r \in Requests |-> Told(joined[r])]

ImplementsContract == Contract!Spec
=============================================================================
