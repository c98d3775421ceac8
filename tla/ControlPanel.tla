---------------------------- MODULE ControlPanel ----------------------------
(***************************************************************************)
(* The gateway's local console: the job runner and the shutdown of         *)
(* src/ui/server.mjs, the server child of src/lib/process.mjs, and the     *)
(* settings of GatewayConfig, which move the home that jobs work in.       *)
(*                                                                         *)
(* A child that ends with a code has exitCode set; one that a signal ended *)
(* has signalCode set, and its exitCode stays null.  'exit' is emitted     *)
(* once, when the child ends.  Jobs run one at a time, each in steps       *)
(* between awaits, and a child may end of itself between any two.          *)
(***************************************************************************)
EXTENDS GatewayConfig
CONSTANTS Children,   \* the children one gateway process spawns
          Uploads,    \* upload requests, each made once
          Scenarios   \* which of the children, settings requests and uploads there are

ASSUME NoneAssumption == None \notin Children \cup Homes
ASSUME ScenarioAssumption ==
  Scenarios \subseteq [children : SUBSET Children, requests : SUBSET Requests, uploads : SUBSET Uploads]

VARIABLES job,         \* the active job's kind, or "none"
          step,        \* what it awaits
          jobChild,    \* the child it starts or stops
          jobHome,     \* the home its version directory is in
          paawChild,   \* the registered child, or None
          os,          \* each child's life
          dirs,        \* the homes of each child's version and data
          uploads,     \* each upload request
          gateway,     \* "up", "leaving" while it awaits a child's exit, "gone"
          struck,      \* (observer) a signal that is not the gateway's has ended a child
          moved        \* (observer) the home has moved during the last start, since it took its version

jobVars == <<job, step, jobChild, jobHome, moved>>
childVars == <<paawChild, os, dirs, struck>>
vars == <<configVars, jobVars, childVars, uploads, gateway>>

Jobs == {"start", "stop", "restart", "work"}      \* work: update, upload, semgrep

TypeOK ==
  /\ ConfigTypeOK
  /\ job \in Jobs \cup {"none"}
  /\ step \in {"none", "working", "current", "prepare", "port", "health", "window", "stop", "stuck"}
  /\ jobChild \in Children \cup {None}
  /\ jobHome \in Homes \cup {None}
  /\ paawChild \in Children \cup {None}
  /\ os \in [Children -> {"unborn", "alive", "exited", "signalled"}]
  /\ dirs \in [Children -> [version : Homes, data : Homes] \cup {None}]
  /\ uploads \in [Uploads -> {"arrive", "body", "done"}]
  /\ gateway \in {"up", "leaving", "gone"}
  /\ struck \in BOOLEAN /\ moved \in BOOLEAN

\* What a scenario does not have is over from the start.
Init ==
  \E present \in Scenarios :
  /\ ConfigInit(present.requests)
  /\ job = "none" /\ step = "none"
  /\ jobChild = None /\ jobHome = None
  /\ paawChild = None
  /\ os = [c \in Children |-> IF c \in present.children THEN "unborn" ELSE "exited"]
  /\ dirs = [c \in Children |-> None]
  /\ uploads = [u \in Uploads |-> IF u \in present.uploads THEN "arrive" ELSE "done"]
  /\ gateway = "up"
  /\ struck = FALSE /\ moved = FALSE

ExitCodeNull(c) == os[c] \in {"alive", "signalled"}
PaawRunning == paawChild # None /\ ExitCodeNull(paawChild)

Goto(s) == step' = s /\ UNCHANGED job
EndJob == job' = "none" /\ step' = "none"

-----------------------------------------------------------------------------
(* The jobs                                                                *)

\* Mutant: the look at exitCode is left out.
KillUnchecked(c) == IF os[c] = "alive" THEN "stop" ELSE "stuck"

\* killChild: SIGTERM, SIGKILL after 5 s, and the wait for an 'exit' event,
\* which a child that a signal has ended already does not emit again.
KillChild(c) == CASE os[c] = "alive" -> "stop"
                  [] os[c] = "exited" -> "none"
                  [] os[c] = "signalled" -> "stuck"

\* Mutant: uiStart does not ask whether a child is running.
MayStartAgain == TRUE
MayStart == ~PaawRunning

\* A refused start or stop ends its job at once and changes nothing.
Begin(kind) ==
  /\ job = "none"
  /\ job' = kind
  /\ UNCHANGED <<jobHome, moved, configVars, childVars, uploads, gateway>>
  /\ \/ kind = "work" /\ step' = "working" /\ UNCHANGED jobChild
     \/ kind \in {"start", "restart"} /\ MayStart /\ step' = "current" /\ UNCHANGED jobChild
     \/ /\ kind \in {"stop", "restart"} /\ PaawRunning
        /\ jobChild' = paawChild
        /\ step' = KillChild(paawChild)

JobOnly == UNCHANGED <<configVars, uploads, gateway>>

WorkDone == /\ step = "working"
            /\ EndJob
            /\ UNCHANGED <<jobChild, jobHome, moved, childVars>> /\ JobOnly

\* current.json has been read: its version is looked for in the home of now.
ReadCurrent == /\ step = "current"
               /\ \/ EndJob /\ UNCHANGED jobHome
                  \/ Goto("prepare") /\ jobHome' = cfg.paawHome
               /\ moved' = FALSE
               /\ UNCHANGED <<jobChild, childVars>> /\ JobOnly

\* The data directory, npm install.
Prepare == /\ step = "prepare"
           /\ EndJob \/ Goto("port")
           /\ UNCHANGED <<jobChild, jobHome, moved, childVars>> /\ JobOnly

\* Anyone may answer on the port, and a server that hangs does not.
SpawnIfPortFree ==
  /\ step = "port"
  /\ UNCHANGED <<jobHome, moved, paawChild, struck>> /\ JobOnly
  /\ \/ EndJob /\ UNCHANGED <<jobChild, os, dirs>>         \* occupied, or spawn failed
     \/ \E c \in Children :
          /\ os[c] = "unborn"
          /\ os' = [os EXCEPT ![c] = "alive"]
          /\ dirs' = [dirs EXCEPT ![c] = [version |-> jobHome, data |-> cfg.paawHome]]
          /\ jobChild' = c
          /\ Goto("health")

\* The first of: the server answers, the child ends, 90 seconds.  What
\* waitForHealthy returns is not looked at: 90 seconds without an answer count
\* as one, and only the child's end takes the other path.
Health ==
  /\ step = "health"
  /\ \/ os[jobChild] = "alive" /\ Goto("window")
     \/ /\ os[jobChild] # "alive"
        /\ step' = KillChild(jobChild)
        /\ job' = IF step' = "none" THEN "none" ELSE job
  /\ UNCHANGED <<jobChild, jobHome, moved, childVars>> /\ JobOnly

\* Mutant: the second look at the child, 2.5 s on, is left out.
RegisterAtOnce ==
  /\ step = "window"
  /\ EndJob
  /\ paawChild' = jobChild
  /\ UNCHANGED <<jobChild, jobHome, moved, os, dirs, struck>> /\ JobOnly

Register ==
  /\ step = "window"
  /\ EndJob
  /\ IF ExitCodeNull(jobChild) THEN paawChild' = jobChild ELSE UNCHANGED paawChild
  /\ UNCHANGED <<jobChild, jobHome, moved, os, dirs, struck>> /\ JobOnly

\* Child c ends in one of the ways given.  Its 'exit' handler takes it out of
\* the register, and a gateway that awaits it leaves in the same turn.
Exits(c, ways) ==
  /\ os[c] = "alive"
  /\ \E how \in ways : os' = [os EXCEPT ![c] = how]
  /\ paawChild' = IF paawChild = c THEN None ELSE paawChild
  /\ gateway' = IF gateway = "leaving" /\ paawChild = c THEN "gone" ELSE gateway
  /\ UNCHANGED <<jobVars, dirs, configVars, uploads>>

\* Mutant: the end is noted under the signal's name.
KilledBySignal ==
  /\ step = "stop"
  /\ Exits(jobChild, {"exited", "SIGTERM"})
  /\ UNCHANGED struck

\* SIGTERM, or SIGKILL after it, ends the child that the job awaits.
Killed ==
  /\ step = "stop"
  /\ Exits(jobChild, {"exited", "signalled"})
  /\ UNCHANGED struck

\* Mutant: the 5 s timer settles the stop, not the 'exit'.
StoppedByTimer ==
  /\ step = "stop"
  /\ IF job = "restart" THEN Goto("current") ELSE EndJob
  /\ paawChild' = None
  /\ UNCHANGED <<jobChild, jobHome, moved, os, dirs, struck>> /\ JobOnly

\* The 'exit' killChild waited for has come.
Stopped ==
  /\ step = "stop"
  /\ os[jobChild] # "alive"
  /\ IF job = "restart" THEN Goto("current") ELSE EndJob
  /\ paawChild' = None
  /\ UNCHANGED <<jobChild, jobHome, moved, os, dirs, struck>> /\ JobOnly

JobStep == \/ WorkDone \/ ReadCurrent \/ Prepare \/ SpawnIfPortFree \/ Health
           \/ Register \/ Killed \/ Stopped

\* A child ends of itself, or by a signal that is not the gateway's.
Die(c) ==
  /\ Exits(c, {"exited", "signalled"})
  /\ struck' = (struck \/ os'[c] = "signalled")

-----------------------------------------------------------------------------
(* Requests that await their body, and the end                             *)

\* The settings route looks for a job before it awaits the body, not after.
Settings(r) ==
  /\ UNCHANGED <<job, step, jobChild, jobHome, childVars, uploads, gateway>>
  /\ \/ job = "none" /\ AwaitBody(r) /\ UNCHANGED moved
     \/ /\ ApplySettings(r, PaawRunning)
        /\ moved' = (moved \/ (job \in {"start", "restart"} /\ cfg'.paawHome # cfg.paawHome))
     \/ SaveGatewayCfg(r) /\ UNCHANGED moved

\* So does the upload route; runJob then drops an upload that finds a job
\* active, and the answer is 202 all the same.
Upload(u) ==
  /\ UNCHANGED <<jobChild, jobHome, moved, childVars, configVars, gateway>>
  /\ \/ /\ uploads[u] = "arrive" /\ job = "none"
        /\ uploads' = [uploads EXCEPT ![u] = "body"]
        /\ UNCHANGED <<job, step>>
     \/ /\ uploads[u] = "body"
        /\ uploads' = [uploads EXCEPT ![u] = "done"]
        /\ \/ UNCHANGED <<job, step>>                \* dropped; or empty or too big
           \/ job = "none" /\ job' = "work" /\ step' = "working"

\* Mutant: the gateway exits without waiting for its child.
LeaveAtOnce ==
  /\ gateway = "up" /\ gateway' = "gone"
  /\ UNCHANGED <<configVars, jobVars, childVars, uploads>>

\* SIGINT or SIGTERM: the registered child is killed and awaited.
Leave ==
  /\ gateway = "up"
  /\ gateway' = IF PaawRunning THEN "leaving" ELSE "gone"
  /\ UNCHANGED <<configVars, jobVars, childVars, uploads>>

\* The child the gateway awaits ends of its SIGTERM or SIGKILL.
KilledByBye ==
  /\ gateway = "leaving" /\ paawChild # None
  /\ Exits(paawChild, {"exited", "signalled"})
  /\ UNCHANGED struck

Next == \/ /\ gateway # "gone"
           /\ \/ \E kind \in Jobs : Begin(kind)
              \/ JobStep
              \/ \E r \in Requests : Settings(r)
              \/ \E u \in Uploads : Upload(u)
              \/ Leave \/ KilledByBye
        \/ \E c \in Children : Die(c)

Spec == Init /\ [][Next]_vars

\* Timers fire, fetches answer or time out, SIGKILL ends a child.
FairSpec == /\ Spec
            /\ WF_vars(gateway # "gone" /\ JobStep)
            /\ WF_vars(KilledByBye)

-----------------------------------------------------------------------------
(* Properties                                                              *)

\* The gateway never has two servers alive, also when one hangs and does not
\* answer on its port: a restart spawns only after the old child's exit.
OneLiveChild ==
  \A c, d \in Children : os[c] = "alive" /\ os[d] = "alive" => c = d

\* No server is left behind: one that is alive is registered, or the running
\* job has it in hand.
LiveChildTracked ==
  \A c \in Children : os[c] = "alive" => c = paawChild \/ (job # "none" /\ c = jobChild)

\* A child that ended with a code is not shown as running, however its end
\* falls into the health check, the window of 2.5 s and the registration.
NoExitedChildRegistered == paawChild # None => os[paawChild] # "exited"

\* A server runs the version and on the data of the home the gateway shows,
\* unless settings moved the home while its start was under way: a home is not
\* moved under a registered server, however the request and the start overlap.
OneHome ==
  paawChild # None /\ ~moved =>
    dirs[paawChild] = [version |-> cfg.paawHome, data |-> cfg.paawHome]

\* A gateway that leaves takes its server along ("Ctrl+C stops PAAW too"): one
\* that a start has not registered yet is the only that may stay.
ExitTakesServerAlong ==
  gateway = "gone" =>
    \A c \in Children : os[c] = "alive" => job \in {"start", "restart"} /\ c = jobChild /\ c # paawChild

\* A job always ends, and the console takes the next one; a gateway told to
\* leave does; as long as no signal from outside ends a child.
NothingHangsUnlessStruck ==
  /\ job # "none" ~> job = "none" \/ gateway = "gone" \/ struck
  /\ gateway = "leaving" ~> gateway = "gone" \/ struck

\* Its safety half: until such a signal, whatever awaits an 'exit' event awaits
\* one that is still to come, whenever children die of themselves meanwhile.
AwaitedExitIsToCome ==
  ~struck => /\ step # "stuck"
             /\ gateway = "leaving" => paawChild # None /\ os[paawChild] = "alive"

\* And what comes of the other case: a job that awaits an 'exit' that has been
\* never ends, and the console never takes another.
StuckForGood == [][step = "stuck" => step' = "stuck" /\ job' = job]_vars

\* Also when one does: process.mjs means to notice a child that dies early
\* ("spawn error and exit both count as dead").
JobsEnd == job # "none" ~> job = "none" \/ gateway = "gone"
=============================================================================
