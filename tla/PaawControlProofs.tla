-------------------------- MODULE PaawControlProofs --------------------------
(***************************************************************************)
(* Theorems about PaawControl, for any set of requests and any outcome of  *)
(* spawn and of child.kill.                                                *)
(***************************************************************************)
EXTENDS PaawControl, SequenceTheorems, TLAPS

-----------------------------------------------------------------------------
(* Type correctness                                                        *)

\* startPaaw keeps the types of the lifecycle variables.
LEMMA StartTypes ==
  ASSUME TypeOK, NEW r \in Requests, NEW res, StartPaaw(r, res)
  PROVE  /\ paawProcess' \in Requests \cup {None}
         /\ paawStatus' \in {"stopped", "starting", "running", "crashed"}
         /\ os' \in [Requests -> ChildStates]
<1>1. CASE UNCHANGED lifecycle
  BY <1>1 DEF TypeOK, lifecycle
<1>2. CASE \E how \in SpawnOutcomes : Spawn(r, how)
  BY <1>2 DEF TypeOK, Spawn, ChildStates
<1> QED BY <1>1, <1>2 DEF StartPaaw

\* A request that goes on leaves everything well typed, and is no longer idle
\* or waiting unless it brought the process down without having started a child.
LEMMA ProceedTypes ==
  ASSUME TypeOK, NEW r \in Requests, NEW o \in Ops, Proceed(r, o)
  PROVE  /\ admin' \in {"up", "crashed"}
         /\ paawProcess' \in Requests \cup {None}
         /\ paawStatus' \in {"stopped", "starting", "running", "crashed"}
         /\ os' \in [Requests -> ChildStates]
         /\ pc' \in [Requests -> {"idle", "stopping", "verifying", "probing", "done"}]
         /\ result' \in [Requests -> Results]
<1> USE DEF TypeOK
<1>1. CASE PlainStart(r)
  <2>1. PICK res \in StartResults :
          /\ StartPaaw(r, res)
          /\ \/ admin' = "crashed" /\ UNCHANGED <<pc, result>>
             \/ Reply(r, res) /\ UNCHANGED admin /\ res # "throws"
    BY <1>1 DEF PlainStart
  <2>2. /\ paawProcess' \in Requests \cup {None}
        /\ paawStatus' \in {"stopped", "starting", "running", "crashed"}
        /\ os' \in [Requests -> ChildStates]
    BY <2>1, StartTypes
  <2>3. CASE admin' = "crashed" /\ UNCHANGED <<pc, result>>
    BY <2>2, <2>3
  <2>4. CASE Reply(r, res) /\ UNCHANGED admin /\ res # "throws"
    <3>1. res \in Results
      BY <2>4 DEF StartResults, Results
    <3> QED BY <2>2, <2>4, <3>1 DEF Reply
  <2> QED BY <2>1, <2>3, <2>4
<1>2. CASE UpgradeWork(r)
  <2>1. CASE Reply(r, "leftStopped") /\ UNCHANGED lifecycle
    BY <1>2, <2>1 DEF UpgradeWork, Reply, Results, lifecycle
  <2>2. CASE \E res \in StartResults :
               /\ StartPaaw(r, res)
               /\ \/ \E word \in {"notRecovered", "recovered"} : Reply(r, word)
                  \/ pc' = [pc EXCEPT ![r] = "verifying"] /\ UNCHANGED result
    BY <1>2, <2>2, StartTypes DEF UpgradeWork, Reply, Results
  <2> QED BY <1>2, <2>1, <2>2 DEF UpgradeWork
<1>3. CASE RestoreBackup(r)
  BY <1>3, StartTypes DEF RestoreBackup, Reply, Results, lifecycle
<1>4. CASE o = "stop" /\ Reply(r, IF joined[r] = None THEN "refused" ELSE "ok")
           /\ UNCHANGED <<admin, lifecycle>>
  BY <1>4 DEF Reply, Results, lifecycle
<1> QED BY <1>1, <1>2, <1>3, <1>4 DEF Proceed

\* finish() keeps the types of all it writes.
LEMMA FinishTypes ==
  ASSUME TypeOK, NEW s \in Requests, NEW ok \in BOOLEAN, Finish(s, ok)
  PROVE  /\ paawStatus' \in {"stopped", "starting", "running", "crashed"}
         /\ stoppingPromise' \in Requests \cup {None}
         /\ stop' \in [Requests -> StopRecords]
         /\ terminal' \in [Requests -> Nat]
         /\ waiting' \in Seq(Requests)
         /\ resume' \in Seq(Requests)
<1>1. resume' \in Seq(Requests)
  BY ConcatProperties DEF TypeOK, Finish, Settle
<1>2. waiting' \in Seq(Requests)
  BY DEF Finish, Settle
<1>3. stop' \in [Requests -> StopRecords]
  <2>1. Settled(stop[s], ok) \in StopRecords
    BY DEF TypeOK, StopRecords, Settled
  <2> QED BY <2>1 DEF TypeOK, Finish, Settle
<1>4. terminal' \in [Requests -> Nat]
  BY DEF TypeOK, Finish, Settle
<1>5. paawStatus' \in {"stopped", "starting", "running", "crashed"} /\ stoppingPromise' = None
  BY DEF Finish, Settle
<1>6. QED BY <1>1, <1>2, <1>3, <1>4, <1>5

\* stopPaaw keeps the types of all it writes, joined or begun.
LEMMA StopTypes ==
  ASSUME TypeOK, NEW r \in Requests, paawProcess # None, StopPaaw(r)
  PROVE  /\ paawProcess' \in Requests \cup {None}
         /\ paawStatus' \in {"stopped", "starting", "running", "crashed"}
         /\ os' \in [Requests -> ChildStates]
         /\ stoppingPromise' \in Requests \cup {None}
         /\ stop' \in [Requests -> StopRecords]
         /\ terminal' \in [Requests -> Nat]
         /\ joined' \in [Requests -> Requests \cup {None}]
         /\ waiting' \in Seq(Requests)
         /\ resume' \in Seq(Requests)
         /\ killErrored' \in BOOLEAN
<1>1. Append(waiting, r) \in Seq(Requests) /\ Append(resume, r) \in Seq(Requests)
  BY AppendProperties DEF TypeOK
<1>2. CASE JoinStop(r)
  BY <1>1, <1>2 DEF TypeOK, JoinStop, lifecycle
<1>3. CASE BeginStop(r)
  <2>1. /\ stoppingPromise' \in Requests /\ os' = os
        /\ joined' \in [Requests -> Requests \cup {None}]
    BY <1>3 DEF TypeOK, BeginStop
  <2>2. waiting' \in Seq(Requests) /\ resume' \in Seq(Requests)
    BY <1>1, <1>3 DEF TypeOK, BeginStop
  <2>3. terminal' \in [Requests -> Nat]
    <3>1. \E n \in {terminal[r], terminal[r] + 1} : terminal' = [terminal EXCEPT ![r] = n]
      BY <1>3 DEF BeginStop, TypeOK
    <3> QED BY <3>1 DEF TypeOK
  <2>4. /\ paawProcess' \in {paawProcess, None} /\ paawStatus' \in {paawStatus, "crashed"}
        /\ killErrored' \in {killErrored, TRUE}
    BY <1>3 DEF BeginStop
  <2>5. stop' \in [Requests -> StopRecords]
    <3>1. PICK b \in {Begun("pending", "grace"), Begun("failed", "off")} :
            stop' = [stop EXCEPT ![r] = b]
      BY <1>3 DEF BeginStop
    <3>2. b \in StopRecords
      BY DEF TypeOK, StopRecords, Begun
    <3> QED BY <3>1, <3>2 DEF TypeOK
  <2> QED BY <2>1, <2>2, <2>3, <2>4, <2>5 DEF TypeOK
<1> QED BY <1>2, <1>3 DEF StopPaaw

\* Every step keeps the types.
LEMMA TypeStep == TypeOK /\ [Next]_vars => TypeOK'
<1> SUFFICES ASSUME TypeOK, [Next]_vars PROVE TypeOK'
  OBVIOUS
<1>1. CASE UNCHANGED vars
  BY <1>1 DEF TypeOK, vars, lifecycle, stopping, requests
<1>2. ASSUME NEW r \in Requests, NEW o \in Ops, Handle(r, o) PROVE TypeOK'
  <2>1. op' \in [Requests -> Ops \cup {"none"}]
    BY <1>2 DEF Handle, TypeOK
  <2>2. CASE Proceed(r, o) /\ UNCHANGED <<stopping, joined, resume, killErrored>>
    <3>1. /\ stoppingPromise' = stoppingPromise /\ stop' = stop /\ terminal' = terminal
          /\ waiting' = waiting /\ joined' = joined /\ resume' = resume
          /\ killErrored' = killErrored
      BY <2>2 DEF stopping
    <3> QED BY <2>1, <2>2, <3>1, ProceedTypes DEF TypeOK
  <2>3. CASE /\ paawProcess # None
             /\ StopPaaw(r)
             /\ pc' = [pc EXCEPT ![r] = "stopping"]
             /\ UNCHANGED <<admin, result>>
    <3>1. /\ pc' \in [Requests -> {"idle", "stopping", "verifying", "probing", "done"}]
          /\ admin' \in {"up", "crashed"} /\ result' \in [Requests -> Results]
      BY <2>3 DEF TypeOK
    <3> QED BY <2>1, <2>3, <3>1, StopTypes DEF TypeOK
  <2> QED BY <1>2, <2>2, <2>3 DEF Handle
<1>3. ASSUME NEW r \in Requests, Resume(r) PROVE TypeOK'
  <2>1. resume' \in Seq(Requests)
    BY <1>3, HeadTailProperties DEF Resume, TypeOK
  <2>2. /\ stoppingPromise' = stoppingPromise /\ stop' = stop /\ terminal' = terminal
        /\ waiting' = waiting /\ joined' = joined /\ op' = op /\ killErrored' = killErrored
    BY <1>3 DEF Resume, stopping
  <2>3. CASE Proceed(r, op[r])
    <3>1. op[r] \in Ops
      BY <2>3 DEF Proceed, TypeOK, Ops
    <3> QED BY <2>1, <2>2, <2>3, <3>1, ProceedTypes DEF TypeOK
  <2>4. CASE Reply(r, "stopFailed") /\ UNCHANGED <<admin, lifecycle>>
    BY <2>1, <2>2, <2>4 DEF TypeOK, Reply, Results, lifecycle
  <2> QED BY <1>3, <2>3, <2>4 DEF Resume
<1>4. ASSUME NEW c \in Requests, Die(c) PROVE TypeOK'
  BY <1>4 DEF Die, TypeOK, ChildStates, stopping, requests
<1>5. ASSUME NEW c \in Requests, SpawnError(c) PROVE TypeOK'
  BY <1>5 DEF SpawnError, TypeOK, ChildStates, stopping, requests
<1>6. ASSUME NEW c \in Requests, ExitEvent(c) PROVE TypeOK'
  <2>1. /\ os' \in [Requests -> ChildStates] /\ paawProcess' = None
        /\ admin' = admin /\ op' = op /\ pc' = pc /\ result' = result /\ joined' = joined
        /\ killErrored' = killErrored
    BY <1>6 DEF ExitEvent, TypeOK, ChildStates, requests
  <2>2. CASE /\ paawStatus' \in {"stopped", "crashed"}
             /\ UNCHANGED <<stopping, resume>>
    BY <2>1, <2>2 DEF TypeOK, stopping
  <2>3. ASSUME NEW s \in Requests, Finish(s, TRUE) PROVE TypeOK'
    BY <2>1, <2>3, FinishTypes DEF TypeOK
  <2> QED BY <1>6, <2>2, <2>3 DEF ExitEvent, Listeners
<1>7. ASSUME NEW s \in Requests, SigkillTimer(s) PROVE TypeOK'
  <2>1. /\ admin' = admin /\ os' = os
        /\ op' = op /\ pc' = pc /\ result' = result /\ joined' = joined
    BY <1>7 DEF SigkillTimer, requests
  <2>2. CASE Finish(s, FALSE) /\ UNCHANGED <<paawProcess, killErrored>>
    BY <2>1, <2>2, FinishTypes DEF TypeOK
  <2>3. CASE /\ stop' = [stop EXCEPT ![s].timer = "last"]
             /\ UNCHANGED <<stoppingPromise, terminal, waiting, resume>>
             /\ paawProcess' \in {paawProcess, None} /\ paawStatus' \in {paawStatus, "crashed"}
             /\ killErrored' \in {killErrored, TRUE}
    <3>1. stop' \in [Requests -> StopRecords]
      BY <2>3 DEF TypeOK, StopRecords
    <3> QED BY <2>1, <2>3, <3>1 DEF TypeOK
  <2> QED BY <1>7, <2>2, <2>3 DEF SigkillTimer
<1>8. ASSUME NEW s \in Requests, FailsafeTimer(s) PROVE TypeOK'
  BY <1>8, FinishTypes DEF FailsafeTimer, TypeOK, requests
<1>9. ASSUME NEW r \in Requests, VerifyUpgrade(r) \/ HealthAnswer(r) PROVE TypeOK'
  BY <1>9 DEF VerifyUpgrade, HealthAnswer, TypeOK, Reply, Results, lifecycle, stopping
<1> QED
  BY <1>1, <1>2, <1>3, <1>4, <1>5, <1>6, <1>7, <1>8, <1>9 DEF Next, Task

\* The process manager starts well typed.
LEMMA TypeInit == Init => TypeOK
<1> SUFFICES ASSUME Init PROVE TypeOK
  OBVIOUS
<1>1. killErrored \in BOOLEAN
  BY DEF Init
<1>2. stop \in [Requests -> StopRecords] /\ waiting \in Seq(Requests) /\ resume \in Seq(Requests)
  BY DEF Init, StopRecords, NoStop
<1> QED BY <1>1, <1>2 DEF Init, TypeOK, ChildStates, Results

\* The variables of the process manager keep their types.
THEOREM TypeCorrect == Spec => []TypeOK
BY TypeInit, TypeStep, PTL DEF Spec

-----------------------------------------------------------------------------
(* The safety invariants.  None of them is inductive alone: a confirmed    *)
(* stop stays confirmed because a child's name is used once, a late exit   *)
(* may not settle a stop twice because timers run only under a pending     *)
(* promise, and only one promise is pending at a time.  All of it holds    *)
(* however child.kill turns out; only that every child that may live has   *)
(* its handle held ends with a kill that emits 'error'.                    *)

\* A pending stop is the one whose promise is shared.
PendingIsShared ==
  \A s \in Requests : stop[s].outcome = "pending" => stoppingPromise = s

\* A timer runs exactly while the promise is pending, and a stop that began has
\* a child.
StopsWellFormed ==
  \A s \in Requests : /\ stop[s].timer # "off" <=> stop[s].outcome = "pending"
                      /\ stop[s].outcome # "none" => stop[s].proc \in Requests

\* A request that has not gone on has spawned nothing, and one that has not
\* been taken up has stopped nothing.
NamesUnused ==
  \A r \in Requests : /\ pc[r] \in {"idle", "stopping"} => os[r] = "none"
                      /\ pc[r] = "idle" => stop[r] = NoStop

StopInv == ConfirmedStop /\ OneTerminalEvent /\ PendingIsShared /\ StopsWellFormed
LifeInv == HandleOwnsServer /\ StatusAgreesWithHandle
IInv == TypeOK /\ LifeInv /\ StopInv /\ NamesUnused

\* startPaaw, called for a request that has spawned nothing yet.
LEMMA StartKeeps ==
  ASSUME IInv, NEW r \in Requests, NEW res, StartPaaw(r, res), os[r] = "none",
         UNCHANGED killErrored
  PROVE  /\ LifeInv'
         /\ \A c \in Requests : c # r => os'[c] = os[c]
         /\ res = "throws" => os'[r] = "none"
<1> USE DEF IInv, LifeInv, TypeOK, HandleOwnsServer, MayLive, StatusAgreesWithHandle
<1>1. CASE UNCHANGED lifecycle /\ res = "already"
  BY <1>1 DEF lifecycle
<1>2. ASSUME paawProcess = None, NEW how \in SpawnOutcomes, Spawn(r, how), res = SpawnResult(how)
      PROVE  /\ LifeInv'
             /\ \A c \in Requests : c # r => os'[c] = os[c]
             /\ res = "throws" => os'[r] = "none"
  <2>1. killErrored \/ \A c \in Requests : os[c] \notin {"unborn", "alive", "dead"}
    BY <1>2, NoneAssumption
  <2>2. CASE how \in {"alive", "enoent"}
    <3>1. /\ paawProcess' = r /\ paawStatus' = "running"
          /\ os'[r] \in {"alive", "unborn"}
          /\ \A c \in Requests : c # r => os'[c] = os[c]
      BY <1>2, <2>2 DEF Spawn
    <3> QED BY <1>2, <2>1, <2>2, <3>1, NoneAssumption DEF SpawnResult
  <2>3. CASE how = "throws"
    BY <1>2, <2>1, <2>3, NoneAssumption DEF Spawn
  <2> QED BY <2>2, <2>3, <1>2, OutcomesAssumption
<1> QED BY <1>1, <1>2 DEF StartPaaw

\* What a request does once nothing is in its way.
LEMMA ProceedKeeps ==
  ASSUME IInv, NEW r \in Requests, NEW o \in Ops, Proceed(r, o), os[r] = "none",
         UNCHANGED killErrored
  PROVE  /\ LifeInv'
         /\ \A c \in Requests : c # r => os'[c] = os[c] /\ pc'[c] = pc[c]
         /\ (pc'[r] = pc[r] /\ os'[r] = "none") \/ pc'[r] \in {"done", "verifying"}
<1> USE DEF IInv, TypeOK
<1>1. CASE UNCHANGED lifecycle /\ \E word \in Results : Reply(r, word)
  <2>1. UNCHANGED lifecycle /\ UNCHANGED killErrored
    BY <1>1
  <2> QED BY <1>1, <2>1 DEF lifecycle, Reply, LifeInv, HandleOwnsServer, MayLive,
                           StatusAgreesWithHandle
<1>2. ASSUME NEW res \in StartResults, StartPaaw(r, res),
             \/ res = "throws" /\ UNCHANGED pc
             \/ pc' = [pc EXCEPT ![r] = "done"]
             \/ pc' = [pc EXCEPT ![r] = "verifying"]
      PROVE  /\ LifeInv'
             /\ \A c \in Requests : c # r => os'[c] = os[c] /\ pc'[c] = pc[c]
             /\ (pc'[r] = pc[r] /\ os'[r] = "none") \/ pc'[r] \in {"done", "verifying"}
  BY <1>2, StartKeeps
<1>3. CASE PlainStart(r)
  BY <1>2, <1>3 DEF PlainStart, Reply
<1>4. CASE UpgradeWork(r)
  BY <1>1, <1>2, <1>4 DEF UpgradeWork, Reply, Results
<1>5. CASE RestoreBackup(r)
  BY <1>1, <1>2, <1>5 DEF RestoreBackup, Reply, Results
<1>6. CASE UNCHANGED lifecycle /\ Reply(r, IF joined[r] = None THEN "refused" ELSE "ok")
  BY <1>1, <1>6 DEF Results
<1> QED BY <1>3, <1>4, <1>5, <1>6 DEF Proceed

\* Steps that leave the stops alone and bring no reaped child back.
LEMMA StopsUntouched ==
  ASSUME StopInv, stop' = stop, terminal' = terminal, stoppingPromise' = stoppingPromise,
         \A c \in Requests : os[c] = "reaped" => os'[c] = "reaped"
  PROVE  StopInv'
BY DEF StopInv, ConfirmedStop, OneTerminalEvent, PendingIsShared, StopsWellFormed

\* finish(), called while the promise is pending.
LEMMA FinishKeeps ==
  ASSUME IInv, NEW s \in Requests, NEW ok \in BOOLEAN, Finish(s, ok),
         stop[s].outcome = "pending",
         \A c \in Requests : os[c] = "reaped" => os'[c] = "reaped",
         ok => os'[stop[s].proc] = "reaped"
  PROVE  /\ StopInv'
         /\ \A q \in Requests : q # s => stop'[q] = stop[q]
         /\ paawStatus' = IF ok THEN "stopped" ELSE "crashed"
<1> USE DEF IInv, TypeOK
<1>1. /\ \A q \in Requests : q # s => stop'[q] = stop[q] /\ terminal'[q] = terminal[q]
      /\ terminal'[s] = terminal[s] + 1
      /\ stop'[s] = Settled(stop[s], ok)
      /\ paawStatus' = IF ok THEN "stopped" ELSE "crashed"
  BY DEF Finish, Settle
<1>2. stop[s] \in StopRecords
  OBVIOUS
<1>3. /\ \/ stop'[s].outcome = "ok" /\ os'[stop[s].proc] = "reaped"
         \/ stop'[s].outcome = "failed"
      /\ stop'[s].timer = "off"
      /\ stop'[s].proc = stop[s].proc
  <2>1. CASE ok = TRUE
    BY <1>1, <1>2, <2>1 DEF StopRecords, Settled
  <2>2. CASE ok = FALSE
    BY <1>1, <1>2, <2>2 DEF StopRecords, Settled
  <2> QED BY <2>1, <2>2
<1> HIDE DEF TypeOK, IInv
<1>i. StopInv
  BY DEF IInv
<1>4. ConfirmedStop'
  <2> SUFFICES ASSUME NEW q \in Requests, stop'[q].outcome = "ok"
               PROVE  os'[stop'[q].proc] = "reaped"
    BY DEF ConfirmedStop
  <2>1. CASE q = s
    BY <1>3, <2>1
  <2>2. CASE q # s
    BY <1>1, <1>i, <2>2 DEF StopInv, ConfirmedStop, StopsWellFormed
  <2> QED BY <2>1, <2>2
<1>5. OneTerminalEvent'
  <2> SUFFICES ASSUME NEW q \in Requests
               PROVE  terminal'[q] = IF stop'[q].outcome \in {"ok", "failed"} THEN 1 ELSE 0
    BY DEF OneTerminalEvent
  <2>1. CASE q = s
    BY <1>1, <1>3, <1>i, <2>1 DEF StopInv, OneTerminalEvent
  <2>2. CASE q # s
    BY <1>1, <1>i, <2>2 DEF StopInv, OneTerminalEvent
  <2> QED BY <2>1, <2>2
<1>6. PendingIsShared'
  BY <1>1, <1>3, <1>i DEF StopInv, PendingIsShared
<1>7. StopsWellFormed'
  <2> SUFFICES ASSUME NEW q \in Requests
               PROVE  /\ stop'[q].timer # "off" <=> stop'[q].outcome = "pending"
                      /\ stop'[q].outcome # "none" => stop'[q].proc \in Requests
    BY DEF StopsWellFormed
  <2>1. CASE q = s
    BY <1>3, <1>i, <2>1 DEF StopInv, StopsWellFormed
  <2>2. CASE q # s
    BY <1>1, <1>i, <2>2 DEF StopInv, StopsWellFormed
  <2> QED BY <2>1, <2>2
<1> QED BY <1>1, <1>4, <1>5, <1>6, <1>7 DEF StopInv

\* stopPaaw, joined or begun, by a request that has stopped nothing before.
LEMMA StopKeeps ==
  ASSUME IInv, NEW r \in Requests, paawProcess # None, StopPaaw(r),
         stop[r] = NoStop
  PROVE  LifeInv' /\ StopInv' /\ \A q \in Requests : q # r => stop'[q] = stop[q]
<1> USE DEF IInv
<1>1. CASE JoinStop(r)
  <2>1. LifeInv'
    BY <1>1 DEF JoinStop, lifecycle, LifeInv, HandleOwnsServer, MayLive, StatusAgreesWithHandle
  <2> QED BY <1>1, <2>1, StopsUntouched DEF JoinStop, lifecycle
<1>2. CASE BeginStop(r) /\ stoppingPromise = None
  <2>1. /\ os' = os /\ stoppingPromise' = r
        /\ \/ /\ paawProcess' = paawProcess /\ killErrored' = killErrored
              /\ paawStatus' \in {paawStatus, "crashed"}
           \/ paawProcess' = None /\ paawStatus' = "crashed" /\ killErrored'
    BY <1>2 DEF BeginStop
  <2>2. LifeInv'
    BY <2>1, NoneAssumption DEF LifeInv, HandleOwnsServer, MayLive, StatusAgreesWithHandle
  <2>3. \A q \in Requests : q # r => stop'[q] = stop[q] /\ terminal'[q] = terminal[q]
    BY <1>2 DEF BeginStop, TypeOK
  <2>4. stop[r].outcome = "none" /\ terminal[r] = 0
    BY DEF NoStop, StopInv, OneTerminalEvent
  <2>5. \/ stop'[r] = Begun("pending", "grace") /\ terminal'[r] = 0
        \/ stop'[r] = Begun("failed", "off") /\ terminal'[r] = 1
    BY <1>2, <2>4 DEF BeginStop, TypeOK
  <2>6. /\ stop'[r].proc \in Requests
        /\ \/ /\ stop'[r].outcome = "pending"
              /\ terminal'[r] = 0
              /\ stop'[r].timer = "grace"
           \/ /\ stop'[r].outcome = "failed"
              /\ terminal'[r] = 1
              /\ stop'[r].timer = "off"
    <3>1. paawProcess \in Requests
      BY DEF TypeOK
    <3>2. CASE stop'[r] = Begun("pending", "grace") /\ terminal'[r] = 0
      BY <3>1, <3>2 DEF Begun
    <3>3. CASE stop'[r] = Begun("failed", "off") /\ terminal'[r] = 1
      BY <3>1, <3>3 DEF Begun
    <3> QED BY <2>5, <3>2, <3>3
  <2>7. \A q \in Requests : stop[q].outcome # "pending"
    BY <1>2, NoneAssumption DEF StopInv, PendingIsShared
  <2>8. ConfirmedStop' /\ OneTerminalEvent' /\ PendingIsShared' /\ StopsWellFormed'
    <3>1. ConfirmedStop'
      BY <2>1, <2>3, <2>6 DEF StopInv, ConfirmedStop
    <3>2. OneTerminalEvent'
      BY <2>3, <2>6 DEF StopInv, OneTerminalEvent
    <3>3. PendingIsShared'
      BY <2>1, <2>3, <2>7 DEF PendingIsShared
    <3>4. StopsWellFormed'
      BY <2>3, <2>6 DEF StopInv, StopsWellFormed
    <3> QED BY <3>1, <3>2, <3>3, <3>4
  <2> QED BY <2>2, <2>3, <2>8 DEF StopInv
<1> QED BY <1>1, <1>2 DEF StopPaaw

\* A request that goes on, fresh or resumed, keeps the whole invariant.
LEMMA ProceedInv ==
  ASSUME IInv, TypeOK', NEW r \in Requests, NEW o \in Ops, Proceed(r, o),
         UNCHANGED <<stopping, killErrored>>, pc[r] \in {"idle", "stopping"}
  PROVE  IInv'
<1>1. os[r] = "none"
  BY DEF IInv, NamesUnused
<1>2. /\ LifeInv'
      /\ \A c \in Requests : c # r => os'[c] = os[c] /\ pc'[c] = pc[c]
      /\ (pc'[r] = pc[r] /\ os'[r] = "none") \/ pc'[r] \in {"done", "verifying"}
  BY <1>1, ProceedKeeps
<1>3. stop' = stop /\ terminal' = terminal /\ stoppingPromise' = stoppingPromise
  BY DEF stopping
<1>4. StopInv'
  BY <1>1, <1>2, <1>3, StopsUntouched DEF IInv
<1>5. NamesUnused'
  BY <1>2, <1>3 DEF IInv, NamesUnused
<1> QED BY <1>2, <1>4, <1>5 DEF IInv

\* Every step keeps the invariant.
LEMMA InductiveStep == IInv /\ [Next]_vars => IInv'
<1> SUFFICES ASSUME IInv, [Next]_vars PROVE IInv'
  OBVIOUS
<1>0. TypeOK /\ LifeInv /\ StopInv /\ NamesUnused /\ TypeOK'
  BY TypeStep DEF IInv
<1>1. CASE UNCHANGED vars
  BY <1>0, <1>1 DEF IInv, vars, lifecycle, stopping, requests, LifeInv, StopInv, NamesUnused,
       HandleOwnsServer, MayLive, StatusAgreesWithHandle, ConfirmedStop, OneTerminalEvent,
       PendingIsShared, StopsWellFormed
<1>2. ASSUME NEW r \in Requests, NEW o \in Ops, Handle(r, o) PROVE IInv'
  <2>1. CASE Proceed(r, o) /\ UNCHANGED <<stopping, joined, resume, killErrored>>
    BY <1>0, <1>2, <2>1, ProceedInv DEF Handle
  <2>2. CASE /\ paawProcess # None
             /\ StopPaaw(r)
             /\ pc' = [pc EXCEPT ![r] = "stopping"]
    <3>1. pc[r] = "idle" /\ stop[r] = NoStop /\ os[r] = "none"
      BY <1>0, <1>2 DEF Handle, NamesUnused
    <3>2. LifeInv' /\ StopInv' /\ \A q \in Requests : q # r => stop'[q] = stop[q]
      BY <2>2, <3>1, StopKeeps
    <3>3. os' = os
      BY <2>2 DEF StopPaaw, JoinStop, BeginStop, lifecycle
    <3>4. NamesUnused'
      BY <1>0, <2>2, <3>1, <3>2, <3>3 DEF NamesUnused, TypeOK
    <3> QED BY <1>0, <3>2, <3>4 DEF IInv
  <2> QED BY <1>2, <2>1, <2>2 DEF Handle
<1>3. ASSUME NEW r \in Requests, Resume(r) PROVE IInv'
  <2>1. pc[r] = "stopping" /\ UNCHANGED <<stopping, killErrored>>
    BY <1>3 DEF Resume
  <2>2. CASE Proceed(r, op[r])
    <3>1. op[r] \in Ops
      BY <1>0, <2>2 DEF Proceed, TypeOK, Ops
    <3> QED BY <1>0, <2>1, <2>2, <3>1, ProceedInv
  <2>3. CASE Reply(r, "stopFailed") /\ UNCHANGED <<admin, lifecycle>>
    <3>1. LifeInv'
      BY <1>0, <2>1, <2>3 DEF lifecycle, LifeInv, HandleOwnsServer, MayLive, StatusAgreesWithHandle
    <3>2. StopInv'
      BY <1>0, <2>1, <2>3, StopsUntouched DEF lifecycle, stopping
    <3>3. NamesUnused'
      BY <1>0, <2>1, <2>3 DEF lifecycle, stopping, Reply, NamesUnused, TypeOK
    <3> QED BY <1>0, <3>1, <3>2, <3>3 DEF IInv
  <2> QED BY <1>3, <2>2, <2>3 DEF Resume
<1>4. ASSUME NEW c \in Requests, Die(c) PROVE IInv'
  <2>1. /\ os[c] = "alive" /\ os'[c] = "dead"
        /\ \A d \in Requests : d # c => os'[d] = os[d]
        /\ paawProcess' = paawProcess /\ paawStatus' = paawStatus
        /\ stop' = stop /\ terminal' = terminal /\ stoppingPromise' = stoppingPromise
        /\ pc' = pc /\ killErrored' = killErrored
    BY <1>0, <1>4 DEF Die, TypeOK, stopping, requests
  <2>2. LifeInv'
    BY <1>0, <2>1 DEF LifeInv, HandleOwnsServer, MayLive, StatusAgreesWithHandle
  <2>3. StopInv'
    BY <1>0, <2>1, StopsUntouched
  <2>4. NamesUnused'
    BY <1>0, <2>1 DEF NamesUnused
  <2> QED BY <1>0, <2>2, <2>3, <2>4 DEF IInv
<1>5. ASSUME NEW c \in Requests, SpawnError(c) PROVE IInv'
  <2>1. /\ os[c] = "unborn" /\ os'[c] = "failed"
        /\ \A d \in Requests : d # c => os'[d] = os[d]
        /\ paawProcess' = None /\ paawStatus' = "crashed"
        /\ stop' = stop /\ terminal' = terminal /\ stoppingPromise' = stoppingPromise
        /\ pc' = pc /\ killErrored' = killErrored
    BY <1>0, <1>5 DEF SpawnError, TypeOK, stopping, requests
  <2>2. LifeInv'
    BY <1>0, <2>1, NoneAssumption DEF LifeInv, HandleOwnsServer, MayLive, StatusAgreesWithHandle
  <2>3. StopInv'
    BY <1>0, <2>1, StopsUntouched
  <2>4. NamesUnused'
    BY <1>0, <2>1 DEF NamesUnused
  <2> QED BY <1>0, <2>2, <2>3, <2>4 DEF IInv
<1>6. ASSUME NEW c \in Requests, ExitEvent(c) PROVE IInv'
  <2>1. /\ os[c] = "dead" /\ os'[c] = "reaped"
        /\ \A d \in Requests : d # c => os'[d] = os[d]
        /\ paawProcess' = None /\ pc' = pc /\ killErrored' = killErrored
    BY <1>0, <1>6 DEF ExitEvent, TypeOK, requests
  <2>2. HandleOwnsServer'
    BY <1>0, <2>1, NoneAssumption DEF LifeInv, HandleOwnsServer, MayLive
  <2>3. CASE paawStatus' \in {"stopped", "crashed"} /\ UNCHANGED <<stopping, resume>>
    <3>1. stop' = stop /\ terminal' = terminal /\ stoppingPromise' = stoppingPromise
      BY <2>3 DEF stopping
    <3>2. StatusAgreesWithHandle'
      BY <2>1, <2>3 DEF StatusAgreesWithHandle
    <3>3. StopInv'
      BY <1>0, <2>1, <3>1, StopsUntouched
    <3>4. NamesUnused'
      BY <1>0, <2>1, <3>1 DEF NamesUnused
    <3> QED BY <1>0, <2>2, <3>2, <3>3, <3>4 DEF IInv, LifeInv
  <2>4. ASSUME NEW s \in Listeners(c), Finish(s, TRUE) PROVE IInv'
    <3>1. s \in Requests /\ stop[s].proc = c /\ stop[s].outcome = "pending"
      BY DEF Listeners
    <3>2. /\ StopInv'
          /\ \A q \in Requests : q # s => stop'[q] = stop[q]
          /\ paawStatus' = "stopped"
      BY <2>1, <2>4, <3>1, FinishKeeps
    <3>3. StatusAgreesWithHandle'
      BY <2>1, <3>2 DEF StatusAgreesWithHandle
    <3>4. NamesUnused'
      BY <1>0, <2>1, <3>1, <3>2 DEF NamesUnused, NoStop
    <3> QED BY <1>0, <2>2, <3>2, <3>3, <3>4 DEF IInv, LifeInv
  <2> QED BY <1>6, <2>3, <2>4 DEF ExitEvent
<1>7. ASSUME NEW s \in Requests, Finish(s, FALSE), stop[s].timer # "off",
             UNCHANGED <<paawProcess, os, pc, killErrored>>
      PROVE  IInv'
  <2>1. stop[s].outcome = "pending"
    BY <1>0, <1>7 DEF StopInv, StopsWellFormed
  <2>2. /\ StopInv'
        /\ \A q \in Requests : q # s => stop'[q] = stop[q]
        /\ paawStatus' = "crashed"
    BY <1>7, <2>1, FinishKeeps
  <2>3. LifeInv'
    BY <1>0, <1>7, <2>2 DEF LifeInv, HandleOwnsServer, MayLive, StatusAgreesWithHandle
  <2>4. NamesUnused'
    BY <1>0, <1>7, <2>1, <2>2 DEF NamesUnused, NoStop
  <2> QED BY <1>0, <2>2, <2>3, <2>4 DEF IInv
<1>8. ASSUME NEW s \in Requests, SigkillTimer(s) PROVE IInv'
  <2>1. CASE Finish(s, FALSE) /\ UNCHANGED <<paawProcess, killErrored>>
    BY <1>7, <1>8, <2>1 DEF SigkillTimer, requests
  <2>2. CASE /\ stop' = [stop EXCEPT ![s].timer = "last"]
             /\ UNCHANGED <<stoppingPromise, terminal>>
             /\ \/ UNCHANGED <<paawProcess, paawStatus, killErrored>>
                \/ paawProcess' = None /\ paawStatus' = "crashed" /\ killErrored'
    <3>1. /\ stop[s].timer = "grace" /\ os' = os /\ pc' = pc
          /\ stop'[s].outcome = stop[s].outcome /\ stop'[s].proc = stop[s].proc
          /\ stop[s].outcome = "pending" /\ stop'[s].timer = "last"
          /\ \A q \in Requests : q # s => stop'[q] = stop[q]
      BY <1>0, <1>8, <2>2 DEF SigkillTimer, TypeOK, StopRecords, requests, StopInv, StopsWellFormed
    <3>2. LifeInv'
      BY <1>0, <2>2, <3>1, NoneAssumption DEF LifeInv, HandleOwnsServer, MayLive, StatusAgreesWithHandle
    <3>3. StopInv'
      BY <1>0, <2>2, <3>1 DEF StopInv, ConfirmedStop, OneTerminalEvent, PendingIsShared,
           StopsWellFormed
    <3>4. NamesUnused'
      BY <1>0, <3>1 DEF NamesUnused, NoStop
    <3> QED BY <1>0, <3>2, <3>3, <3>4 DEF IInv
  <2> QED BY <1>8, <2>1, <2>2 DEF SigkillTimer
<1>9. ASSUME NEW s \in Requests, FailsafeTimer(s) PROVE IInv'
  BY <1>7, <1>9 DEF FailsafeTimer, requests
<1>10. ASSUME NEW r \in Requests, VerifyUpgrade(r) \/ HealthAnswer(r) PROVE IInv'
  <2>1. UNCHANGED <<lifecycle, stopping, killErrored>> /\ pc[r] \in {"verifying", "probing"}
    BY <1>10 DEF VerifyUpgrade, HealthAnswer
  <2>2. LifeInv' /\ StopInv'
    BY <1>0, <2>1, StopsUntouched DEF lifecycle, stopping, LifeInv, HandleOwnsServer,
         MayLive, StatusAgreesWithHandle
  <2>3. NamesUnused'
    BY <1>0, <1>10, <2>1 DEF VerifyUpgrade, HealthAnswer, Reply, lifecycle, stopping,
         NamesUnused, TypeOK
  <2> QED BY <1>0, <2>2, <2>3 DEF IInv
<1> QED
  BY <1>1, <1>2, <1>3, <1>4, <1>5, <1>6, <1>8, <1>9, <1>10 DEF Next, Task

\* The inductive invariant holds, however child.kill and spawn turn out.
THEOREM Invariance == Spec => []IInv
<1>1. Init => IInv
  BY TypeInit, NoneAssumption DEF Init, IInv, NoStop, LifeInv,
       HandleOwnsServer, MayLive, StatusAgreesWithHandle, StopInv, ConfirmedStop, OneTerminalEvent,
       PendingIsShared, StopsWellFormed, NamesUnused
<1>2. IInv /\ [Next]_vars => IInv'
  BY InductiveStep
<1> QED BY <1>1, <1>2, PTL DEF Spec

\* The handle is held exactly while a child may be alive, but for a child that a
\* kill with an 'error' event has taken out of sight.
THEOREM HandleOwned == Spec => []HandleOwnsServer
<1>1. IInv => HandleOwnsServer
  BY DEF IInv, LifeInv
<1> QED BY <1>1, Invariance, PTL

\* Two server processes are never alive at once, however requests overlap,
\* before a kill emits 'error'.
THEOREM NeverTwoServers == Spec => []OneLiveServer
<1>1. IInv => OneLiveServer
  BY DEF IInv, LifeInv, HandleOwnsServer, MayLive, OneLiveServer
<1> QED BY <1>1, Invariance, PTL

\* A stop that is answered ok has seen its child reaped, and the child stays so,
\* whatever child.kill did.
THEOREM StopIsConfirmed == Spec => []ConfirmedStop
<1>1. IInv => ConfirmedStop
  BY DEF IInv, StopInv
<1> QED BY <1>1, Invariance, PTL

\* Each settled stop has written exactly one terminal audit event.
THEOREM OneTerminalEventEach == Spec => []OneTerminalEvent
<1>1. IInv => OneTerminalEvent
  BY DEF IInv, StopInv
<1> QED BY <1>1, Invariance, PTL

\* The status shown never contradicts the handle.
THEOREM StatusAgrees == Spec => []StatusAgreesWithHandle
<1>1. IInv => StatusAgreesWithHandle
  BY DEF IInv, LifeInv
<1> QED BY <1>1, Invariance, PTL
=============================================================================
