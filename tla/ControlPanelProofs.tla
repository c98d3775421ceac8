------------------------- MODULE ControlPanelProofs -------------------------
(***************************************************************************)
(* Theorems about ControlPanel: for any number of children, requests and   *)
(* uploads, any homes, and any scenario.                                   *)
(***************************************************************************)
EXTENDS ControlPanel, TLAPS

Starting == {"current", "prepare", "port", "health", "window"}
InHand == {"health", "window", "stop", "stuck"}
Here == [version |-> cfg.paawHome, data |-> cfg.paawHome]

\* What the job's kind and its child are at each step of it.
JobInv ==
  /\ step = "none" <=> job = "none"
  /\ step \in Starting => job \in {"start", "restart"}
  /\ step = "stop" => job \in {"stop", "restart"}
  /\ step \in InHand => jobChild \in Children /\ os[jobChild] # "unborn"
  /\ step \in {"prepare", "port"} => jobHome \in Homes

\* Which child may be alive at each step: none while a start has not spawned.
AliveInv ==
  \A c \in Children : os[c] = "alive" =>
    \/ step \in InHand \ {"stuck"} /\ c = jobChild
    \/ step \in {"none", "working"} /\ c = paawChild

\* A start finds the register empty, and a stop has the registered child in hand.
PaawInv ==
  /\ paawChild # None =>
       /\ os[paawChild] \in {"alive", "signalled"}
       /\ \/ step \in {"none", "working"}
          \/ step \in {"stop", "stuck"} /\ paawChild = jobChild
  /\ step = "stop" /\ os[jobChild] = "alive" => paawChild = jobChild

\* Only a start has a child that a gateway does not take along.
GoneInv ==
  gateway = "gone" =>
    \A c \in Children : os[c] = "alive" => step \in {"health", "window"}

\* A start carries the home it began in up to the registration.
HomeInv ==
  ~moved =>
    /\ step \in {"prepare", "port"} => jobHome = cfg.paawHome
    /\ step \in {"health", "window"} => dirs[jobChild] = Here
    /\ paawChild # None => dirs[paawChild] = Here

\* The text a save under way has taken, and how much of it is in the file.
FileInv ==
  /\ \A r \in Requests : requests[r].next \in Saving => requests[r].text \in Cfgs
  /\ ~overlapped =>
       /\ \A q, r \in UnderWay : q = r
       /\ \A r \in UnderWay :
            /\ requests[r].next \in {"write", "rename"} => requests[r].fd = "tmp"
            /\ requests[r].next = "write" => tmp = Empty
            /\ requests[r].next = "rename" => tmp = requests[r].text
            /\ ~unsaved => requests[r].text = cfg

ConfigInv == ConfigTypeOK /\ FileInv /\ SettingsPersist

IInv == TypeOK /\ ConfigInv /\ JobInv /\ AliveInv /\ PaawInv /\ GoneInv /\ HomeInv

-----------------------------------------------------------------------------
(* Saves of the settings                                                   *)

\* A request's record, with any of its fields changed, is one.
LEMMA RequestUpdates ==
  ASSUME NEW q \in Request
  PROVE  /\ \A n \in Saving \cup {"arrive", "apply", "done"} : [q EXCEPT !.next = n] \in Request
         /\ \A t \in Cfgs : [q EXCEPT !.next = "open", !.text = t] \in Request
         /\ \A f \in {"none", "tmp", "json", "unlinked"} :
              [q EXCEPT !.fd = f] \in Request /\ [q EXCEPT !.next = "write", !.fd = f] \in Request
         /\ Finished \in Request
BY DEF Request, Saving, Finished

\* The body arrives: no save starts or ends.
LEMMA AwaitStep == ASSUME ConfigInv, NEW r \in Requests, AwaitBody(r) PROVE ConfigInv'
<1>1. requests' = [requests EXCEPT ![r].next = "apply"] /\ requests[r].next = "arrive"
  BY DEF AwaitBody, Advance
<1>2. requests' \in [Requests -> Request]
  BY <1>1, RequestUpdates DEF ConfigInv, ConfigTypeOK
<1>3. \A q \in Requests : q # r => requests'[q] = requests[q]
  BY <1>1 DEF ConfigInv, ConfigTypeOK
<1>4. requests'[r].next = "apply"
  BY <1>1 DEF ConfigInv, ConfigTypeOK, Request
<1>5. UnderWay' = UnderWay
  BY <1>1, <1>3, <1>4 DEF UnderWay, Saving
<1>6. \A q \in UnderWay : requests'[q] = requests[q]
  BY <1>1, <1>3 DEF UnderWay, Saving
<1>7. UNCHANGED <<cfg, json, tmp, overlapped, unsaved>>
  BY DEF AwaitBody
<1>8. FileInv'
  <2>1. \A q \in Requests : requests'[q].next \in Saving => requests'[q].text \in Cfgs
    BY <1>3, <1>4 DEF ConfigInv, FileInv, Saving
  <2> QED BY <2>1, <1>5, <1>6, <1>7 DEF ConfigInv, FileInv, Cfgs
<1>9. SettingsPersist'
  BY <1>5, <1>7 DEF ConfigInv, SettingsPersist, Cfgs
<1> QED BY <1>2, <1>7, <1>8, <1>9 DEF ConfigInv, ConfigTypeOK, Cfgs, Contents

\* Settings taken into memory, saved next or refused.
LEMMA ApplyStep ==
  ASSUME ConfigInv, NEW r \in Requests, NEW running, ApplySettings(r, running) PROVE ConfigInv'
<1>1. cfg' \in Cfgs /\ requests[r].next = "apply" /\ UNCHANGED <<json, tmp>> /\ r \notin UnderWay
  BY DEF ApplySettings, Advance, UnderWay, Saving
<1>2. CASE /\ requests' = [requests EXCEPT ![r].next = "done"]
           /\ unsaved' = (unsaved \/ cfg' # cfg) /\ UNCHANGED overlapped
  <2>1. requests' \in [Requests -> Request]
    BY <1>2, RequestUpdates DEF ConfigInv, ConfigTypeOK
  <2>2. \A q \in Requests : q # r => requests'[q] = requests[q]
    BY <1>2 DEF ConfigInv, ConfigTypeOK
  <2>3. requests'[r].next = "done"
    BY <1>2 DEF ConfigInv, ConfigTypeOK, Request
  <2>4. UnderWay' = UnderWay
    BY <1>1, <2>2, <2>3 DEF UnderWay, Saving
  <2>5. \A q \in UnderWay : requests'[q] = requests[q]
    BY <1>1, <2>2 DEF UnderWay
  <2>6. ~unsaved' => ~unsaved /\ cfg' = cfg
    BY <1>2
  <2>7. unsaved' \in BOOLEAN
    BY <1>2 DEF ConfigInv, ConfigTypeOK
  <2>8. FileInv'
    <3>1. \A q \in Requests : requests'[q].next \in Saving => requests'[q].text \in Cfgs
      BY <2>2, <2>3 DEF ConfigInv, FileInv, Saving
    <3> QED BY <1>1, <1>2, <2>4, <2>5, <2>6, <3>1 DEF ConfigInv, FileInv, Cfgs
  <2>9. SettingsPersist'
    BY <1>1, <1>2, <2>4, <2>6 DEF ConfigInv, SettingsPersist, Cfgs
  <2> QED BY <1>1, <1>2, <2>1, <2>7, <2>8, <2>9 DEF ConfigInv, ConfigTypeOK, Cfgs, Contents
<1>3. CASE /\ requests' = [requests EXCEPT ![r].next = "open", ![r].text = cfg']
           /\ unsaved' = FALSE /\ overlapped' = (overlapped \/ UnderWay # {})
  <2>1. requests' \in [Requests -> Request]
    BY <1>1, <1>3, RequestUpdates DEF ConfigInv, ConfigTypeOK
  <2>2. \A q \in Requests : q # r => requests'[q] = requests[q]
    BY <1>3 DEF ConfigInv, ConfigTypeOK
  <2>3. requests'[r].next = "open" /\ requests'[r].text = cfg'
    BY <1>3 DEF ConfigInv, ConfigTypeOK, Request
  <2>4. UnderWay' = UnderWay \cup {r}
    BY <2>2, <2>3 DEF UnderWay, Saving
  <2>5. ~overlapped' => ~overlapped /\ UnderWay' = {r}
    BY <1>3, <2>4
  <2>6. overlapped' \in BOOLEAN
    BY <1>3 DEF ConfigInv, ConfigTypeOK
  <2>7. FileInv'
    <3>1. \A q \in Requests : requests'[q].next \in Saving => requests'[q].text \in Cfgs
      BY <1>1, <2>2, <2>3 DEF ConfigInv, FileInv, Saving, Cfgs
    <3> QED BY <2>3, <2>5, <3>1 DEF FileInv, Cfgs
  <2>8. SettingsPersist'
    BY <1>1, <2>5 DEF ConfigInv, SettingsPersist, Cfgs
  <2> QED BY <1>1, <1>3, <2>1, <2>6, <2>7, <2>8 DEF ConfigInv, ConfigTypeOK, Cfgs, Contents
<1> QED BY <1>2, <1>3 DEF ApplySettings, Advance

\* The file is opened for a save, and emptied.
LEMMA OpenStep == ASSUME ConfigInv, NEW r \in Requests, OpenTmp(r) PROVE ConfigInv'
<1>1. /\ requests' = [requests EXCEPT ![r].next = "write", ![r].fd = "tmp"]
      /\ r \in UnderWay /\ tmp' = Empty
      /\ UNCHANGED <<cfg, json, overlapped, unsaved>>
  BY DEF OpenTmp, UnderWay, Saving
<1>2. requests' \in [Requests -> Request]
  BY <1>1, RequestUpdates DEF ConfigInv, ConfigTypeOK
<1>3. \A q \in Requests : q # r => requests'[q] = requests[q]
  BY <1>1 DEF ConfigInv, ConfigTypeOK
<1>4. requests'[r].next = "write" /\ requests'[r].fd = "tmp" /\ requests'[r].text = requests[r].text
  BY <1>1 DEF ConfigInv, ConfigTypeOK, Request
<1>5. UnderWay' = UnderWay
  BY <1>1, <1>3, <1>4 DEF UnderWay, Saving
<1>6. FileInv'
  <2>1. \A q \in Requests : requests'[q].next \in Saving => requests'[q].text \in Cfgs
    BY <1>1, <1>3, <1>4 DEF ConfigInv, FileInv, UnderWay
  <2>2. ~overlapped => \A q \in UnderWay : q = r
    BY <1>1 DEF ConfigInv, FileInv
  <2> QED BY <2>1, <2>2, <1>1, <1>4, <1>5 DEF ConfigInv, FileInv, Cfgs
<1>7. SettingsPersist'
  BY <1>1, <1>5 DEF ConfigInv, SettingsPersist, Cfgs
<1> QED BY <1>1, <1>2, <1>6, <1>7 DEF ConfigInv, ConfigTypeOK, Cfgs, Contents

\* The text is written: alone, it is all the file has.
LEMMA WriteStep == ASSUME ConfigInv, NEW r \in Requests, WriteTmp(r) PROVE ConfigInv'
<1>1. /\ requests' = [requests EXCEPT ![r].next = "rename"]
      /\ r \in UnderWay /\ requests[r].next = "write"
      /\ UNCHANGED <<cfg, overlapped, unsaved>>
  BY DEF WriteTmp, Advance, UnderWay, Saving
<1>2. requests' \in [Requests -> Request]
  BY <1>1, RequestUpdates DEF ConfigInv, ConfigTypeOK, Saving
<1>3. \A q \in Requests : q # r => requests'[q] = requests[q]
  BY <1>1 DEF ConfigInv, ConfigTypeOK
<1>4. /\ requests'[r].next = "rename" /\ requests'[r].fd = requests[r].fd
      /\ requests'[r].text = requests[r].text
  BY <1>1 DEF ConfigInv, ConfigTypeOK, Request
<1>5. UnderWay' = UnderWay
  BY <1>1, <1>3, <1>4 DEF UnderWay, Saving
<1>6. requests[r].text \in Cfgs
  BY <1>1 DEF ConfigInv, FileInv, UnderWay
<1>7. json' \in Contents /\ tmp' \in Contents \cup {None}
  BY <1>6 DEF WriteTmp, Overlaid, Contents, ConfigInv, ConfigTypeOK
<1>8. ~overlapped => tmp' = requests[r].text /\ json' = json /\ \A q \in UnderWay : q = r
  <2> SUFFICES ASSUME ~overlapped PROVE tmp' = requests[r].text /\ json' = json /\ \A q \in UnderWay : q = r
    OBVIOUS
  <2>1. requests[r].fd = "tmp" /\ tmp = Empty /\ \A q \in UnderWay : q = r
    BY <1>1 DEF ConfigInv, FileInv
  <2> QED BY <2>1 DEF WriteTmp, Overlaid
<1>9. FileInv'
  <2>1. \A q \in Requests : requests'[q].next \in Saving => requests'[q].text \in Cfgs
    BY <1>3, <1>4, <1>6 DEF ConfigInv, FileInv
  <2>2. ~overlapped => requests[r].fd = "tmp" /\ (~unsaved => requests[r].text = cfg)
    BY <1>1 DEF ConfigInv, FileInv
  <2> QED BY <2>1, <2>2, <1>1, <1>4, <1>5, <1>8 DEF FileInv, Cfgs
<1>10. SettingsPersist'
  BY <1>1, <1>5, <1>8 DEF ConfigInv, SettingsPersist, Cfgs
<1> QED BY <1>1, <1>2, <1>7, <1>9, <1>10 DEF ConfigInv, ConfigTypeOK, Cfgs, Contents

\* gateway.json.tmp becomes gateway.json: alone, a save leaves its text there.
LEMMA RenameStep == ASSUME ConfigInv, NEW r \in Requests, RenameTmp(r) PROVE ConfigInv'
<1>1. /\ r \in UnderWay /\ requests[r].next = "rename" /\ tmp # None
      /\ json' = tmp /\ tmp' = None
      /\ UNCHANGED <<cfg, overlapped, unsaved>>
  BY DEF RenameTmp, UnderWay, Saving
<1>2. \A q \in Requests : requests[q] \in Request
  BY DEF ConfigInv, ConfigTypeOK
<1>3. \A q \in Requests \ {r} :
        /\ requests'[q] \in Request
        /\ requests'[q].next = requests[q].next /\ requests'[q].text = requests[q].text
  <2> SUFFICES ASSUME NEW q \in Requests \ {r}
               PROVE  /\ requests'[q] \in Request
                      /\ requests'[q].next = requests[q].next /\ requests'[q].text = requests[q].text
    OBVIOUS
  <2>1. requests'[q] = [requests[q] EXCEPT !.fd = Renamed(requests[q].fd)]
    BY DEF RenameTmp
  <2>2. Renamed(requests[q].fd) \in {"none", "tmp", "json", "unlinked"}
    BY <1>2 DEF Renamed, Request
  <2>3. requests'[q] \in Request
    <3>1. \A f \in {"none", "tmp", "json", "unlinked"} : [requests[q] EXCEPT !.fd = f] \in Request
      BY <1>2, RequestUpdates
    <3> QED BY <2>1, <2>2, <3>1
  <2>4. requests'[q].next = requests[q].next /\ requests'[q].text = requests[q].text
    <3>1. requests[q] \in Request
      BY <1>2
    <3> QED BY <2>1, <3>1 DEF Request
  <2> QED BY <2>3, <2>4
<1>4. requests'[r] = Finished
  BY DEF RenameTmp
<1>5. requests' \in [Requests -> Request]
  <2>1. \A q \in Requests : requests'[q] \in Request
    BY <1>3, <1>4, RequestUpdates, <1>2
  <2> QED BY <2>1 DEF RenameTmp
<1>6. UnderWay' = UnderWay \ {r}
  BY <1>3, <1>4 DEF UnderWay, Saving, Finished
<1>7. ~overlapped => UnderWay' = {}
  BY <1>1, <1>6 DEF ConfigInv, FileInv
<1>8. FileInv'
  <2>1. \A q \in Requests : requests'[q].next \in Saving => requests'[q].text \in Cfgs
    BY <1>3, <1>4 DEF ConfigInv, FileInv, Saving, Finished
  <2> QED BY <2>1, <1>1, <1>7 DEF FileInv, Cfgs
<1>9. ~overlapped => json' \in Cfgs /\ (~unsaved => json' = cfg)
  BY <1>1 DEF ConfigInv, FileInv, UnderWay
<1>10. SettingsPersist'
  BY <1>1, <1>9 DEF SettingsPersist, Cfgs
<1>11. json' \in Contents
  BY <1>1 DEF ConfigInv, ConfigTypeOK
<1> QED BY <1>1, <1>5, <1>8, <1>10, <1>11 DEF ConfigInv, ConfigTypeOK, Cfgs, Contents

\* A save fails: the files stay.
LEMMA FailStep == ASSUME ConfigInv, NEW r \in Requests, SaveFails(r) PROVE ConfigInv'
<1>1. /\ requests' = [requests EXCEPT ![r] = Finished] /\ unsaved' = TRUE
      /\ UNCHANGED <<cfg, json, tmp, overlapped>>
  BY DEF SaveFails
<1>2. requests' \in [Requests -> Request]
  BY <1>1, RequestUpdates DEF ConfigInv, ConfigTypeOK
<1>3. \A q \in Requests : requests'[q] = IF q = r THEN Finished ELSE requests[q]
  BY <1>1 DEF ConfigInv, ConfigTypeOK
<1>4. UnderWay' = UnderWay \ {r}
  BY <1>3 DEF UnderWay, Saving, Finished
<1>5. FileInv'
  <2>1. \A q \in Requests : requests'[q].next \in Saving => requests'[q].text \in Cfgs
    BY <1>3 DEF ConfigInv, FileInv, Saving, Finished
  <2>2. \A q \in UnderWay' : q \in UnderWay /\ requests'[q] = requests[q]
    BY <1>3, <1>4 DEF UnderWay
  <2> QED BY <2>1, <2>2, <1>1 DEF ConfigInv, FileInv, Cfgs
<1>6. SettingsPersist'
  BY <1>1 DEF ConfigInv, SettingsPersist, Cfgs
<1> QED BY <1>1, <1>2, <1>5, <1>6 DEF ConfigInv, ConfigTypeOK, Cfgs, Contents

\* Whatever leaves the settings alone.
LEMMA ConfigIdle == ConfigInv /\ UNCHANGED configVars => ConfigInv'
<1> SUFFICES ASSUME ConfigInv, UNCHANGED configVars PROVE ConfigInv'
  OBVIOUS
<1>1. UNCHANGED <<cfg, json, tmp, requests, overlapped, unsaved>>
  BY DEF configVars
<1>2. UnderWay' = UnderWay
  BY <1>1 DEF UnderWay, Saving
<1> QED BY <1>1, <1>2 DEF ConfigInv, ConfigTypeOK, FileInv, SettingsPersist, Cfgs, Contents, Request, Saving

-----------------------------------------------------------------------------
(* Steps of the jobs                                                       *)

\* A job begins: a stop with the registered child, a start without one.
LEMMA BeginStep == ASSUME IInv, gateway # "gone", NEW kind \in Jobs, Begin(kind) PROVE IInv'
<1> USE DEF IInv
<1>1. UNCHANGED configVars
  BY DEF Begin, JobOnly
<1>2. ConfigInv'
  BY <1>1, ConfigIdle
<1>3. cfg' = cfg /\ cfg.paawHome \in Homes
  BY <1>1 DEF configVars, ConfigInv, ConfigTypeOK, Cfgs
<1>4. TypeOK'
  BY <1>2, <1>3 DEF TypeOK, ConfigInv, Begin, KillChild, MayStart, PaawRunning,
     ExitCodeNull, Goto, EndJob, JobOnly, childVars, Jobs
<1>5. JobInv'
  BY <1>3 DEF TypeOK, JobInv, Begin, KillChild, MayStart, PaawRunning, ExitCodeNull, Goto,
     EndJob, JobOnly, childVars, Starting, InHand
<1>6. AliveInv'
  <2> SUFFICES ASSUME NEW c \in Children, os'[c] = "alive"
               PROVE  \/ step' \in InHand \ {"stuck"} /\ c = jobChild'
                      \/ step' \in {"none", "working"} /\ c = paawChild'
    BY DEF AliveInv
  <2>1. os' = os /\ paawChild' = paawChild
    BY DEF Begin, childVars
  <2>2. c = paawChild
    BY <2>1 DEF AliveInv, JobInv, Begin, InHand
  <2>3. PaawRunning
    BY <2>1, <2>2, NoneAssumption DEF PaawRunning, ExitCodeNull
  <2>4. CASE step' = "working"
    BY <2>1, <2>2, <2>4
  <2>5. CASE jobChild' = paawChild /\ step' = KillChild(paawChild)
    BY <2>1, <2>2, <2>5 DEF KillChild, InHand
  <2> QED BY <2>3, <2>4, <2>5 DEF Begin, MayStart
<1>7. PaawInv'
  BY DEF PaawInv, JobInv, Begin, KillChild, MayStart, PaawRunning, ExitCodeNull, Goto,
     EndJob, JobOnly, childVars, Starting, InHand
<1>8. GoneInv'
  BY DEF GoneInv, Begin, KillChild, MayStart, PaawRunning, ExitCodeNull, JobOnly
<1>9. HomeInv'
  BY <1>3 DEF HomeInv, PaawInv, JobInv, Begin, KillChild, MayStart, PaawRunning,
     ExitCodeNull, Goto, EndJob, JobOnly, childVars, Here, InHand, Starting
<1> QED BY <1>2, <1>4, <1>5, <1>6, <1>7, <1>8, <1>9

\* Work ends.
LEMMA WorkStep == ASSUME IInv, gateway # "gone", WorkDone PROVE IInv'
<1> USE DEF IInv
<1>1. UNCHANGED configVars
  BY DEF WorkDone, JobOnly
<1>2. ConfigInv'
  BY <1>1, ConfigIdle
<1>3. cfg' = cfg /\ cfg.paawHome \in Homes
  BY <1>1 DEF configVars, ConfigInv, ConfigTypeOK, Cfgs
<1>4. TypeOK'
  BY <1>2, <1>3 DEF TypeOK, ConfigInv, WorkDone, Goto, EndJob, JobOnly, childVars, Jobs
<1>5. JobInv'
  BY <1>3 DEF TypeOK, JobInv, WorkDone, Goto, EndJob, JobOnly, childVars, Starting, InHand
<1>6. AliveInv'
  BY DEF AliveInv, PaawInv, JobInv, WorkDone, Goto, EndJob, JobOnly, childVars, Starting, InHand
<1>7. PaawInv'
  BY DEF PaawInv, JobInv, WorkDone, Goto, EndJob, JobOnly, childVars, Starting, InHand
<1>8. GoneInv'
  BY DEF GoneInv, WorkDone, JobOnly
<1>9. HomeInv'
  BY <1>3 DEF HomeInv, PaawInv, JobInv, WorkDone, Goto, EndJob, JobOnly, childVars, Here,
     InHand, Starting
<1> QED BY <1>2, <1>4, <1>5, <1>6, <1>7, <1>8, <1>9

\* A start has found its version in the home of now.
LEMMA CurrentStep == ASSUME IInv, gateway # "gone", ReadCurrent PROVE IInv'
<1> USE DEF IInv
<1>1. UNCHANGED configVars
  BY DEF ReadCurrent, JobOnly
<1>2. ConfigInv'
  BY <1>1, ConfigIdle
<1>3. cfg' = cfg /\ cfg.paawHome \in Homes
  BY <1>1 DEF configVars, ConfigInv, ConfigTypeOK, Cfgs
<1>4. TypeOK'
  BY <1>2, <1>3 DEF TypeOK, ConfigInv, ReadCurrent, Goto, EndJob, JobOnly, childVars, Jobs
<1>5. JobInv'
  BY <1>3 DEF TypeOK, JobInv, ReadCurrent, Goto, EndJob, JobOnly, childVars, Starting, InHand
<1>6. AliveInv'
  BY DEF AliveInv, PaawInv, JobInv, ReadCurrent, Goto, EndJob, JobOnly, childVars, Starting,
     InHand
<1>7. PaawInv'
  BY DEF PaawInv, JobInv, ReadCurrent, Goto, EndJob, JobOnly, childVars, Starting, InHand
<1>8. GoneInv'
  BY DEF GoneInv, ReadCurrent, JobOnly
<1>9. HomeInv'
  BY <1>3 DEF HomeInv, PaawInv, JobInv, ReadCurrent, Goto, EndJob, JobOnly, childVars, Here,
     InHand, Starting
<1> QED BY <1>2, <1>4, <1>5, <1>6, <1>7, <1>8, <1>9

\* A start prepares the data.
LEMMA PrepareStep == ASSUME IInv, gateway # "gone", Prepare PROVE IInv'
<1> USE DEF IInv
<1>1. UNCHANGED configVars
  BY DEF Prepare, JobOnly
<1>2. ConfigInv'
  BY <1>1, ConfigIdle
<1>3. cfg' = cfg /\ cfg.paawHome \in Homes
  BY <1>1 DEF configVars, ConfigInv, ConfigTypeOK, Cfgs
<1>4. TypeOK'
  BY <1>2, <1>3 DEF TypeOK, ConfigInv, Prepare, Goto, EndJob, JobOnly, childVars, Jobs
<1>5. JobInv'
  BY <1>3 DEF TypeOK, JobInv, Prepare, Goto, EndJob, JobOnly, childVars, Starting, InHand
<1>6. AliveInv'
  BY DEF AliveInv, PaawInv, JobInv, Prepare, Goto, EndJob, JobOnly, childVars, Starting, InHand
<1>7. PaawInv'
  BY DEF PaawInv, JobInv, Prepare, Goto, EndJob, JobOnly, childVars, Starting, InHand
<1>8. GoneInv'
  BY DEF GoneInv, Prepare, JobOnly
<1>9. HomeInv'
  BY <1>3 DEF HomeInv, PaawInv, JobInv, Prepare, Goto, EndJob, JobOnly, childVars, Here,
     InHand, Starting
<1> QED BY <1>2, <1>4, <1>5, <1>6, <1>7, <1>8, <1>9

\* A start spawns its child: none is alive then.
LEMMA SpawnStep == ASSUME IInv, gateway # "gone", SpawnIfPortFree PROVE IInv'
<1> USE DEF IInv
<1>1. UNCHANGED configVars
  BY DEF SpawnIfPortFree, JobOnly
<1>2. ConfigInv'
  BY <1>1, ConfigIdle
<1>3. cfg' = cfg /\ cfg.paawHome \in Homes
  BY <1>1 DEF configVars, ConfigInv, ConfigTypeOK, Cfgs
<1> DEFINE Spawned(c) ==
      /\ os[c] = "unborn" /\ os' = [os EXCEPT ![c] = "alive"]
      /\ dirs' = [dirs EXCEPT ![c] = [version |-> jobHome, data |-> cfg.paawHome]]
      /\ jobChild' = c /\ Goto("health")
<1>0. (EndJob /\ UNCHANGED <<jobChild, os, dirs>>) \/ \E c \in Children : Spawned(c)
  BY DEF SpawnIfPortFree
<1>4. TypeOK'
  <2>1. CASE EndJob /\ UNCHANGED <<jobChild, os, dirs>>
    BY <2>1, <1>2, <1>3 DEF TypeOK, ConfigInv, Jobs, JobInv, SpawnIfPortFree, JobOnly, EndJob
  <2>2. CASE \E c \in Children : Spawned(c)
    <3>1. PICK c \in Children : Spawned(c)
      BY <2>2
    <3> QED BY <3>1, <1>2, <1>3 DEF TypeOK, ConfigInv, Jobs, JobInv, SpawnIfPortFree, JobOnly, Goto
  <2> QED BY <2>1, <2>2, <1>0
<1>5. JobInv'
  <2>1. CASE EndJob /\ UNCHANGED <<jobChild, os, dirs>>
    BY <2>1, <1>3 DEF JobInv, Starting, InHand, TypeOK, SpawnIfPortFree, JobOnly, EndJob
  <2>2. CASE \E c \in Children : Spawned(c)
    <3>1. PICK c \in Children : Spawned(c)
      BY <2>2
    <3> QED BY <3>1, <1>3 DEF JobInv, Starting, InHand, TypeOK, SpawnIfPortFree, JobOnly, Goto
  <2> QED BY <2>1, <2>2, <1>0
<1>6. AliveInv'
  <2>1. CASE EndJob /\ UNCHANGED <<jobChild, os, dirs>>
    BY <2>1, <1>3 DEF AliveInv, JobInv, PaawInv, Starting, InHand, TypeOK, SpawnIfPortFree,
       JobOnly, EndJob
  <2>2. CASE \E c \in Children : Spawned(c)
    <3>1. PICK c \in Children : Spawned(c)
      BY <2>2
    <3> QED BY <3>1, <1>3 DEF AliveInv, JobInv, PaawInv, Starting, InHand, TypeOK, SpawnIfPortFree, JobOnly, Goto
  <2> QED BY <2>1, <2>2, <1>0
<1>7. PaawInv'
  BY DEF PaawInv, JobInv, SpawnIfPortFree, Goto, EndJob, JobOnly, childVars, Starting, InHand
<1>8. GoneInv'
  BY DEF GoneInv, SpawnIfPortFree, JobOnly
<1>9. HomeInv'
  <2>1. CASE EndJob /\ UNCHANGED <<jobChild, os, dirs>>
    BY <2>1, <1>3 DEF HomeInv, PaawInv, JobInv, Here, InHand, TypeOK, SpawnIfPortFree,
       JobOnly, EndJob
  <2>2. CASE \E c \in Children : Spawned(c)
    <3>1. PICK c \in Children : Spawned(c)
      BY <2>2
    <3> QED BY <3>1, <1>3 DEF HomeInv, PaawInv, JobInv, Here, InHand, TypeOK, SpawnIfPortFree, JobOnly, Goto
  <2> QED BY <2>1, <2>2, <1>0
<1> QED BY <1>2, <1>4, <1>5, <1>6, <1>7, <1>8, <1>9

\* The health check has an answer.
LEMMA HealthStep == ASSUME IInv, gateway # "gone", Health PROVE IInv'
<1> USE DEF IInv
<1>1. UNCHANGED configVars
  BY DEF Health, JobOnly
<1>2. ConfigInv'
  BY <1>1, ConfigIdle
<1>3. cfg' = cfg /\ cfg.paawHome \in Homes
  BY <1>1 DEF configVars, ConfigInv, ConfigTypeOK, Cfgs
<1>0. \/ step' \in {"window", "stuck"} /\ job' = job /\ (step' = "stuck" => os[jobChild] # "alive")
      \/ step' = "none" /\ job' = "none" /\ os[jobChild] # "alive"
  <2>1. CASE os[jobChild] = "alive" /\ Goto("window")
    BY <2>1 DEF Goto
  <2>2. CASE /\ os[jobChild] # "alive"
             /\ step' = KillChild(jobChild)
             /\ job' = IF step' = "none" THEN "none" ELSE job
    <3>1. os[jobChild] \in {"exited", "signalled"}
      BY <2>2 DEF Health, TypeOK, JobInv, InHand
    <3> QED BY <2>2, <3>1 DEF KillChild
  <2> QED BY <2>1, <2>2 DEF Health
<1>4. TypeOK'
  BY <1>0, <1>2, <1>3 DEF TypeOK, Health, ConfigInv, JobInv, AliveInv, PaawInv, Here, Jobs,
     Starting, InHand, JobOnly, childVars
<1>5. JobInv'
  BY <1>0, <1>2, <1>3 DEF JobInv, TypeOK, Health, ConfigInv, AliveInv, PaawInv, Here, Jobs,
     Starting, InHand, JobOnly, childVars
<1>6. AliveInv'
  BY <1>0, <1>2, <1>3 DEF AliveInv, TypeOK, Health, ConfigInv, JobInv, PaawInv, Here, Jobs,
     Starting, InHand, JobOnly, childVars
<1>7. PaawInv'
  BY <1>0, <1>2, <1>3 DEF PaawInv, TypeOK, Health, ConfigInv, JobInv, AliveInv, Here, Jobs,
     Starting, InHand, JobOnly, childVars
<1>8. GoneInv'
  BY DEF GoneInv, Health, JobOnly
<1>9. HomeInv'
  BY <1>0, <1>2, <1>3 DEF HomeInv, TypeOK, Health, ConfigInv, JobInv, AliveInv, PaawInv,
     Here, Jobs, Starting, InHand, JobOnly, childVars
<1> QED BY <1>2, <1>4, <1>5, <1>6, <1>7, <1>8, <1>9

\* A start is over, its child registered if it has no exit code.
LEMMA RegisterStep == ASSUME IInv, gateway # "gone", Register PROVE IInv'
<1> USE DEF IInv
<1>1. UNCHANGED configVars
  BY DEF Register, JobOnly
<1>2. ConfigInv'
  BY <1>1, ConfigIdle
<1>3. cfg' = cfg /\ cfg.paawHome \in Homes
  BY <1>1 DEF configVars, ConfigInv, ConfigTypeOK, Cfgs
<1>4. TypeOK'
  BY <1>2, <1>3 DEF TypeOK, ConfigInv, Register, ExitCodeNull, Goto, EndJob, JobOnly,
     childVars, Jobs
<1>5. JobInv'
  BY <1>3 DEF TypeOK, JobInv, Register, ExitCodeNull, Goto, EndJob, JobOnly, childVars,
     Starting, InHand
<1>6. AliveInv'
  BY DEF AliveInv, PaawInv, JobInv, Register, ExitCodeNull, Goto, EndJob, JobOnly,
     childVars, Starting, InHand
<1>7. PaawInv'
  BY DEF PaawInv, JobInv, Register, ExitCodeNull, Goto, EndJob, JobOnly, childVars,
     Starting, InHand
<1>8. GoneInv'
  BY DEF GoneInv, Register, ExitCodeNull, JobOnly
<1>9. HomeInv'
  BY <1>3 DEF HomeInv, PaawInv, JobInv, Register, ExitCodeNull, Goto, EndJob, JobOnly,
     childVars, Here, InHand, Starting
<1> QED BY <1>2, <1>4, <1>5, <1>6, <1>7, <1>8, <1>9

\* The child a job awaits has ended.
LEMMA StoppedStep == ASSUME IInv, gateway # "gone", Stopped PROVE IInv'
<1> USE DEF IInv
<1>1. UNCHANGED configVars
  BY DEF Stopped, JobOnly
<1>2. ConfigInv'
  BY <1>1, ConfigIdle
<1>3. cfg' = cfg /\ cfg.paawHome \in Homes
  BY <1>1 DEF configVars, ConfigInv, ConfigTypeOK, Cfgs
<1>4. TypeOK'
  BY <1>2, <1>3 DEF TypeOK, ConfigInv, Stopped, Goto, EndJob, JobOnly, childVars, Jobs
<1>5. JobInv'
  BY <1>3 DEF TypeOK, JobInv, Stopped, Goto, EndJob, JobOnly, childVars, Starting, InHand
<1>6. AliveInv'
  BY DEF AliveInv, PaawInv, JobInv, Stopped, Goto, EndJob, JobOnly, childVars, Starting, InHand
<1>7. PaawInv'
  BY DEF PaawInv, JobInv, Stopped, Goto, EndJob, JobOnly, childVars, Starting, InHand
<1>8. GoneInv'
  BY DEF GoneInv, Stopped, JobOnly
<1>9. HomeInv'
  BY <1>3 DEF HomeInv, PaawInv, JobInv, Stopped, Goto, EndJob, JobOnly, childVars, Here,
     InHand, Starting
<1> QED BY <1>2, <1>4, <1>5, <1>6, <1>7, <1>8, <1>9

-----------------------------------------------------------------------------
(* Ends of children, requests, and the gateway's own end                   *)

\* Only one child is alive.
LEMMA OneAlive == IInv => OneLiveChild
BY NoneAssumption DEF IInv, AliveInv, PaawInv, OneLiveChild, InHand

\* A child ends: its register entry goes with it, and a gateway that awaits it.
LEMMA ExitsStep ==
  ASSUME IInv, NEW c \in Children, Exits(c, {"exited", "signalled"}), struck' \in BOOLEAN PROVE IInv'
<1> USE DEF IInv
<1>1. UNCHANGED configVars /\ UNCHANGED <<job, step, jobChild, jobHome, moved, dirs, uploads>>
  BY DEF Exits, jobVars
<1>2. ConfigInv'
  BY <1>1, ConfigIdle
<1>3. cfg' = cfg
  BY <1>1 DEF configVars
<1>4. PICK how \in {"exited", "signalled"} : os' = [os EXCEPT ![c] = how]
  BY DEF Exits
<1>5. os[c] = "alive" /\ os'[c] = how /\ \A d \in Children : d # c => os'[d] = os[d]
  BY <1>4 DEF Exits, TypeOK
<1>6. paawChild' = IF paawChild = c THEN None ELSE paawChild
  BY DEF Exits
<1>7. gateway' = IF gateway = "leaving" /\ paawChild = c THEN "gone" ELSE gateway
  BY DEF Exits
<1>8. TypeOK'
  BY <1>1, <1>2, <1>4, <1>6, <1>7 DEF TypeOK, ConfigInv
<1>9. JobInv'
  BY <1>1, <1>5 DEF TypeOK, JobInv
<1>10. AliveInv'
  BY <1>1, <1>5, <1>6 DEF AliveInv
<1>11. PaawInv'
  <2>1. step' = "stop" /\ os'[jobChild'] = "alive" => paawChild' = jobChild'
    BY <1>1, <1>5, <1>6 DEF PaawInv, JobInv, InHand
  <2>2. paawChild' # None => paawChild' = paawChild /\ paawChild # c /\ os'[paawChild] = os[paawChild]
    BY <1>5, <1>6 DEF TypeOK
  <2> QED BY <1>1, <2>1, <2>2 DEF PaawInv
<1>12. GoneInv'
  <2>1. CASE gateway = "gone"
    BY <2>1, <1>1, <1>5, <1>7 DEF GoneInv
  <2>2. CASE gateway # "gone"
    BY <2>2, <1>5, <1>7, OneAlive DEF GoneInv, OneLiveChild
  <2> QED BY <2>1, <2>2
<1>13. HomeInv'
  BY <1>1, <1>3, <1>6 DEF HomeInv, Here
<1> QED BY <1>2, <1>8, <1>9, <1>10, <1>11, <1>12, <1>13

\* A settings request moves the home only while no child is registered, and
\* a start under way is marked.
LEMMA SettingsStep ==
  ASSUME IInv, gateway # "gone", NEW r \in Requests, Settings(r) PROVE IInv'
<1> USE DEF IInv
<1>1. UNCHANGED <<job, step, jobChild, jobHome, paawChild, os, dirs, struck, uploads, gateway>>
  BY DEF Settings, childVars
<1>2. CASE AwaitBody(r) /\ moved' = moved
  <2>1. ConfigInv' /\ cfg' = cfg
    BY <1>2, AwaitStep DEF AwaitBody
  <2> QED BY <1>1, <1>2, <2>1
          DEF TypeOK, JobInv, AliveInv, PaawInv, GoneInv, HomeInv, ConfigInv, Here
<1>3. CASE SaveGatewayCfg(r) /\ moved' = moved
  <2>1. ConfigInv'
    BY <1>3, OpenStep, WriteStep, RenameStep, FailStep DEF SaveGatewayCfg
  <2>2. cfg' = cfg
    BY <1>3 DEF SaveGatewayCfg, OpenTmp, WriteTmp, RenameTmp, SaveFails
  <2> QED BY <1>1, <1>3, <2>1, <2>2
          DEF TypeOK, JobInv, AliveInv, PaawInv, GoneInv, HomeInv, ConfigInv, Here
<1>4. CASE /\ ApplySettings(r, PaawRunning)
           /\ moved' = (moved \/ (job \in {"start", "restart"} /\ cfg'.paawHome # cfg.paawHome))
  <2>1. ConfigInv'
    BY <1>4, ApplyStep
  <2>2. moved' \in BOOLEAN
    BY <1>4 DEF TypeOK
  <2>3. TypeOK'
    BY <1>1, <2>1, <2>2 DEF TypeOK, ConfigInv
  <2>4. JobInv' /\ AliveInv' /\ PaawInv' /\ GoneInv'
    BY <1>1 DEF JobInv, AliveInv, PaawInv, GoneInv
  <2>5. PaawRunning => cfg'.paawHome = cfg.paawHome
    BY <1>4 DEF ApplySettings, MayMoveHome
  <2>6. paawChild # None => PaawRunning
    BY DEF PaawInv, PaawRunning, ExitCodeNull
  <2>7. HomeInv'
    <3> SUFFICES ASSUME ~moved' PROVE HomeInv'
      BY DEF HomeInv
    <3>1. ~moved /\ (job \in {"start", "restart"} => cfg'.paawHome = cfg.paawHome)
      BY <1>4
    <3>2. step \in {"prepare", "port", "health", "window"} => cfg'.paawHome = cfg.paawHome
      BY <3>1 DEF JobInv, Starting
    <3> QED BY <1>1, <2>5, <2>6, <3>1, <3>2 DEF HomeInv, Here
  <2> QED BY <2>1, <2>3, <2>4, <2>7
<1> QED BY <1>2, <1>3, <1>4 DEF Settings

\* An upload becomes a job or is dropped.
LEMMA UploadStep ==
  ASSUME IInv, gateway # "gone", NEW u \in Uploads, Upload(u) PROVE IInv'
<1> USE DEF IInv
<1>1. UNCHANGED configVars /\ UNCHANGED <<jobChild, jobHome, moved, paawChild, os, dirs, struck, gateway>>
  BY DEF Upload, childVars
<1>2. ConfigInv' /\ cfg' = cfg
  BY <1>1, ConfigIdle DEF configVars
<1>3. \/ UNCHANGED <<job, step>>
      \/ job = "none" /\ job' = "work" /\ step' = "working"
  BY DEF Upload
<1>4. uploads' \in [Uploads -> {"arrive", "body", "done"}]
  BY DEF Upload, TypeOK
<1>5. TypeOK'
  BY <1>1, <1>2, <1>3, <1>4 DEF TypeOK, ConfigInv, Jobs
<1>6. JobInv' /\ AliveInv' /\ PaawInv' /\ GoneInv' /\ HomeInv'
  BY <1>1, <1>2, <1>3 DEF JobInv, AliveInv, PaawInv, GoneInv, HomeInv, Here, Starting, InHand
<1> QED BY <1>2, <1>5, <1>6

\* The gateway leaves: at once when no child is running.
LEMMA LeaveStep == ASSUME IInv, Leave PROVE IInv'
<1> USE DEF IInv
<1>1. UNCHANGED <<configVars, jobVars, childVars, uploads>>
  BY DEF Leave
<1>2. ConfigInv' /\ cfg' = cfg
  BY <1>1, ConfigIdle DEF configVars
<1>3. gateway' \in {"leaving", "gone"} /\ (gateway' = "gone" => ~PaawRunning)
  BY DEF Leave
<1>4. TypeOK'
  BY <1>1, <1>2, <1>3 DEF TypeOK, ConfigInv, jobVars, childVars
<1>5. JobInv' /\ AliveInv' /\ PaawInv' /\ HomeInv'
  BY <1>1, <1>2 DEF JobInv, AliveInv, PaawInv, HomeInv, Here, jobVars, childVars
<1>6. GoneInv'
  <2> SUFFICES ASSUME gateway' = "gone", NEW c \in Children, os'[c] = "alive"
               PROVE  step' \in {"health", "window"}
    BY DEF GoneInv
  <2>1. os[c] = "alive" /\ step' = step
    BY <1>1 DEF jobVars, childVars
  <2>2. c # paawChild
    BY <1>3, <2>1, NoneAssumption DEF PaawRunning, ExitCodeNull
  <2> QED BY <2>1, <2>2 DEF AliveInv, PaawInv, InHand
<1> QED BY <1>2, <1>4, <1>5, <1>6

-----------------------------------------------------------------------------
(* The invariant                                                           *)

\* The invariant holds of the first state, whatever the scenario.
LEMMA Initially == Init => IInv
<1> SUFFICES ASSUME Init PROVE IInv
  OBVIOUS
<1>1. PICK present \in Scenarios : ConfigInit(present.requests)
  BY DEF Init
<1>2. ConfigInv
  <2>1. \A r \in Requests : requests[r] \in Request /\ requests[r].next \notin Saving
    BY <1>1 DEF ConfigInit, Finished, Request, Saving
  <2> QED BY <1>1, <2>1
          DEF ConfigInv, ConfigInit, ConfigTypeOK, FileInv, SettingsPersist, UnderWay, Contents
<1>3. TypeOK
  BY <1>2 DEF Init, TypeOK, ConfigInv
<1>4. JobInv /\ AliveInv /\ PaawInv /\ GoneInv /\ HomeInv
  BY DEF Init, JobInv, AliveInv, PaawInv, GoneInv, HomeInv, Starting, InHand
<1> QED BY <1>2, <1>3, <1>4 DEF IInv

\* Every step keeps the invariant, action by action.
LEMMA StepKeeps == IInv /\ [Next]_vars => IInv'
<1> SUFFICES ASSUME IInv, [Next]_vars PROVE IInv'
  OBVIOUS
<1>1. CASE UNCHANGED vars
  <2>1. ConfigInv'
    BY <1>1, ConfigIdle DEF IInv, vars
  <2> QED BY <1>1, <2>1 DEF IInv, TypeOK, ConfigInv, JobInv, AliveInv, PaawInv, GoneInv, HomeInv, Here,
                            vars, configVars, jobVars, childVars
<1>2. ASSUME NEW kind \in Jobs, gateway # "gone", Begin(kind) PROVE IInv'
  BY <1>2, BeginStep
<1>3. CASE gateway # "gone" /\ JobStep
  <2>1. CASE Killed
    <3>1. jobChild \in Children /\ struck' \in BOOLEAN
      BY <2>1 DEF Killed, IInv, JobInv, InHand, TypeOK
    <3> QED BY <2>1, <3>1, ExitsStep DEF Killed
  <2> QED BY <1>3, <2>1, WorkStep, CurrentStep, PrepareStep, SpawnStep, HealthStep, RegisterStep,
             StoppedStep DEF JobStep
<1>4. ASSUME NEW r \in Requests, gateway # "gone", Settings(r) PROVE IInv'
  BY <1>4, SettingsStep
<1>5. ASSUME NEW u \in Uploads, gateway # "gone", Upload(u) PROVE IInv'
  BY <1>5, UploadStep
<1>6. CASE Leave
  BY <1>6, LeaveStep
<1>7. CASE KilledByBye
  <2>1. paawChild \in Children /\ struck' \in BOOLEAN
    BY <1>7 DEF KilledByBye, IInv, TypeOK
  <2> QED BY <1>7, <2>1, ExitsStep DEF KilledByBye
<1>8. ASSUME NEW c \in Children, Die(c) PROVE IInv'
  <2>1. struck' \in BOOLEAN
    BY <1>8 DEF Die, IInv, TypeOK
  <2> QED BY <1>8, <2>1, ExitsStep DEF Die
<1> QED BY <1>1, <1>2, <1>3, <1>4, <1>5, <1>6, <1>7, <1>8 DEF Next

\* The invariant holds in every state, whatever the scenario.
THEOREM Invariance == Spec => []IInv
BY Initially, StepKeeps, PTL DEF Spec

\* Every variable keeps its type (src/ui/server.mjs, lib/process.mjs, lib/config.mjs).
THEOREM TypeCorrect == Spec => []TypeOK
<1>1. IInv => TypeOK
  BY DEF IInv
<1> QED BY <1>1, Invariance, PTL

\* Two servers are never alive at once, in any interleaving of starts, stops,
\* restarts, deaths and settings.
THEOREM NeverTwoServers == Spec => []OneLiveChild
BY OneAlive, Invariance, PTL

\* A server that is alive is registered or in the hand of the running job.
THEOREM NoServerLost == Spec => []LiveChildTracked
<1>1. IInv => LiveChildTracked
  BY DEF IInv, AliveInv, JobInv, LiveChildTracked, InHand
<1> QED BY <1>1, Invariance, PTL

\* A child with an exit code is never shown as running.
THEOREM RegisterIsHonest == Spec => []NoExitedChildRegistered
<1>1. IInv => NoExitedChildRegistered
  BY DEF IInv, PaawInv, NoExitedChildRegistered
<1> QED BY <1>1, Invariance, PTL

\* A registered server runs on the home the gateway shows, unless settings moved
\* the home while its start was under way.
THEOREM ServerAndGatewayAgree == Spec => []OneHome
<1>1. IInv => OneHome
  BY DEF IInv, HomeInv, OneHome, Here
<1> QED BY <1>1, Invariance, PTL

\* A gateway that is gone has left no registered server alive.
THEOREM ByeTakesServerAlong == Spec => []ExitTakesServerAlong
<1>1. IInv => ExitTakesServerAlong
  <2> SUFFICES ASSUME IInv, gateway = "gone", NEW c \in Children, os[c] = "alive"
               PROVE  job \in {"start", "restart"} /\ c = jobChild /\ c # paawChild
    BY DEF ExitTakesServerAlong
  <2>1. step \in {"health", "window"}
    BY DEF IInv, GoneInv
  <2>2. job \in {"start", "restart"} /\ c = jobChild
    BY <2>1 DEF IInv, JobInv, AliveInv, Starting
  <2>3. paawChild = None
    BY <2>1 DEF IInv, PaawInv
  <2> QED BY <2>2, <2>3, NoneAssumption
<1> QED BY <1>1, Invariance, PTL

-----------------------------------------------------------------------------
(* What a job and a leaving gateway wait for                               *)

\* Until a signal from outside, a child that a signal has ended is in nobody's
\* hands any more: its 'exit' has been seen.
SeenInv ==
  ~struck =>
    /\ step # "stuck"
    /\ step \in {"health", "window"} => os[jobChild] # "signalled"
    /\ paawChild # None => os[paawChild] # "signalled"
    /\ gateway = "leaving" => paawChild # None

\* A child's end is seen by whoever awaits it.
LEMMA SeenExits ==
  ASSUME IInv, SeenInv, NEW c \in Children, Exits(c, {"exited", "signalled"}),
         \/ struck' = struck /\ step = "stop" /\ c = jobChild
         \/ struck' = struck /\ c = paawChild
         \/ struck' = (struck \/ os'[c] = "signalled")
  PROVE  SeenInv'
<1>1. /\ UNCHANGED <<step, jobChild>> /\ os[c] = "alive"
      /\ \A d \in Children : d # c => os'[d] = os[d]
      /\ paawChild' = IF paawChild = c THEN None ELSE paawChild
      /\ gateway' = IF gateway = "leaving" /\ paawChild = c THEN "gone" ELSE gateway
  BY DEF Exits, jobVars, IInv, TypeOK
<1>2. step \in {"health", "window"} => paawChild = None /\ jobChild \in Children
  BY DEF IInv, PaawInv, JobInv, InHand
<1>3. c = paawChild => paawChild # None
  BY NoneAssumption
<1>4. paawChild \in Children \cup {None}
  BY DEF IInv, TypeOK
<1>5. CASE struck' = struck
  BY <1>1, <1>2, <1>3, <1>4, <1>5 DEF SeenInv
<1>6. CASE struck' = (struck \/ os'[c] = "signalled")
  <2> SUFFICES ASSUME ~struck' PROVE SeenInv'
    BY DEF SeenInv
  <2>1. ~struck /\ os'[c] # "signalled"
    BY <1>6
  <2> QED BY <1>1, <1>2, <1>3, <1>4, <2>1 DEF SeenInv
<1> QED BY <1>5, <1>6

\* Every step keeps what is seen.
LEMMA SeenStep == IInv /\ SeenInv /\ [Next]_vars => SeenInv'
<1> SUFFICES ASSUME IInv, SeenInv, [Next]_vars PROVE SeenInv'
  OBVIOUS
<1>1. CASE UNCHANGED vars
  BY <1>1 DEF SeenInv, vars, jobVars, childVars
<1>2. ASSUME NEW kind \in Jobs, Begin(kind) PROVE SeenInv'
  BY <1>2 DEF SeenInv, Begin, childVars, KillChild, PaawRunning, ExitCodeNull, IInv, TypeOK
<1>3. CASE gateway # "gone" /\ JobStep
  <2>1. CASE WorkDone \/ ReadCurrent \/ Prepare
    BY <2>1 DEF WorkDone, ReadCurrent, Prepare, EndJob, Goto, JobOnly, childVars, SeenInv
  <2>2. CASE SpawnIfPortFree
    BY <2>2 DEF SpawnIfPortFree, EndJob, Goto, JobOnly, SeenInv, IInv, TypeOK, PaawInv
  <2>3. CASE Health
    BY <2>3 DEF Health, KillChild, Goto, JobOnly, childVars, SeenInv, IInv, JobInv, InHand, TypeOK
  <2>4. CASE Register
    BY <2>4 DEF Register, ExitCodeNull, EndJob, JobOnly, SeenInv, IInv, PaawInv
  <2>5. CASE Killed
    <3>1. jobChild \in Children
      BY <2>5 DEF Killed, IInv, JobInv, InHand
    <3> QED BY <2>5, <3>1, SeenExits DEF Killed
  <2>6. CASE Stopped
    BY <2>6 DEF Stopped, EndJob, Goto, JobOnly, SeenInv, IInv, PaawInv, TypeOK
  <2> QED BY <1>3, <2>1, <2>2, <2>3, <2>4, <2>5, <2>6 DEF JobStep
<1>4. ASSUME NEW r \in Requests, Settings(r) PROVE SeenInv'
  BY <1>4 DEF Settings, childVars, SeenInv
<1>5. ASSUME NEW u \in Uploads, Upload(u) PROVE SeenInv'
  BY <1>5 DEF Upload, childVars, SeenInv
<1>6. CASE Leave
  BY <1>6 DEF Leave, PaawRunning, jobVars, childVars, SeenInv
<1>7. CASE KilledByBye
  <2>1. paawChild \in Children
    BY <1>7 DEF KilledByBye, IInv, TypeOK
  <2> QED BY <1>7, <2>1, SeenExits DEF KilledByBye
<1>8. ASSUME NEW c \in Children, Die(c) PROVE SeenInv'
  BY <1>8, SeenExits DEF Die
<1> QED BY <1>1, <1>2, <1>3, <1>4, <1>5, <1>6, <1>7, <1>8 DEF Next

\* As long as no signal from outside ends a child, no job and no leaving gateway
\* awaits an 'exit' event that has been.
THEOREM WaitsForWhatIsToCome == Spec => []AwaitedExitIsToCome
<1>1. Init => SeenInv
  BY DEF Init, SeenInv
<1>2. IInv /\ SeenInv => AwaitedExitIsToCome
  BY DEF IInv, PaawInv, SeenInv, AwaitedExitIsToCome
<1> QED BY <1>1, <1>2, SeenStep, Invariance, PTL DEF Spec

\* A job that is stuck is stuck for good, and no other ever begins.
THEOREM StuckJobStays == Spec => StuckForGood
<1>1. IInv /\ [Next]_vars => [step = "stuck" => step' = "stuck" /\ job' = job]_vars
  <2> SUFFICES ASSUME IInv, Next, step = "stuck" PROVE step' = "stuck" /\ job' = job
    BY DEF vars
  <2>1. job # "none"
    BY DEF IInv, JobInv
  <2>2. ASSUME NEW kind \in Jobs PROVE ~Begin(kind)
    BY <2>1 DEF Begin
  <2>3. ~JobStep
    BY DEF JobStep, WorkDone, ReadCurrent, Prepare, SpawnIfPortFree, Health, Register, Killed, Stopped
  <2>4. ASSUME NEW c \in Children, NEW ways, Exits(c, ways) PROVE step' = step /\ job' = job
    BY <2>4 DEF Exits, jobVars
  <2>5. ASSUME NEW c \in Children, Die(c) PROVE step' = step /\ job' = job
    BY <2>4, <2>5 DEF Die
  <2>6. CASE KilledByBye
    BY <2>4, <2>6 DEF KilledByBye, IInv, TypeOK
  <2>7. ASSUME NEW u \in Uploads, Upload(u) PROVE step' = step /\ job' = job
    BY <2>1, <2>7 DEF Upload
  <2>8. ASSUME NEW r \in Requests, Settings(r) PROVE step' = step /\ job' = job
    BY <2>8 DEF Settings
  <2> QED BY <2>2, <2>3, <2>5, <2>6, <2>7, <2>8 DEF Next, Leave, jobVars
<1> QED BY <1>1, Invariance, PTL DEF Spec, StuckForGood

-----------------------------------------------------------------------------
(* The settings                                                            *)

\* As long as saves do not overlap, gateway.json is whole at every step of one.
THEOREM SettingsAreKept == Spec => []SettingsPersist
<1>1. IInv => SettingsPersist
  BY DEF IInv, ConfigInv
<1> QED BY <1>1, Invariance, PTL
=============================================================================
