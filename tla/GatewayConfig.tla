--------------------------- MODULE GatewayConfig ---------------------------
(***************************************************************************)
(* gateway.json, its copy in memory, and the settings requests that change *)
(* both (src/lib/config.mjs, POST /api/settings of src/ui/server.mjs).     *)
(*                                                                         *)
(* Every save writes the same gateway.json.tmp and renames it.  A request  *)
(* holds the file it has opened: a rename by another one makes it          *)
(* gateway.json, and a second rename takes it out of the directory.        *)
(***************************************************************************)
CONSTANTS Homes, Servers,   \* values of paawHome and of packageServer
          Requests,         \* settings requests, each made once
          Empty, Torn,      \* a truncated file; one mixed of two writes
          None

VARIABLES cfg,         \* GATEWAY_CFG; applyHome makes paawHome the home at once
          json, tmp,   \* gateway.json and gateway.json.tmp
          requests,    \* each request: what it does next, the text it writes, where
          overlapped,  \* (observer) two saves have been under way at once
          unsaved      \* (observer) memory has changed since the last save, or one failed

configVars == <<cfg, json, tmp, requests, overlapped, unsaved>>

Cfgs == [paawHome : Homes, packageServer : Servers]
Contents == Cfgs \cup {Empty, Torn}
Saving == {"open", "write", "rename"}
Request == [next : Saving \cup {"arrive", "apply", "done"}, text : Cfgs \cup {None},
            fd : {"none", "tmp", "json", "unlinked"}]

ASSUME ContentAssumption == Empty \notin Cfgs /\ Torn \notin Cfgs /\ None \notin Contents

Finished == [next |-> "done", text |-> None, fd |-> "none"]

ConfigTypeOK ==
  /\ cfg \in Cfgs
  /\ json \in Contents /\ tmp \in Contents \cup {None}
  /\ requests \in [Requests -> Request]
  /\ overlapped \in BOOLEAN /\ unsaved \in BOOLEAN

ConfigInit(present) ==
  /\ cfg \in Cfgs
  /\ json = cfg /\ tmp = None
  /\ requests = [r \in Requests |-> IF r \in present THEN [Finished EXCEPT !.next = "arrive"] ELSE Finished]
  /\ overlapped = FALSE /\ unsaved = FALSE

UnderWay == {r \in Requests : requests[r].next \in Saving}

Advance(r, from, to) ==
  /\ requests[r].next = from
  /\ requests' = [requests EXCEPT ![r].next = to]

\* The body is awaited.
AwaitBody(r) == Advance(r, "arrive", "apply") /\ UNCHANGED <<cfg, json, tmp, overlapped, unsaved>>

\* Mutant: the home is moved under a running server.
MayMoveAnyway(running) == TRUE
MayMoveHome(running) == ~running

\* The body is here.  Its fields are taken in turn, packageServer, paawHome,
\* semgrepPath: one that is refused ends the request, and what the ones before
\* it have set stays in memory.
ApplySettings(r, running) ==
  /\ UNCHANGED <<json, tmp>>
  /\ \E new \in Cfgs :
       /\ new.paawHome # cfg.paawHome => MayMoveHome(running)
       /\ cfg' = new
       /\ \/ /\ Advance(r, "apply", "done")
             /\ unsaved' = (unsaved \/ cfg' # cfg)
             /\ UNCHANGED overlapped
          \/ /\ requests[r].next = "apply"
             /\ requests' = [requests EXCEPT ![r].next = "open", ![r].text = new]
             /\ unsaved' = FALSE
             /\ overlapped' = (overlapped \/ UnderWay # {})

-----------------------------------------------------------------------------
(* saveGatewayCfg, between its awaits                                      *)

\* Mutant: gateway.json is written in place.
OpenInPlace(r) ==
  /\ requests[r].next = "open"
  /\ requests' = [requests EXCEPT ![r].next = "write", ![r].fd = "json"]
  /\ json' = Empty
  /\ UNCHANGED <<cfg, tmp, overlapped, unsaved>>

OpenTmp(r) ==
  /\ requests[r].next = "open"
  /\ requests' = [requests EXCEPT ![r].next = "write", ![r].fd = "tmp"]
  /\ tmp' = Empty
  /\ UNCHANGED <<cfg, json, overlapped, unsaved>>

\* A text written over a longer one leaves the end of that.
Overlaid(content, text) == IF content = Empty THEN {text} ELSE {text, Torn}

WriteTmp(r) ==
  /\ Advance(r, "write", "rename")
  /\ tmp'  \in IF requests[r].fd = "tmp"  THEN Overlaid(tmp, requests[r].text)  ELSE {tmp}
  /\ json' \in IF requests[r].fd = "json" THEN Overlaid(json, requests[r].text) ELSE {json}
  /\ UNCHANGED <<cfg, overlapped, unsaved>>

Renamed(fd) == CASE fd = "tmp" -> "json" [] fd = "json" -> "unlinked" [] OTHER -> fd

RenameTmp(r) ==
  /\ requests[r].next = "rename" /\ tmp # None
  /\ json' = tmp /\ tmp' = None
  /\ requests' = [q \in Requests |->
       IF q = r THEN Finished ELSE [requests[q] EXCEPT !.fd = Renamed(@)]]
  /\ UNCHANGED <<cfg, overlapped, unsaved>>

\* The disk is full, or another save has renamed the file: an answer 500.
SaveFails(r) ==
  /\ requests[r].next \in Saving
  /\ requests[r].next = "rename" => tmp = None
  /\ requests' = [requests EXCEPT ![r] = Finished]
  /\ unsaved' = TRUE
  /\ UNCHANGED <<cfg, json, tmp, overlapped>>

SaveGatewayCfg(r) == OpenTmp(r) \/ WriteTmp(r) \/ RenameTmp(r) \/ SaveFails(r)

-----------------------------------------------------------------------------
\* A gateway killed at any step of a save leaves a whole gateway.json, and the
\* file has what memory has once no save is under way, as long as two saves
\* never overlap; a refused request and a failed save put that off to the next.
SettingsPersist ==
  \/ overlapped
  \/ /\ json \in Cfgs
     /\ UnderWay = {} /\ ~unsaved => json = cfg
=============================================================================
