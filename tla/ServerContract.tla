--------------------------- MODULE ServerContract ---------------------------
(***************************************************************************)
(* What the process manager of the admin platform promises its callers,    *)
(* whatever the timers, signals and promises behind it do: there is one    *)
(* server, it is booted only while it is down, and "it has stopped" is     *)
(* answered only while it is down (the F-01 contract in the comments of    *)
(* src/server/paaw-control.mjs).  A kill that reports an error may make     *)
(* the manager lose sight of its server: nothing is promised of the server *)
(* from then on, and still what each caller is told keeps its order.       *)
(* PaawControl is shown to implement it.                                   *)
(***************************************************************************)
CONSTANT Requests

VARIABLES server,    \* "up" while a server process is alive, or "lost" from sight
          answer     \* what each caller that asked for a stop has been told

vars == <<server, answer>>

Init == /\ server = "down"
        /\ answer = [r \in Requests |-> "none"]

Boot == /\ server = "down"
        /\ server' = "up"
        /\ UNCHANGED answer

Die == /\ server = "up"
       /\ server' = "down"
       /\ UNCHANGED answer

\* The signal to the server fails with an event, at once or later.
Lost == server = "up" /\ server' = "lost"
Lose == Lost /\ UNCHANGED answer

Ask(r) == /\ answer[r] = "none"
          /\ answer' = [answer EXCEPT ![r] = "asked"]
          /\ Lost \/ UNCHANGED server

Tell(R, word) == [r \in Requests |-> IF r \in R THEN word ELSE answer[r]]

\* Everyone who shares the stop learns its outcome in one step.
Confirm == /\ server # "up"
           /\ \E R \in SUBSET {r \in Requests : answer[r] = "asked"} :
                answer' = Tell(R, "stopped")
           /\ UNCHANGED server

Deny == /\ \E R \in SUBSET {r \in Requests : answer[r] \in {"none", "asked"}} :
             answer' = Tell(R, "failed")
        /\ UNCHANGED server

Next == \/ Boot \/ Die \/ Lose \/ Confirm \/ Deny
        \/ \E r \in Requests : Ask(r)

Spec == Init /\ [][Next]_vars
=============================================================================
