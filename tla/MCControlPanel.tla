-------------------------- MODULE MCControlPanel --------------------------
(***************************************************************************)
(* ControlPanel in three scenarios: three children in turn and an upload;  *)
(* two children and a settings request; two settings requests at once.     *)
(***************************************************************************)
EXTENDS ControlPanel
CONSTANTS c1, c2, c3, r1, r2, u1

MCChildren == {[children |-> {c1, c2, c3}, requests |-> {}, uploads |-> {u1}]}
MCScenarios == MCChildren \cup
  {[children |-> {c1, c2}, requests |-> {r1}, uploads |-> {}],
   [children |-> {}, requests |-> {r1, r2}, uploads |-> {}]}
=============================================================================
