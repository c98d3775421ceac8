---------------------------- MODULE MCPaawControl ----------------------------
(* PaawControl with three requests at once. *)
EXTENDS PaawControl
CONSTANTS r1, r2, r3
=============================================================================
