---------------------------- MODULE VersionStore ----------------------------
(***************************************************************************)
(* What the bootloader promises of the versions on disk, whatever command  *)
(* runs and wherever it is killed: the pointer (current.json) goes to a    *)
(* version only when that is completely installed, forward unless a person *)
(* uploads, and the version it names is taken apart by an upload only.  A  *)
(* kill is no step of its own: what is on disk stays.  Bootloader is shown *)
(* to implement it.                                                        *)
(***************************************************************************)
EXTENDS Naturals
CONSTANTS Versions, None

VARIABLES pointer,   \* the version current.json names, or None
          whole,     \* the versions that are completely installed
          hand       \* a person's upload is at work

vars == <<pointer, whole, hand>>

Init == pointer = None /\ whole = {} /\ hand = FALSE

\* npm install ends well, for an installation or a start.
Complete == /\ \E v \in Versions \ whole : whole' = whole \cup {v}
            /\ UNCHANGED <<pointer, hand>>

\* The directory of a version that is installed again is removed first.
Discard == /\ \E v \in whole : /\ v = pointer => hand
                               /\ whole' = whole \ {v}
           /\ UNCHANGED <<pointer, hand>>

\* Also to the version it names already.
Point == /\ \E v \in whole : /\ pointer = None \/ v > pointer \/ hand
                             /\ pointer' = v
         /\ hand' = FALSE
         /\ UNCHANGED whole

TakeUpload == hand' = TRUE /\ UNCHANGED <<pointer, whole>>

\* An upload fails or is killed.
DropUpload == hand' = FALSE /\ UNCHANGED <<pointer, whole>>

Next == Complete \/ Discard \/ Point \/ TakeUpload \/ DropUpload

Spec == Init /\ [][Next]_vars
=============================================================================
