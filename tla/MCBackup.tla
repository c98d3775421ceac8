------------------------------ MODULE MCBackup ------------------------------
(* Backup over two files and three hours; two archives kept, one, none, and  *)
(* what an operator may write in the place of a number.                      *)
EXTENDS Backup, TLC
CONSTANTS db, state
\* No action reads the answer or what was not deleted.
Read == <<hour, archives, data, live, requests, maxBackups>>
Alike == Permutations(Files)
ChosenLimits == {NaN, -1, 0, 2}
=============================================================================
