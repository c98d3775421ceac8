--------------------------- MODULE MCAdminAccess ---------------------------
(***************************************************************************)
(* AdminAccess with two users, in five scenarios: clients that guess, at   *)
(* two addresses and at one address for longer; clients that know their    *)
(* passwords, with old credentials, saves, edits and crashes; and sessions *)
(* with a maximum age of 0 and 1.                                          *)
(***************************************************************************)
EXTENDS AdminAccess
CONSTANTS root, viewer, i1, i2

Doc(cr, cv) == [users |-> [u \in Users |-> IF u = root THEN cr ELSE cv],
                schedule |-> DefaultSchedule, host |-> "file"]
Own(u, form) == [pw |-> u, form |-> form]
Default == [pw |-> "default", form |-> "old"]

Hashed == {Doc(Own(root, "bcrypt"), Own(viewer, "bcrypt"))}
Legacy == {Doc(Own(root, "old"), v) : v \in {Own(viewer, "old"), None, Default}}

MCScenarios == {
  [files |-> Hashed, ips |-> {i1, i2}, guesses |-> TRUE, env |-> FALSE,
   happens |-> {"tick"}, events |-> 1, maxAge |-> 2],
  [files |-> Hashed, ips |-> {i1}, guesses |-> TRUE, env |-> FALSE,
   happens |-> {"tick", "crash"}, events |-> 2, maxAge |-> 1],
  [files |-> Legacy \cup {Missing, Corrupt}, ips |-> {i1}, guesses |-> FALSE, env |-> TRUE,
   happens |-> {"save", "edit", "crash"}, events |-> 3, maxAge |-> 2],
  [files |-> Hashed, ips |-> {i1}, guesses |-> FALSE, env |-> FALSE,
   happens |-> {"tick"}, events |-> 3, maxAge |-> 0],
  [files |-> Hashed, ips |-> {i1}, guesses |-> FALSE, env |-> FALSE,
   happens |-> {"tick", "crash"}, events |-> 3, maxAge |-> 1]}
=============================================================================
