---------------------------- MODULE AdminConfig ----------------------------
(***************************************************************************)
(* config.json of the admin platform and its copy in memory                *)
(* (src/server/config.mjs, and the credentials of password.mjs).           *)
(*                                                                         *)
(* The document is three things: the users' credentials, one ordinary      *)
(* setting (schedule), and where the bind host comes from.  A credential   *)
(* is whose password it verifies and whether it must be re-hashed ("old":  *)
(* plaintext, or bcrypt of too low a cost).  A write replaces the file by  *)
(* temp and rename: it is done whole or not at all.                        *)
(***************************************************************************)
EXTENDS Sequences
CONSTANTS Users,
          Schedules, DefaultSchedule,  \* values of the ordinary setting
          Missing, Corrupt,            \* no config.json; one that is no JSON object
          None

VARIABLES file,       \* config.json
          config,     \* the document in memory
          override,   \* an environment credential was applied at the last boot
          saves,      \* calls of saveConfig waiting in the write queue
          edited,     \* (observer) users whose credential the operator has edited since boot
          missed,     \* (observer) users whose re-hashed credential could not be written
          settled     \* (observer) the schedule a save has last written

configVars == <<file, config, override, saves, edited, missed, settled>>

Cred == [pw : Users \cup {"env", "edited", "default"}, form : {"old", "bcrypt"}]
Docs == [users : [Users -> Cred \cup {None}], schedule : Schedules, host : {"file", "env"}]
FromOperator == {doc \in Docs : doc.host = "file"}   \* nothing of the environment's yet
Changes == [users : BOOLEAN, schedule : Schedules \cup {None}]

ASSUME ConfigAssumption ==
  /\ DefaultSchedule \in Schedules
  /\ None \notin Schedules \cup Cred
  /\ Missing \notin Docs /\ Corrupt \notin Docs

DefaultDoc == [users |-> [u \in Users |-> None], schedule |-> DefaultSchedule, host |-> "file"]
IsDoc == file \notin {Missing, Corrupt}

\* loadConfig
Loaded == IF IsDoc THEN file ELSE DefaultDoc

ConfigTypeOK ==
  /\ file \in Docs \cup {Missing, Corrupt}
  /\ config \in Docs
  /\ override \in BOOLEAN
  /\ saves \in Seq(Changes)
  /\ edited \subseteq Users /\ missed \subseteq Users
  /\ settled \in Schedules

ConfigInit ==
  /\ config = DefaultDoc
  /\ override = FALSE
  /\ saves = <<>>
  /\ edited = {} /\ missed = {}
  /\ settled = Loaded.schedule

IsWeakDefaultPassword(cred) == cred = [pw |-> "default", form |-> "old"]

\* validateAuthConfig: without a credential, or with a shipped default, the
\* platform refuses to start.
Valid(doc) ==
  /\ \E u \in Users : doc.users[u] # None
  /\ \A u \in Users : ~IsWeakDefaultPassword(doc.users[u])

\* A password given in plain is hashed at once; a given hash may be of too low a cost.
ApplyPasswordOverride(doc, admin, form) ==
  IF form = None THEN doc ELSE [doc EXCEPT !.users[admin] = [pw |-> "env", form |-> form]]

\* createConfig: the environment's host, and a credential for one user, are
\* laid over the document in memory.
LoadConfig ==
  \E host \in {Loaded.host, "env"}, form \in {None, "old", "bcrypt"}, admin \in Users :
    LET doc == ApplyPasswordOverride([Loaded EXCEPT !.host = host], admin, form)
    IN /\ Valid(doc)
       /\ config' = doc
       /\ override' = (form # None)
       /\ edited' = {} /\ missed' = {} /\ saves' = <<>>
       /\ UNCHANGED <<file, settled>>

\* verifyPassword never answers yes for a user without a credential.
Verifiable(u) == config.users[u] # None
NeedsRehash(u) == config.users[u].form = "old"

-----------------------------------------------------------------------------
(* The writers                                                             *)

\* Mutant: users is taken for file data also under an override.
DifferenceAlsoUnderOverride ==
  [users    |-> config.users # file.users,
   schedule |-> IF config.schedule # file.schedule THEN config.schedule ELSE None]

\* saveConfig(): what memory has and the file has not; host, and users under
\* an override, come from the environment and are left out.
Difference ==
  [users    |-> ~override /\ config.users # file.users,
   schedule |-> IF config.schedule # file.schedule THEN config.schedule ELSE None]

\* The difference is taken at the call, and written when its turn comes.
CallSave ==
  \/ \E s \in Schedules : saves' = Append(saves, [users |-> FALSE, schedule |-> s])
  \/ /\ IsDoc
     /\ Difference # [users |-> FALSE, schedule |-> None]
     /\ saves' = Append(saves, Difference)

\* Mutant: a key the patch lacks is written as undefined.
MergedVerbatim(doc, change) ==
  [doc EXCEPT !.users = IF change.users THEN config.users ELSE @, !.schedule = change.schedule]

\* A change names the live users, not a copy of them.
Merged(doc, change) ==
  [doc EXCEPT !.users    = IF change.users THEN config.users ELSE @,
              !.schedule = IF change.schedule = None THEN @ ELSE change.schedule]

\* updateConfigOnDisk under its turn of the queue; with no file the patch
\* alone is the document, a corrupt one is refused, and the write may fail.
RunSave ==
  /\ saves # <<>>
  /\ saves' = Tail(saves)
  /\ UNCHANGED <<config, override, edited, missed>>
  /\ \/ UNCHANGED <<file, settled>>
     \/ /\ file # Corrupt
        /\ file' = Merged(Loaded, Head(saves))
        /\ settled' = IF Head(saves).schedule = None THEN settled ELSE Head(saves).schedule

\* Mutant: the document in memory is written as it is.
WholeConfig(live) == [config EXCEPT !.users = live]

\* saveCredentialUpgrades: each user of the file gets its live credential; a
\* user the file has not is not created.
CredentialUpgrades(live) ==
  [file EXCEPT !.users =
    [u \in Users |-> IF file.users[u] = None \/ live[u] = None THEN file.users[u] ELSE live[u]]]

\* A login re-hashes user u's password and saves it, outside the queue, in the
\* same turn; a failed save is logged and the login goes on.
UpgradeCredential(u) ==
  LET live == [config.users EXCEPT ![u].form = "bcrypt"]
  IN /\ config' = [config EXCEPT !.users = live]
     /\ \/ /\ missed' = missed \cup {u}
           /\ UNCHANGED file
        \/ /\ missed' = {}
           /\ file' = IF IsDoc THEN CredentialUpgrades(live) ELSE file
     /\ UNCHANGED <<override, saves, edited, settled>>

\* The operator sets a user's bcrypt hash in the file, as the README says.
EditCredential(u) ==
  /\ IsDoc
  /\ file' = [file EXCEPT !.users[u] = [pw |-> "edited", form |-> "bcrypt"]]
  /\ edited' = edited \cup {u}
  /\ UNCHANGED <<config, override, saves, missed, settled>>
=============================================================================
