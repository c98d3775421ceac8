------------------------------- MODULE Backup -------------------------------
(***************************************************************************)
(* Backup archives of the admin platform: src/server/backup.mjs and its    *)
(* three routes in src/server.mjs.                                         *)
(*                                                                         *)
(* An archive is named by the hour it was made in, so a second backup in   *)
(* an hour overwrites the first.  tar is external: `czf' truncates its     *)
(* target first and may fail at any point, also with the archive complete  *)
(* ("file changed as we read it" exits 1); `xzf' writes the archived files *)
(* over what is there, and leaves the other files alone.                   *)
(***************************************************************************)
EXTENDS Integers, FiniteSets

CONSTANTS Files,
          Limits, NaN,                       \* what Number() may make of maxBackups
          MaxHour, MaxVersion, MaxRequests   \* bounds of the model, not of the code

ASSUME LimitsAssumption == NaN \notin Int /\ Limits \subseteq Int \cup {NaN}
ASSUME BoundsAssumption == MaxHour \in Nat /\ MaxVersion \in Nat \ {0} /\ MaxRequests \in Nat

Hours == 0 .. MaxHour
Contents == [Files -> 0 .. MaxVersion]      \* each file's version; 0 is absent
Gone == [exists |-> FALSE, whole |-> FALSE, files |-> [f \in Files |-> 0]]
Archives == [exists : BOOLEAN, whole : BOOLEAN, files : Contents]

VARIABLES hour,
          archives,    \* the archive of each hour
          data,        \* the files under data/ and .paaw/
          live,        \* a server handle is held
          requests,    \* how many backup and restore requests were answered
          reply,       \* the last answer
          maxBackups,  \* how many archives are to be kept
          undeleted    \* the archives the last backup failed to delete

vars == <<hour, archives, data, live, requests, reply, maxBackups, undeleted>>

TypeOK ==
  /\ hour \in Hours
  /\ archives \in [Hours -> Archives]
  /\ data \in Contents
  /\ live \in BOOLEAN
  /\ requests \in 0 .. MaxRequests
  /\ reply \in [op : {"none", "create", "restore"}, of : Hours, ok : BOOLEAN, safe : BOOLEAN]
  /\ maxBackups \in Limits
  /\ undeleted \subseteq Hours

Init ==
  /\ hour = 0
  /\ archives = [h \in Hours |-> Gone]
  /\ data \in {c \in Contents : \A f \in Files : c[f] <= 1}
  /\ live = FALSE
  /\ requests = 0
  /\ reply = [op |-> "none", of |-> 0, ok |-> FALSE, safe |-> FALSE]
  /\ maxBackups \in Limits
  /\ undeleted = {}

ArchiveOf(c) == [exists |-> TRUE, whole |-> TRUE, files |-> c]

Listed(a) == {h \in Hours : a[h].exists}

-----------------------------------------------------------------------------
(* createBackup                                                            *)

Newer(a, h) == {g \in Listed(a) : g > h}
Older(a, h) == {g \in Listed(a) : g < h}

\* Mutants: one archive too many is kept; a slot of a name is shared by two hours.
KeepOneMore(a) ==
  {h \in Listed(a) : maxBackups # NaN /\ Cardinality(Newer(a, h)) > maxBackups}
SharedSlot(h) == h - (h % 2)

\* listBackups() is newest first by mtime, and an archive is only written in
\* its own hour; slice(n) is what follows the n newest, slice(-n) the n oldest,
\* and no number is compared with NaN.
Excess(a) ==
  IF maxBackups = NaN THEN {}
  ELSE IF maxBackups >= 0 THEN {h \in Listed(a) : Cardinality(Newer(a, h)) >= maxBackups}
  ELSE {h \in Listed(a) : Cardinality(Older(a, h)) < -maxBackups}

\* A deletion that fails is passed over.
Rotate(a) ==
  /\ undeleted' \in SUBSET Excess(a)
  /\ archives' = [h \in Hours |-> IF h \in Excess(a) \ undeleted' THEN Gone ELSE a[h]]

Slot(h) == h

Written(archive) == [archives EXCEPT ![Slot(hour)] = archive]

\* What tar may leave when it fails: nothing new, the whole archive, part of it.
LeftByTar ==
  {archives, Written(ArchiveOf(data))}
    \cup {Written([exists |-> TRUE, whole |-> FALSE, files |-> c]) :
            c \in {c \in Contents : \A f \in Files : c[f] \in {0, data[f]}}}

\* The answer gives the size of the fresh archive, which rotation may have deleted.
MakeBackup(ok) ==
  \/ /\ Rotate(Written(ArchiveOf(data)))
     /\ ok = archives'[Slot(hour)].exists
  \/ /\ ~ok
     /\ archives' \in LeftByTar
     /\ undeleted' = {}

\* Mutant: the answer lacks its `ok'.
AnswerWithoutOk(op, h, ok, safe) ==
  /\ requests < MaxRequests
  /\ requests' = requests + 1
  /\ reply' = [op |-> op, of |-> h, safe |-> safe]

Answer(op, h, ok, safe) ==
  /\ requests < MaxRequests
  /\ requests' = requests + 1
  /\ reply' = [op |-> op, of |-> h, ok |-> ok, safe |-> safe]

CreateBackup ==
  \E ok \in BOOLEAN :
    /\ MakeBackup(ok)
    /\ Answer("create", hour, ok, FALSE)
    /\ UNCHANGED <<hour, data, live, maxBackups>>

-----------------------------------------------------------------------------
(* restoreBackup                                                           *)

Overlay(c) == [f \in Files |-> IF c[f] # 0 THEN c[f] ELSE data[f]]

\* The whole archive on success.
Unpacked(a) == IF a.exists /\ a.whole THEN {Overlay(a.files)} ELSE {}

\* tar stops somewhere: some of the files are written.
HalfUnpacked(a) ==
  IF ~a.exists THEN {data}
  ELSE {Overlay([f \in Files |-> IF f \in W THEN a.files[f] ELSE 0]) : W \in SUBSET Files}

\* Mutant: a tar that failed is told as a restore.
RestoreOptimistic(h) ==
  /\ archives[h].exists /\ ~live
  /\ \E safe \in BOOLEAN :
       /\ MakeBackup(safe)
       /\ data' \in HalfUnpacked(archives'[h])
       /\ live' = TRUE
       /\ Answer("restore", h, TRUE, safe)
  /\ UNCHANGED <<hour, maxBackups>>

\* Mutant: no safety backup is made.
RestoreBold(h) ==
  /\ archives[h].exists /\ ~live
  /\ data' \in Unpacked(archives[h])
  /\ live' = TRUE
  /\ Answer("restore", h, TRUE, TRUE)
  /\ UNCHANGED <<hour, archives, maxBackups, undeleted>>

\* The safety backup comes first, its outcome is not looked at, and the
\* archive is opened after it.
RestoreBackup(h) ==
  /\ archives[h].exists
  /\ UNCHANGED <<hour, maxBackups>>
  /\ \/ /\ live                                       \* refused
        /\ Answer("restore", h, FALSE, FALSE)
        /\ UNCHANGED <<archives, data, live, undeleted>>
     \/ /\ ~live
        /\ \E safe \in BOOLEAN :
             /\ MakeBackup(safe)
             /\ \/ /\ data' \in HalfUnpacked(archives'[h])
                   /\ Answer("restore", h, FALSE, safe)
                   /\ UNCHANGED live
                \/ /\ data' \in Unpacked(archives'[h])
                   /\ live' \in BOOLEAN               \* the restart may fail
                   /\ Answer("restore", h, live', safe)

-----------------------------------------------------------------------------
(* Around it: the clock, the server and the files it writes                *)

Tick == /\ hour < MaxHour
        /\ hour' = hour + 1
        /\ UNCHANGED <<archives, data, live, requests, reply, maxBackups, undeleted>>

StartOrStop == /\ live' = ~live
               /\ UNCHANGED <<hour, archives, data, requests, reply, maxBackups, undeleted>>

ServerWrites(f) ==
  /\ live
  /\ \E v \in 0 .. MaxVersion : data' = [data EXCEPT ![f] = v]
  /\ UNCHANGED <<hour, archives, live, requests, reply, maxBackups, undeleted>>

Next == \/ CreateBackup
        \/ \E h \in Hours : RestoreBackup(h)
        \/ Tick \/ StartOrStop
        \/ \E f \in Files : ServerWrites(f)

Spec == Init /\ [][Next]_vars

-----------------------------------------------------------------------------
(* Properties                                                              *)

Answered(op) == requests' # requests /\ reply'.op = op

\* Retention: a successful backup, also the one a restore makes, has its fresh
\* archive among those it leaves, deletes none that is newer than one it means
\* to keep, and leaves more than maxBackups only by deletions that failed just
\* now: what an earlier rotation failed to delete is tried again.
RetentionKeepsNewest ==
  [][(Answered("create") /\ reply'.ok) \/ (Answered("restore") /\ reply'.safe) =>
       /\ hour \in Listed(archives')
       /\ \A old \in Listed(archives) \ Listed(archives') :
            \A kept \in Listed(archives') \ undeleted' : kept > old
       /\ maxBackups \in Nat => Cardinality(Listed(archives') \ undeleted') <= maxBackups]_vars

\* An archive of a past hour is never written again: it stays as it is until
\* rotation deletes it.
PastArchivesStand ==
  [][\A h \in Hours : h < hour => archives'[h] \in {archives[h], Gone}]_vars

\* An answered restore put every file of the chosen archive back, as the
\* archive held it when the restore was asked for, and kept the other files.
BringsBack(h) ==
  /\ \A f \in Files : archives[h].files[f] # 0 => data'[f] = archives[h].files[f]
  /\ \A f \in Files : archives[h].files[f] = 0 => data'[f] = data[f]

RestoreBringsBackOtherHours ==
  [][Answered("restore") /\ reply'.ok /\ reply'.of # hour => BringsBack(reply'.of)]_vars

\* README: stop, safety backup, unpack, restart.  The same for the archive of
\* this very hour.
RestoreBringsBack ==
  [][Answered("restore") /\ reply'.ok => BringsBack(reply'.of)]_vars

\* When the safety backup succeeded, what the restore overwrote can be had
\* back: an archive holds it whole.
OverwrittenDataIsSafe ==
  [][Answered("restore") /\ reply'.safe => ArchiveOf(data) \in {archives'[h] : h \in Hours}]_vars
=============================================================================
