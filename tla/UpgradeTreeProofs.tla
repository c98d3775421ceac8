-------------------------- MODULE UpgradeTreeProofs --------------------------
(***************************************************************************)
(* Theorems about UpgradeTree, for any set of tracked files, any local     *)
(* changes, any stash list and any way the commands may fail.              *)
(***************************************************************************)
EXTENDS UpgradeTree, TLAPS

Running == {"create", "store", "pull", "apply", "diagnose", "drop", "npm"}

\* Nothing is reported before the run ends.
ReportInv ==
  /\ pc \in Running => outcome = "none" /\ verdict = "none"
  /\ verdict = "clean" => outcome = "recover"

\* The changes are in the tree until the stash list has them.
StashInv ==
  /\ pc = "create" => sha = "none"
  /\ sha = "ours" => "ours" \in stash \/ (pc \in {"store", "done"} /\ saved = Local)
  /\ pc = "store" => sha = "ours"

\* While the upgrade runs only an apply leaves the tree half merged.
MergeInv ==
  /\ pc \in Running \ {"diagnose"} => unmerged = {} /\ half = {}
  /\ pc \in {"create", "store", "pull"} => pulled = {}
  /\ HalfMergedBootOnlyOfPull

\* What an upgrade knows of the local changes while nothing has gone wrong.
QuietInv ==
  /\ ~trouble =>
       /\ pc = "create" => saved = {}
       /\ pc \in {"store", "pull", "apply"} => saved = Local
       /\ pc \in {"store", "pull", "apply"} => (sha = "none" <=> saved = {})
       /\ pc = "diagnose" => unstaged # {} \/ saved \cap pulled # {}
       /\ pc \in {"drop", "npm"} => unstaged = {}
  /\ QuietUpgradeNeedsStaged

KeptInv == TypeOK /\ ReportInv /\ StashInv /\ VerdictHonest

-----------------------------------------------------------------------------
(* Type correctness                                                        *)

\* Every step of an upgrade keeps the types.
LEMMA TypeStep == TypeOK /\ StashInv /\ [Next]_vars => TypeOK'
<1> SUFFICES ASSUME TypeOK, StashInv, [Next]_vars PROVE TypeOK'
  OBVIOUS
<1> USE DEF TypeOK, tree, report
<1>1. CASE UNCHANGED vars
  BY <1>1 DEF vars
<1>2. CASE StashCreate
  BY <1>2 DEF StashCreate, Catch, End, Local
<1>3. CASE StashStore
  BY <1>3 DEF StashStore, Catch, End, StashInv
<1>4. CASE Pull
  BY <1>4 DEF Pull, Catch, End
<1>5. CASE SetAside
  BY <1>5 DEF SetAside
<1>6. CASE StashApply
  <2>1. CASE unstaged # {} /\ pc' = "diagnose" /\ UNCHANGED <<tree, hinted, trouble>>
    BY <1>6, <2>1 DEF StashApply
  <2>2. CASE /\ pc' = "diagnose" /\ trouble' = TRUE /\ half' \in SUBSET saved
             /\ UNCHANGED <<unstaged, staged, behind, pulled, unmerged, hinted>>
    BY <1>6, <2>2 DEF StashApply
  <2>3. ASSUME NEW clash \in SUBSET (saved \cap pulled),
               unstaged' = saved \ (staged \cup clash), unmerged' = clash,
               pc' \in {"drop", "diagnose"}, hinted' \in BOOLEAN,
               UNCHANGED <<staged, behind, pulled, half, trouble>>
        PROVE  TypeOK'
    BY <1>6, <2>3 DEF StashApply
  <2> QED BY <1>6, <2>1, <2>2, <2>3 DEF StashApply
<1>7. CASE Diagnose
  <2>1. verdict' \in {"conflict", "clean", "dirty", "unverifiable"}
    BY <1>7 DEF Diagnose, Verdicts
  <2> QED BY <1>7, <2>1 DEF Diagnose, End
<1>8. CASE StashDrop \/ NpmInstall
  BY <1>8 DEF StashDrop, NpmInstall, Catch, End
<1> QED BY <1>1, <1>2, <1>3, <1>4, <1>5, <1>6, <1>7, <1>8 DEF Next

-----------------------------------------------------------------------------
(* What is kept, and what is told                                          *)

\* The verdict is true of the tree as it is when the verdict is given.
LEMMA DiagnoseHonest ==
  ASSUME TypeOK, Diagnose
  PROVE  VerdictHonest' /\ (verdict' = "clean" => outcome' = "recover" /\ unmerged' = {} /\ half' = {})
<1>1. UNCHANGED <<unstaged, staged, unmerged, half>>
  BY DEF Diagnose, tree
<1>2. PICK u \in HasUnmergedPaths, c \in IsWorkingTreeClean :
        verdict' = IF hinted /\ u = "yes" THEN "conflict"
                   ELSE IF c = "yes" THEN "clean"
                   ELSE IF c = "no" THEN "dirty" ELSE "unverifiable"
  BY DEF Diagnose, Verdicts
<1>3. u = "yes" => unmerged # {}
  BY <1>2 DEF HasUnmergedPaths, Probe
<1>4. /\ c = "yes" => Dirty = {}
      /\ c = "no" => Dirty # {}
  BY <1>2 DEF IsWorkingTreeClean, Probe
<1>5. Dirty' = Dirty
  BY <1>1 DEF Dirty, Local
<1>6. VerdictHonest'
  BY <1>1, <1>2, <1>3, <1>4, <1>5 DEF VerdictHonest
<1>7. verdict' = "clean" => Dirty = {} /\ outcome' = "recover"
  BY <1>2, <1>4 DEF Diagnose, End
<1> QED BY <1>1, <1>6, <1>7 DEF Dirty

\* Every step keeps the changes, in the tree or in the stash list, and the verdict true.
LEMMA KeptStep == KeptInv /\ [Next]_vars => KeptInv'
<1> SUFFICES ASSUME KeptInv, [Next]_vars PROVE KeptInv'
  OBVIOUS
<1>0. TypeOK' /\ TypeOK /\ ReportInv /\ StashInv /\ VerdictHonest
  BY TypeStep DEF KeptInv
<1>1. CASE UNCHANGED vars
  BY <1>0, <1>1 DEF KeptInv, ReportInv, StashInv, VerdictHonest, Local, Dirty, vars, tree, report
<1>2. ASSUME pc \in Running, verdict' = verdict, outcome' \in {"none", "recover", "installed"},
             pc' \in Running => outcome' = outcome
      PROVE  ReportInv' /\ VerdictHonest'
  BY <1>0, <1>2 DEF ReportInv, VerdictHonest
<1>3. CASE StashCreate
  <2>1. ReportInv' /\ VerdictHonest'
    BY <1>0, <1>2, <1>3 DEF StashCreate, Catch, End, Running, report, ReportInv
  <2>2. StashInv'
    BY <1>0, <1>3 DEF StashCreate, Catch, End, StashInv, Local, tree
  <2> QED BY <1>0, <2>1, <2>2 DEF KeptInv
<1>4. CASE StashStore
  <2>1. ReportInv' /\ VerdictHonest'
    BY <1>0, <1>2, <1>4 DEF StashStore, Catch, End, Running, report, ReportInv
  <2>2. StashInv'
    BY <1>0, <1>4 DEF StashStore, Catch, End, StashInv, Local, tree
  <2> QED BY <1>0, <2>1, <2>2 DEF KeptInv
<1>5. CASE Pull
  <2>1. ReportInv' /\ VerdictHonest'
    BY <1>0, <1>2, <1>5 DEF Pull, Catch, End, Running, report, ReportInv
  <2>2. StashInv'
    BY <1>0, <1>5 DEF Pull, Catch, End, StashInv
  <2> QED BY <1>0, <2>1, <2>2 DEF KeptInv
<1>6. CASE SetAside
  <2>1. ReportInv' /\ VerdictHonest'
    BY <1>0, <1>2, <1>6 DEF SetAside, Running, ReportInv
  <2>2. StashInv'
    BY <1>0, <1>6 DEF SetAside, StashInv
  <2> QED BY <1>0, <2>1, <2>2 DEF KeptInv
<1>7. CASE StashApply
  <2>1. ReportInv' /\ VerdictHonest'
    BY <1>0, <1>2, <1>7 DEF StashApply, Running, ReportInv
  <2>2. StashInv'
    BY <1>0, <1>7 DEF StashApply, StashInv
  <2> QED BY <1>0, <2>1, <2>2 DEF KeptInv
<1>8. CASE Diagnose
  <2>1. ReportInv' /\ VerdictHonest'
    BY <1>0, <1>8, DiagnoseHonest DEF Diagnose, End, ReportInv, Running
  <2>2. StashInv'
    BY <1>0, <1>8 DEF Diagnose, End, StashInv, Local, tree
  <2> QED BY <1>0, <2>1, <2>2 DEF KeptInv
<1>9. CASE StashDrop \/ NpmInstall
  <2>1. ReportInv' /\ VerdictHonest'
    BY <1>0, <1>2, <1>9 DEF StashDrop, NpmInstall, Catch, End, Running, report, ReportInv
  <2>2. StashInv'
    BY <1>0, <1>9 DEF StashDrop, NpmInstall, Catch, End, StashInv
  <2> QED BY <1>0, <2>1, <2>2 DEF KeptInv
<1> QED BY <1>1, <1>3, <1>4, <1>5, <1>6, <1>7, <1>8, <1>9 DEF Next

\* The invariant of changes and verdict holds of every behaviour.
LEMMA KeptAlways == Spec => []KeptInv
<1>1. Init => KeptInv
  BY DEF Init, KeptInv, TypeOK, ReportInv, StashInv, VerdictHonest, Running
<1> QED BY <1>1, KeptStep, PTL DEF Spec

\* Every variable keeps its type (upgradePaaw, src/server/paaw-control.mjs): the
\* stash list gets an entry only from a commit that was made.
THEOREM TypeCorrect == Spec => []TypeOK
<1>1. KeptInv => TypeOK
  BY DEF KeptInv
<1> QED BY <1>1, KeptAlways, PTL

\* No local change is ever in neither the tree nor the stash list, whatever
\* fails and whatever is set aside at a shell during the pull and the apply.
THEOREM ChangesKept == Spec => []LocalChangesKept
<1>1. KeptInv => LocalChangesKept
  BY DEF KeptInv, StashInv, LocalChangesKept, Dirty
<1> QED BY <1>1, KeptAlways, PTL

\* The verdict on a failed apply is true of the tree, or says it could not tell.
THEOREM VerdictTrue == Spec => []VerdictHonest
<1>1. KeptInv => VerdictHonest
  BY DEF KeptInv
<1> QED BY <1>1, KeptAlways, PTL

-----------------------------------------------------------------------------
(* What is booted                                                          *)

\* No step starts the server on a half merged tree but that of a pull that failed.
LEMMA MergeStep == KeptInv /\ MergeInv /\ [Next]_vars => MergeInv'
<1> SUFFICES ASSUME KeptInv, MergeInv, [Next]_vars PROVE MergeInv'
  OBVIOUS
<1>0. TypeOK /\ ReportInv /\ StashInv
  BY DEF KeptInv
<1>1. CASE UNCHANGED vars
  BY <1>1 DEF MergeInv, HalfMergedBootOnlyOfPull, Local, vars, tree, report
<1>2. CASE Diagnose
  <2>1. outcome' \in {"recover", "leftStopped"} /\ pc' = "done"
    BY <1>2 DEF Diagnose, End
  <2>2. outcome' = "recover" => unmerged' = {} /\ half' = {}
    <3>1. outcome' = "recover" => verdict' = "clean"
      BY <1>2 DEF Diagnose, End
    <3> QED BY <1>0, <1>2, <3>1, DiagnoseHonest
  <2> QED BY <2>1, <2>2 DEF MergeInv, HalfMergedBootOnlyOfPull, Running
<1>3. CASE StashApply
  <2>1. outcome' = "none" /\ pc' \in {"diagnose", "drop"}
    BY <1>0, <1>3 DEF StashApply, ReportInv, Running
  <2>2. pc' = "drop" => unmerged' = {} /\ half' = {}
    BY <1>3 DEF StashApply, MergeInv, Running
  <2> QED BY <2>1, <2>2 DEF MergeInv, HalfMergedBootOnlyOfPull, Running
<1>4. ASSUME pc \in Running \ {"diagnose"}, UNCHANGED <<unmerged, half>>,
             pc' \in {"create", "store", "pull"} =>
               pc \in {"create", "store", "pull"} /\ UNCHANGED pulled
      PROVE  MergeInv'
  BY <1>4 DEF MergeInv, HalfMergedBootOnlyOfPull
<1>5. CASE StashCreate \/ StashStore \/ SetAside \/ StashDrop \/ NpmInstall
  BY <1>4, <1>5 DEF StashCreate, StashStore, SetAside, StashDrop, NpmInstall, Catch, End,
                    tree, Running
<1>6. CASE Pull
  <2>1. CASE UNCHANGED <<unmerged, half>>
    BY <1>4, <1>6, <2>1 DEF Pull, Catch, End, tree, Running
  <2>2. CASE /\ behind \cap Local = {} /\ unmerged' \in SUBSET behind
             /\ half' \in SUBSET behind
             /\ Catch
             /\ UNCHANGED <<unstaged, staged, behind, pulled, sha, stash>>
    <3>1. pc = "pull" /\ pulled = {} /\ verdict = "none"
      BY <1>0, <1>6 DEF Pull, MergeInv, ReportInv, Running
    <3>2. sha = "ours" => "ours" \in stash
      BY <1>0, <3>1 DEF StashInv
    <3>3. pc' = "done" /\ outcome' = "recover" /\ verdict' = "none" /\ Local' = Local
      BY <2>2, <3>1 DEF Catch, End, Local
    <3>4. unmerged' \cup half' \subseteq behind /\ (unmerged' \cup half') \cap Local = {}
      BY <2>2
    <3> QED BY <2>2, <3>1, <3>2, <3>3, <3>4 DEF MergeInv, HalfMergedBootOnlyOfPull, Running
  <2>3. unmerged = {} /\ half = {}
    BY <1>6 DEF Pull, MergeInv, Running
  <2> QED BY <1>6, <2>1, <2>2, <2>3 DEF Pull, tree
<1> QED BY <1>1, <1>2, <1>3, <1>5, <1>6 DEF Next

\* The server is never started on a half merged tree, but for the one way the
\* outer catch leaves open: the pull itself fails in its merge, by a conflict or
\* midway.
THEOREM HalfMergedBootIsOfPull == Spec => []HalfMergedBootOnlyOfPull
<1>1. Init => MergeInv
  BY DEF Init, MergeInv, HalfMergedBootOnlyOfPull
<1>2. MergeInv => HalfMergedBootOnlyOfPull
  BY DEF MergeInv
<1> QED BY <1>1, <1>2, MergeStep, KeptAlways, PTL DEF Spec

-----------------------------------------------------------------------------
(* What a quiet upgrade comes to                                           *)

\* Every step of an upgrade keeps what it knows of the local changes.
LEMMA QuietStep == KeptInv /\ QuietInv /\ [Next]_vars => QuietInv'
<1> SUFFICES ASSUME KeptInv, QuietInv, [Next]_vars PROVE QuietInv'
  OBVIOUS
<1>0. TypeOK /\ StashInv
  BY DEF KeptInv
<1> USE DEF QuietInv, QuietUpgradeNeedsStaged, Local
<1>1. CASE UNCHANGED vars
  BY <1>1 DEF vars, tree, report
<1>2. ASSUME trouble' PROVE QuietInv'
  BY <1>2
<1>3. CASE StashCreate
  BY <1>0, <1>2, <1>3 DEF StashCreate, StashInv, tree, report
<1>4. CASE StashStore
  BY <1>0, <1>2, <1>4 DEF StashStore, StashInv, tree, report
<1>5. CASE Pull
  <2>1. CASE behind \cap Local # {} /\ Catch /\ UNCHANGED <<tree, trouble>>
    BY <1>5, <2>1 DEF Pull, Catch, End, tree
  <2>2. CASE /\ pulled' = behind /\ behind' = {}
             /\ pc' = IF sha = "none" THEN "npm" ELSE "apply"
             /\ UNCHANGED <<unstaged, staged, unmerged, half, report>>
    BY <1>5, <2>2 DEF Pull, report
  <2> QED BY <1>2, <1>5, <2>1, <2>2 DEF Pull
<1>6. CASE SetAside
  BY <1>2, <1>6 DEF SetAside
<1>7. CASE StashApply
  <2>1. CASE unstaged # {} /\ pc' = "diagnose" /\ UNCHANGED <<tree, hinted, trouble>>
    BY <1>7, <2>1 DEF StashApply, tree
  <2>2. ASSUME unstaged = {}, NEW clash \in SUBSET (saved \cap pulled),
               unstaged' = saved \ (staged \cup clash),
               pc' = IF clash = {} THEN "drop" ELSE "diagnose",
               UNCHANGED <<saved, staged, behind, pulled, trouble>>, pc = "apply"
        PROVE  QuietInv'
    <3>1. CASE clash = {}
      BY <2>2, <3>1
    <3>2. CASE clash # {}
      BY <2>2, <3>2
    <3> QED BY <3>1, <3>2
  <2> QED BY <1>2, <1>7, <2>1, <2>2 DEF StashApply
<1>8. CASE Diagnose
  BY <1>8 DEF Diagnose, End, tree
<1>9. CASE StashDrop \/ NpmInstall
  BY <1>2, <1>9 DEF StashDrop, NpmInstall, End, tree, report
<1> QED BY <1>1, <1>3, <1>4, <1>5, <1>6, <1>7, <1>8, <1>9 DEF Next

\* With nothing failing, nobody at a shell and no file changed on both sides,
\* an upgrade comes to its end exactly when no local change is unstaged.
THEOREM QuietUpgrades == Spec => []QuietUpgradeNeedsStaged
<1>1. Init => QuietInv
  BY DEF Init, QuietInv, QuietUpgradeNeedsStaged
<1>2. QuietInv => QuietUpgradeNeedsStaged
  BY DEF QuietInv
<1> QED BY <1>1, <1>2, QuietStep, KeptAlways, PTL DEF Spec
=============================================================================
