----------------------------- MODULE UpgradeTree -----------------------------
(***************************************************************************)
(* What upgradePaaw (src/server/paaw-control.mjs) does to the git working  *)
(* tree once the server is stopped: stash create and store, pull, apply,   *)
(* drop, npm install, and the verdict on a failed apply.  The tree is sets *)
(* of files; git is external and behaves as git 2.39 does:                 *)
(*   - `stash create' commits the tracked changes and leaves them in place;*)
(*   - `pull' refuses to overwrite a locally changed file;                 *)
(*   - `stash apply' refuses while a file it would write has unstaged      *)
(*     changes, and otherwise merges with what the pull brought;           *)
(*   - `stash drop' takes an entry of the stash list, not a commit.        *)
(* The admin process runs all of it without a pause, but a person at a     *)
(* shell may set local changes aside while the pull is on the network.     *)
(***************************************************************************)
CONSTANTS Files,
          PullFaults   \* how a pull may fail: subset of {"offline", "conflict", "midway"}

VARIABLES pc,
          unstaged, staged,   \* tracked files with local changes
          behind, pulled,     \* files upstream has changed: not yet, and now merged
          unmerged, half,     \* files left with conflict markers, or half written
          sha, saved,         \* our stash commit and the files it holds
          stash,              \* the stash list
          hinted,             \* the failed apply's message speaks of a conflict
          outcome, verdict,   \* how the run ends for the server, and what is reported
          trouble             \* a command failed of itself, or the person stepped in

tree == <<unstaged, staged, behind, pulled, unmerged, half>>
report == <<outcome, verdict, trouble>>
vars == <<pc, tree, sha, saved, stash, hinted, report>>

TypeOK ==
  /\ pc \in {"create", "store", "pull", "apply", "diagnose", "drop", "npm", "done"}
  /\ \A files \in {unstaged, staged, behind, pulled, unmerged, half, saved} : files \subseteq Files
  /\ sha \in {"none", "ours"}
  /\ stash \subseteq {"theirs", "ours"}
  /\ hinted \in BOOLEAN
  /\ trouble \in BOOLEAN
  /\ outcome \in {"none", "leftStopped", "recover", "installed"}
  /\ verdict \in {"none", "conflict", "dirty", "unverifiable", "clean"}

Init ==
  /\ pc = "create"
  /\ unstaged \in SUBSET Files
  /\ staged \in SUBSET Files
  /\ behind \in SUBSET Files
  /\ stash \in SUBSET {"theirs"}
  /\ pulled = {} /\ unmerged = {} /\ half = {}
  /\ sha = "none" /\ saved = {}
  /\ hinted = FALSE /\ trouble = FALSE
  /\ outcome = "none" /\ verdict = "none"

Local == unstaged \cup staged
Dirty == Local \cup unmerged \cup half

End(how) == pc' = "done" /\ outcome' = how

\* The outer catch: whatever threw, the server is started again.
Catch == End("recover") /\ UNCHANGED verdict

-----------------------------------------------------------------------------
\* Mutant: `stash push' in its place, which takes the changes away.
StashPushed ==
  /\ pc = "create"
  /\ IF Local = {}
       THEN pc' = "pull" /\ UNCHANGED <<tree, sha, saved>>
       ELSE /\ pc' = "store" /\ sha' = "ours" /\ saved' = Local
            /\ unstaged' = {} /\ staged' = {}
            /\ UNCHANGED <<behind, pulled, unmerged, half>>
  /\ UNCHANGED <<stash, hinted, report>>

StashCreate ==
  /\ pc = "create"
  /\ \/ /\ Catch
        /\ trouble' = TRUE
        /\ UNCHANGED <<sha, saved>>
     \/ /\ IF Local = {}
             THEN pc' = "pull" /\ UNCHANGED <<sha, saved>>
             ELSE pc' = "store" /\ sha' = "ours" /\ saved' = Local
        /\ UNCHANGED report
  /\ UNCHANGED <<tree, stash, hinted>>

\* Mutant: the dangling commit is relied on.
StoreSkipped ==
  /\ pc = "store"
  /\ pc' = "pull"
  /\ UNCHANGED <<tree, sha, saved, stash, hinted, report>>

StashStore ==
  /\ pc = "store"
  /\ \/ /\ Catch
        /\ trouble' = TRUE
        /\ UNCHANGED stash
     \/ /\ pc' = "pull"
        /\ stash' = stash \cup {sha}
        /\ UNCHANGED report
  /\ UNCHANGED <<tree, sha, saved, hinted>>

Pull ==
  /\ pc = "pull"
  /\ \/ /\ behind \cap Local # {}
        /\ Catch
        /\ UNCHANGED <<tree, trouble>>
     \/ /\ "offline" \in PullFaults
        /\ Catch
        /\ trouble' = TRUE
        /\ UNCHANGED tree
     \/ /\ "conflict" \in PullFaults        \* local commits that upstream contradicts
        /\ behind \cap Local = {} /\ staged = {}
        /\ unmerged' \in (SUBSET behind) \ {{}}
        /\ Catch
        /\ trouble' = TRUE
        /\ UNCHANGED <<unstaged, staged, behind, pulled, half>>
     \/ /\ "midway" \in PullFaults          \* killed after 60 s, EACCES, ENOSPC
        /\ behind \cap Local = {}
        /\ half' \in SUBSET behind
        /\ Catch
        /\ trouble' = TRUE
        /\ UNCHANGED <<unstaged, staged, behind, pulled, unmerged>>
     \/ /\ behind \cap Local = {}
        /\ pulled' = behind
        /\ behind' = {}
        /\ pc' = IF sha = "none" THEN "npm" ELSE "apply"
        /\ UNCHANGED <<unstaged, staged, unmerged, half, report>>
  /\ UNCHANGED <<sha, saved, stash, hinted>>

\* Not the code's: a person at a shell runs `git stash' or `git checkout .'.
SetAside ==
  /\ pc \in {"pull", "apply"}
  /\ Local # {}
  /\ unstaged' = {} /\ staged' = {}
  /\ trouble' = TRUE
  /\ UNCHANGED <<pc, behind, pulled, unmerged, half, sha, saved, stash, hinted,
                 outcome, verdict>>

\* Where git prints the word CONFLICT decides whether the message has it.
StashApply ==
  /\ pc = "apply"
  /\ \/ /\ unstaged # {}                     \* "would be overwritten by merge"
        /\ pc' = "diagnose"
        /\ UNCHANGED <<tree, hinted, trouble>>
     \/ /\ pc' = "diagnose"                  \* timeout, EACCES, ENOSPC midway
        /\ trouble' = TRUE
        /\ half' \in SUBSET saved
        /\ UNCHANGED <<unstaged, staged, behind, pulled, unmerged, hinted>>
     \/ /\ unstaged = {}
        /\ \E clash \in SUBSET (saved \cap pulled) :
             /\ unstaged' = saved \ (staged \cup clash)
             /\ unmerged' = clash
             /\ IF clash = {}
                  THEN pc' = "drop" /\ UNCHANGED hinted
                  ELSE pc' = "diagnose" /\ hinted' \in BOOLEAN
        /\ UNCHANGED <<staged, behind, pulled, half, trouble>>
  /\ UNCHANGED <<sha, saved, stash, outcome, verdict>>

\* A probe answers truly, or git fails again: the third value.
Probe(fact) == {fact, "unknown"}
HasUnmergedPaths == Probe(IF unmerged # {} THEN "yes" ELSE "no")

\* Mutant: a failed probe is folded into "clean".
CleanByDefault == {IF Dirty = {} THEN "yes" ELSE "no", "yes"}
IsWorkingTreeClean == Probe(IF Dirty = {} THEN "yes" ELSE "no")

\* Mutants: the probe's third value is reported as it is; it is worded as a
\* dirty tree.
VerdictRaw ==
  {IF hinted /\ u = "yes" THEN "conflict" ELSE IF c = "yes" THEN "clean" ELSE c :
     u \in HasUnmergedPaths, c \in IsWorkingTreeClean}
DirtyWhenUnsure ==
  {IF hinted /\ u = "yes" THEN "conflict" ELSE IF c = "yes" THEN "clean" ELSE "dirty" :
     u \in HasUnmergedPaths, c \in IsWorkingTreeClean}

Verdicts ==
  {IF hinted /\ u = "yes" THEN "conflict"
   ELSE IF c = "yes" THEN "clean"
   ELSE IF c = "no" THEN "dirty" ELSE "unverifiable" :
     u \in HasUnmergedPaths, c \in IsWorkingTreeClean}

Diagnose ==
  /\ pc = "diagnose"
  /\ verdict' \in Verdicts
  /\ End(IF verdict' = "clean" THEN "recover" ELSE "leftStopped")
  /\ UNCHANGED <<tree, sha, saved, stash, hinted, trouble>>

\* The argument is the commit, which `stash drop' refuses: a warning is all.
StashDrop ==
  /\ pc = "drop"
  /\ pc' = "npm"
  /\ UNCHANGED <<tree, sha, saved, stash, hinted, report>>

NpmInstall ==
  /\ pc = "npm"
  /\ \/ Catch /\ trouble' = TRUE
     \/ End("installed") /\ UNCHANGED <<verdict, trouble>>
  /\ UNCHANGED <<tree, sha, saved, stash, hinted>>

Next == \/ StashCreate \/ StashStore \/ Pull \/ SetAside
        \/ StashApply \/ Diagnose \/ StashDrop \/ NpmInstall

Spec == Init /\ [][Next]_vars

-----------------------------------------------------------------------------
(* Properties                                                              *)

\* The server is never started on a tree with conflict markers or a half
\* applied stash (paaw-control.mjs: "exactly the state we must NOT boot from").
NeverBootHalfMerged ==
  outcome \in {"recover", "installed"} => unmerged = {} /\ half = {}

\* What holds of that sentence whatever fails: the only half merged tree the
\* server is started on is that of a pull that failed in its merge (a conflict,
\* the 60 s limit, a full disk), before any stash is applied: the marked and the
\* half written files are upstream's, none has a local change in it, and those
\* changes are in the stash list.  Neither a failed apply, nor probes that fail,
\* nor what is set aside meanwhile leads to another.
HalfMergedBootOnlyOfPull ==
  outcome \in {"recover", "installed"} /\ (unmerged # {} \/ half # {}) =>
    /\ outcome = "recover" /\ verdict = "none"
    /\ unmerged \cup half \subseteq behind /\ pulled = {}
    /\ (unmerged \cup half) \cap Local = {}
    /\ sha = "ours" => "ours" \in stash

\* Whatever fails, and whatever the person at the shell sets aside while the
\* upgrade pulls and applies, each local change is still in the tree or in the
\* stash list.
LocalChangesKept ==
  sha = "ours" => saved \subseteq Dirty \/ "ours" \in stash

\* What is reported of the tree is true of it: a conflict that is there, a
\* dirty tree that is dirty, never a broken git told as either.
VerdictHonest ==
  /\ verdict = "conflict" => unmerged # {}
  /\ verdict = "dirty" => Dirty # {}
  /\ verdict = "clean" => Dirty = {}

\* With no command failing of itself, nobody at a shell, and no file changed
\* both here and upstream, `git stash, git pull, npm install, restart' (README)
\* runs to its end.
QuietUpgradeCompletes ==
  /\ pc = "done" /\ ~trouble
  /\ (behind \cup pulled) \cap (Local \cup saved) = {}
  => outcome = "installed"

\* What holds of that sentence: the run ends so exactly when no local change is
\* unstaged, for `git stash create' has left it where `git stash apply' trips.
QuietUpgradeNeedsStaged ==
  /\ pc = "done" /\ ~trouble
  /\ (behind \cup pulled) \cap (Local \cup saved) = {}
  => (outcome = "installed" <=> unstaged = {})
=============================================================================
