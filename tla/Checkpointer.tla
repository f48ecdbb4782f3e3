----------------------------- MODULE Checkpointer -----------------------------
(*******************************************************************************)
(* engine/checkpointer.js in git mode: a pulse commits its state directory and *)
(* pushes it, while others (a pulse on a laptop, a person, a workflow outside  *)
(* the concurrency group) push to the same branch.  A pull with rebase takes   *)
(* what does not conflict; a pull that fails for any reason is answered by a   *)
(* commit rebuilt on the remote's tip from what is on disk.                    *)
(*                                                                             *)
(* A tree gives each file its content, a stamp that no other write has; 0 is a *)
(* file that is not there.  Two changes of one file count as a conflict: git   *)
(* may merge them when they touch different lines.  The git commands of one    *)
(* checkpoint block the pulse, which writes nothing meanwhile; a checkpoint    *)
(* that the rate limit skips, or whose commit fails, changes no tree.          *)
(*******************************************************************************)
EXTENDS Naturals, FiniteSets

CONSTANTS
  Files,       \* the files under state/
  Tries,       \* pushes of one checkpoint (3 in the code)
  MaxChanges,  \* bound on the changes of files, by anybody
  MaxJobs      \* bound on the jobs, each with a fresh checkout

ASSUME CheckpointerAssumption == Tries \in Nat \ {0} /\ MaxChanges \in Nat /\ MaxJobs \in Nat

VARIABLES
  gRemote,  \* the tree at the tip of the branch
  gMoved,   \* somebody has pushed since we fetched last
  gBase,    \* the tree of the remote commit that our HEAD stands on
  gHead,    \* the tree of our HEAD
  gWork,    \* the files on disk
  gPc,      \* where the pulse is: at work, or at a git command of a checkpoint
  gTry,     \* which push of this checkpoint
  gMine,    \* the files the pulse has changed since its last push
  gWant,    \* what it left in them, 0 for a file it removed
  gFresh,   \* the files the last sync brought that the pulse had not had
  gStamp,   \* stamps given
  gJobs     \* jobs started

gVars == <<gRemote, gMoved, gBase, gHead, gWork, gPc, gTry, gMine, gWant, gFresh, gStamp, gJobs>>
ours == <<gBase, gHead, gWork>>
intent == <<gMine, gWant>>

Trees == [Files -> 0..MaxChanges]
There(tree) == {f \in Files : tree[f] # 0}

CheckpointerTypeOK ==
  /\ {gRemote, gBase, gHead, gWork, gWant} \subseteq Trees
  /\ gMoved \in BOOLEAN
  /\ gPc \in {"work", "pull", "reapply", "push"}
  /\ gTry \in 0..Tries
  /\ gMine \subseteq Files /\ gFresh \subseteq Files
  /\ gStamp \in 0..MaxChanges /\ gJobs \in 0..MaxJobs

CheckpointerInit ==
  /\ gRemote \in [Files -> {0, 1}] /\ gStamp = 1
  /\ gBase = gRemote /\ gHead = gRemote /\ gWork = gRemote /\ gWant = gRemote
  /\ gMoved = FALSE
  /\ gPc = "work" /\ gTry = 0 /\ gMine = {} /\ gFresh = {} /\ gJobs = 1

-------------------------------------------------------------------------------
\* The pulse writes a file (store.js), or removes one: a finished checkpoint, a
\* released lease.
WriteFile(f) ==
  /\ gPc = "work" /\ gStamp < MaxChanges
  /\ gStamp' = gStamp + 1
  /\ gWork' = [gWork EXCEPT ![f] = gStamp + 1]
  /\ gMine' = gMine \union {f} /\ gWant' = [gWant EXCEPT ![f] = gWork'[f]]
  /\ UNCHANGED <<gRemote, gMoved, gBase, gHead, gPc, gTry, gFresh, gJobs>>

RemoveFile(f) ==
  /\ gPc = "work" /\ gWork[f] # 0
  /\ gWork' = [gWork EXCEPT ![f] = 0]
  /\ gMine' = gMine \union {f} /\ gWant' = [gWant EXCEPT ![f] = gWork'[f]]
  /\ UNCHANGED <<gRemote, gMoved, gBase, gHead, gPc, gTry, gFresh, gStamp, gJobs>>

\* Somebody else's push: one file added, changed or removed.
OtherPush(f) ==
  /\ gStamp < MaxChanges
  /\ gStamp' = gStamp + 1
  /\ \E content \in {0, gStamp + 1} :
        /\ content # gRemote[f]
        /\ gRemote' = [gRemote EXCEPT ![f] = content]
  /\ gMoved' = TRUE
  /\ UNCHANGED <<ours, gPc, gTry, intent, gFresh, gJobs>>

-------------------------------------------------------------------------------
\* checkpoint(): add -A and commit.  When nothing is staged there is no push
\* either, even if an earlier commit was never pushed.
CommitState ==
  /\ gPc = "work" /\ gWork # gHead
  /\ gHead' = gWork
  /\ gPc' = "pull" /\ gTry' = 1
  /\ UNCHANGED <<gRemote, gMoved, gBase, gWork, intent, gFresh, gStamp, gJobs>>

Conflicting == {f \in Files : /\ gHead[f] # gBase[f] /\ gRemote[f] # gBase[f]
                              /\ gHead[f] # gRemote[f]}
Rebased == [f \in Files |-> IF gHead[f] # gBase[f] THEN gHead[f] ELSE gRemote[f]]

\* Our HEAD, index and files become this tree, on the tip that was fetched.
Onto(tree) ==
  /\ gHead' = tree /\ gWork' = tree
  /\ gBase' = gRemote /\ gMoved' = FALSE
  /\ gFresh' = There(gRemote) \ There(gWork)

PullRebase ==
  /\ gPc = "pull"
  /\ \/ Conflicting = {} /\ Onto(Rebased) /\ gPc' = "push"
     \/ gPc' = "reapply" /\ UNCHANGED <<ours, gMoved, gFresh>>   \* a conflict, or no connection
  /\ UNCHANGED <<gRemote, gTry, intent, gStamp, gJobs>>

\* The index of this checkout is what was committed; a file counts as removed when it
\* is in our HEAD, in the index but not on disk, and in the remote's tree.
IndexedFiles == There(gHead)
RemovedFiles == (There(gHead) \intersect (IndexedFiles \ There(gWork))) \intersect There(gRemote)
ReappliedAddingAll == gWork
Reapplied ==
  [f \in Files |-> IF gWork[f] # 0 THEN gWork[f] ELSE IF f \in RemovedFiles THEN 0 ELSE gRemote[f]]

\* The next of three tries; after the last the commit stays where it is.
NextTry ==
  IF gTry < Tries THEN gTry' = gTry + 1 /\ gPc' = "pull" ELSE gTry' = 0 /\ gPc' = "work"

ReapplyOnRemote ==
  /\ gPc = "reapply"
  /\ \/ Onto(Reapplied) /\ gPc' = "push" /\ UNCHANGED gTry
     \/ NextTry /\ UNCHANGED <<ours, gMoved, gFresh>>            \* the fetch fails
  /\ UNCHANGED <<gRemote, intent, gStamp, gJobs>>

\* gatedPush, never forced: refused when the branch has moved.
PushState ==
  /\ gPc = "push" /\ ~gMoved
  /\ gRemote' = gHead /\ gBase' = gHead
  /\ gPc' = "work" /\ gTry' = 0 /\ gMine' = {} /\ gFresh' = {}
  /\ UNCHANGED <<gHead, gWork, gMoved, gWant, gStamp, gJobs>>

PushFails ==
  /\ gPc = "push"
  /\ NextTry
  /\ UNCHANGED <<gRemote, gMoved, ours, intent, gFresh, gStamp, gJobs>>

\* The job ends or is killed, anywhere; the next one checks out the remote.
NextJob ==
  /\ gJobs < MaxJobs
  /\ gJobs' = gJobs + 1
  /\ gBase' = gRemote /\ gHead' = gRemote /\ gWork' = gRemote /\ gWant' = gRemote
  /\ gMoved' = FALSE
  /\ gPc' = "work" /\ gTry' = 0 /\ gMine' = {} /\ gFresh' = {}
  /\ UNCHANGED <<gRemote, gStamp>>

CheckpointerNext ==
  \/ \E f \in Files : WriteFile(f) \/ RemoveFile(f) \/ OtherPush(f)
  \/ CommitState \/ PullRebase \/ ReapplyOnRemote \/ PushState \/ PushFails \/ NextJob

CheckpointerSpec == CheckpointerInit /\ [][CheckpointerNext]_gVars

-------------------------------------------------------------------------------
Pushed == gPc = "push" /\ gJobs' = gJobs /\ gMine # {}
          /\ gPc' = "work" /\ gMine' = {}

\* However pushes of others, failing pulls and retries fall, a push of the pulse puts
\* every file it wrote on the branch as it wrote it last, and leaves a file that
\* another job added, and the pulse never had, as that job left it (checkpointer.js:16).
PushKeepsBoth ==
  [][Pushed => \A f \in Files :
        /\ f \in gMine /\ gWant[f] # 0 => gRemote'[f] = gWant[f]
        /\ f \in gFresh \ gMine => gRemote'[f] = gRemote[f]]_gVars

\* "Deletions this pulse made on purpose (a finished checkpoint, a released lease)"
\* (checkpointer.js:133) are gone from the branch after its push.  They are not: in a
\* rebuilt commit HEAD and index have lost the file already, so none counts as removed.
RemovalsArePushed ==
  [][Pushed => \A f \in gMine : gWant[f] = 0 => gRemote'[f] = 0]_gVars

\* What others changed in a file that the pulse has and did not write stays.  It does
\* not: a rebuilt commit takes every file that is on disk.
OthersChangesStay ==
  [][Pushed => \A f \in Files \ gMine : gRemote'[f] = gRemote[f]]_gVars
===============================================================================
