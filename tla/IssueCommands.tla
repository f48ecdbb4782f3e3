----------------------------- MODULE IssueCommands -----------------------------
(*******************************************************************************)
(* The commands on one issue and the cursor by which a pulse finds the new     *)
(* ones (issueSync.js, reconcileIssueState): the open issues are listed first, *)
(* and only then, issue by issue, the comments are read.  The cursor becomes   *)
(* the time of the issue's last change as it was in the list, so a comment     *)
(* posted in between is read by this pulse and by the next one.  The owner's   *)
(* own workflow (control/cli.js) changes the record between two pulses.        *)
(*                                                                             *)
(* PulseQueue has the same handler with the cursor as one bit and one command  *)
(* for each issue.  Here the times count, to the second; pulses do not overlap *)
(* and all clocks agree.                                                       *)
(*******************************************************************************)
EXTENDS Naturals, Sequences, FiniteSets

CONSTANTS MaxSeconds, MaxComments, MaxDirect

ASSUME IssueCommandsAssumption == {MaxSeconds, MaxComments, MaxDirect} \subseteq Nat

VARIABLES
  iNow,       \* the time
  iComments,  \* the comments on the issue, oldest first
  iDisk,      \* the task's record in the file
  iMem,       \* the pulse's copy
  iPc,        \* the pulse: idle, listed, read (comments applied), running
  iListed,    \* updated_at of the issue in this pulse's list
  iDirect,    \* retries by the owner's workflow
  iEnds,      \* runs that ended and were recorded
  iRead       \* comments that some pulse examined

iVars == <<iNow, iComments, iDisk, iMem, iPc, iListed, iDirect, iEnds, iRead>>

Comment == [at : 0..MaxSeconds, verb : {"retry", "cancel", "talk"}]
TaskState == [status : {"pending", "running", "ended"}, completed : {0} \union 1..MaxSeconds,
              seen : 0..MaxSeconds]

IssueCommandsTypeOK ==
  /\ iNow \in 1..MaxSeconds
  /\ iComments \in Seq(Comment)
  /\ iDisk \in TaskState /\ iMem \in TaskState
  /\ iPc \in {"idle", "listed", "read", "running"}
  /\ iListed \in 0..MaxSeconds
  /\ iDirect \in 0..MaxDirect /\ iEnds \in Nat
  /\ iRead \subseteq 1..MaxComments

\* The issue was filed at 0 and taken in: the cursor starts there (issueSync.js:173).
IssueCommandsInit ==
  /\ iNow = 1 /\ iComments = <<>>
  /\ iDisk = [status |-> "pending", completed |-> 0, seen |-> 0] /\ iMem = iDisk
  /\ iPc = "idle" /\ iListed = 0 /\ iDirect = 0 /\ iEnds = 0 /\ iRead = {}

UpdatedAt == IF iComments = <<>> THEN 0 ELSE iComments[Len(iComments)].at

-------------------------------------------------------------------------------
SecondPasses ==
  /\ iNow < MaxSeconds
  /\ iNow' = iNow + 1
  /\ UNCHANGED <<iComments, iDisk, iMem, iPc, iListed, iDirect, iEnds, iRead>>

\* A command, or other talk; the Runner's own comments are talk.
PostComment(verb) ==
  /\ Len(iComments) < MaxComments
  /\ iComments' = Append(iComments, [at |-> iNow, verb |-> verb])
  /\ UNCHANGED <<iNow, iDisk, iMem, iPc, iListed, iDirect, iEnds, iRead>>

\* reconcile() takes back what a dead pulse was running; then the issues are listed.
Reclaimed(task) == IF task.status = "running" THEN [task EXCEPT !.status = "pending"] ELSE task

ListIssue ==
  /\ iPc = "idle"
  /\ iMem' = Reclaimed(iDisk)
  /\ iListed' = UpdatedAt
  /\ iPc' = "listed"
  /\ UNCHANGED <<iNow, iComments, iDisk, iDirect, iEnds, iRead>>

\* applyCommand: a retry revives an ended task, a cancel ends a queued one.
Obeyed(task, verb) ==
  IF verb = "retry" /\ task.status = "ended"
  THEN [task EXCEPT !.status = "pending", !.completed = 0]
  ELSE IF verb = "cancel" /\ task.status = "pending"
       THEN [task EXCEPT !.status = "ended", !.completed = iNow]
       ELSE task

\* A retry refers to a finished run: one that is not younger than the end of the last is
\* passed over.  The end is looked up once, before the first comment.
AnyRetry(task, comment) == TRUE
ThisLife(task, comment) ==
  comment.verb = "retry" => task.completed = 0 \/ comment.at > task.completed

New(task) == {i \in 1..Len(iComments) : iComments[i].at > task.seen}

\* The task after the first n comments.
After(task) ==
  LET before[n \in 0..Len(iComments)] ==
        IF n = 0 THEN task
        ELSE IF n \in New(task) /\ ThisLife(task, iComments[n])
             THEN Obeyed(before[n - 1], iComments[n].verb)
             ELSE before[n - 1]
  IN before[Len(iComments)]

\* Nothing has changed since the cursor; or the comments are read and obeyed, and the
\* cursor moves; or they cannot be read, which gives none, and the cursor moves all the same.
ReadComments ==
  /\ iPc = "listed"
  /\ \/ iListed <= iMem.seen /\ UNCHANGED <<iMem, iRead>>
     \/ /\ iListed > iMem.seen
        /\ iMem' = [After(iMem) EXCEPT !.seen = iListed]
        /\ iRead' = iRead \union New(iMem)
     \/ /\ iListed > iMem.seen
        /\ iMem' = [iMem EXCEPT !.seen = iListed]
        /\ UNCHANGED iRead
  /\ iPc' = "read"
  /\ UNCHANGED <<iNow, iComments, iDisk, iListed, iDirect, iEnds>>

StartRun ==
  /\ iPc = "read" /\ iMem.status = "pending"
  /\ iMem' = [iMem EXCEPT !.status = "running", !.completed = 0]
  /\ iDisk' = iMem'
  /\ iPc' = "running"
  /\ UNCHANGED <<iNow, iComments, iListed, iDirect, iEnds, iRead>>

EndOfRun ==
  /\ iPc = "running"
  /\ iMem' = [iMem EXCEPT !.status = "ended", !.completed = iNow]
  /\ iDisk' = iMem' /\ iEnds' = iEnds + 1
  /\ iPc' = "idle"
  /\ UNCHANGED <<iNow, iComments, iListed, iDirect, iRead>>

\* The pulse saves and ends without running the task, or is killed.
SaveAndStop ==
  /\ iPc = "read"
  /\ iDisk' = iMem /\ iPc' = "idle"
  /\ UNCHANGED <<iNow, iComments, iMem, iListed, iDirect, iEnds, iRead>>

PulseKilled ==
  /\ iPc # "idle"
  /\ iPc' = "idle"
  /\ UNCHANGED <<iNow, iComments, iDisk, iMem, iListed, iDirect, iEnds, iRead>>

\* control/cli.js: the owner retries or cancels the task; the cursor stays.
DirectCommand(verb) ==
  /\ iPc = "idle" /\ iDirect < MaxDirect
  /\ iDisk' = Obeyed(iDisk, verb) /\ iDisk' # iDisk
  /\ iDirect' = iDirect + 1
  /\ UNCHANGED <<iNow, iComments, iMem, iPc, iListed, iEnds, iRead>>

IssueCommandsNext ==
  \/ SecondPasses \/ ListIssue \/ ReadComments \/ StartRun \/ EndOfRun \/ SaveAndStop \/ PulseKilled
  \/ \E verb \in {"retry", "cancel", "talk"} : PostComment(verb)
  \/ \E verb \in {"retry", "cancel"} : DirectCommand(verb)

IssueCommandsSpec == IssueCommandsInit /\ [][IssueCommandsNext]_iVars

-------------------------------------------------------------------------------
RetriesAsked == iDirect + Cardinality({i \in 1..Len(iComments) : iComments[i].verb = "retry"})

\* However often a comment is read again, a task runs to its end at most once for the issue
\* and once for each retry: issueSync.js:271, "one posted before the task finished is about
\* an earlier life and is not honoured now".
RunsAskedFor == iEnds <= 1 + RetriesAsked

\* A command behind the cursor was examined by some pulse.  It may not have been: comments
\* that cannot be read are none, and one of the same second as the list may come after it.
NoCommandMissed ==
  \A i \in 1..Len(iComments) : iComments[i].at <= iDisk.seen => i \in iRead
===============================================================================
