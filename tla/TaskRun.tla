------------------------------ MODULE TaskRun ------------------------------
(***************************************************************************)
(* One task through the pulses that work on it: gate, steps, verification, *)
(* policy, and the delivery of the result on GitHub through the side-      *)
(* effect ledger, with a checkpoint at every boundary and a crash, an      *)
(* exception or a park anywhere between two of them.                       *)
(*   src/src/engine/pulse.js (processTask), orchestrate.js,                *)
(*   sideEffects.js, checkpointer.js                                       *)
(*                                                                         *)
(* Pulses do not overlap here (PulseQueue is about those that do).  A file *)
(* is durable at once when the checkout outlives the process, and only     *)
(* from the next push on when the pulse runs as a GitHub job (Git).  The   *)
(* schedule and retries inside a step are the Scheduler's: here a step     *)
(* finishes, fails or parks the task.  A task has an issue.                *)
(***************************************************************************)
EXTENDS TaskLifecycle, Naturals, FiniteSets

CONSTANTS
  Steps, Plan,      \* the steps of a run; Plan, the decomposition, goes first
  Git,              \* TITAN_CHECKPOINT=git: what is not pushed does not survive a crash
  MaxRuns,          \* bound: run ids handed out
  MaxAttempts,      \* task.maxAttempts
  MaxParks,         \* limits.maxParks
  MaxRemediations,  \* limits.maxRemediations
  Types,            \* the types of task, subset of {"task", "self-improve"}
  Asking,           \* whether the policy asks before a delivery, subset of BOOLEAN
  Quiet,            \* whether a pulse is in dry run or safe mode, subset of BOOLEAN
  ListFails,        \* TRUE: the call that lists an issue's comments may fail
  MayCrash          \* TRUE: a pulse may be killed

ASSUME StepsAssumption == Plan \in Steps /\ IsFiniteSet(Steps)
ASSUME BoundsAssumption ==
  MaxRuns \in Nat \ {0} /\ MaxAttempts \in Nat \ {0} /\ MaxParks \in Nat /\ MaxRemediations \in Nat
ASSUME FlagsAssumption ==
  /\ {Git, ListFails, MayCrash} \subseteq BOOLEAN
  /\ Types \subseteq {"task", "self-improve"} /\ Asking \subseteq BOOLEAN /\ Quiet \subseteq BOOLEAN

VARIABLES
  job,      \* the task's type, and whether its delivery needs an approval
  pc,       \* where the pulse is in the task; "idle": no pulse runs
  task,     \* the task record in memory
  cp,       \* the checkpoint in memory
  recheck,  \* ledger.forceRemoteCheck: the checkpoint is from an earlier pulse
  quiet,    \* this pulse's ledger is suppressed
  note,     \* the comment the pulse is about to post
  end,      \* the status the task gets after it
  files,    \* tasks.json and the checkpoint file in the checkout
  durable,  \* what of them the next process finds if this one is killed
  posted,   \* posted[k, r]: comments on the issue with the marker of kind k and run r
  told,     \* told[r]: what the result comment of run r says
  closed,   \* the issue was closed by a delivery
  prs,      \* pull requests opened
  answers,  \* answers[r]: what a user answered to the approval comment of run r (deliver:<runId>)
  lastRun,  \* run ids handed out (a UUID in the code)
  asked,    \* asked[r]: times the Reviewer Gate was asked in run r (history)
  muted     \* the comments that were suppressed (history)

env == <<closed, prs, answers>>
hist == <<lastRun, asked, muted>>
mem == <<task, cp, recheck, quiet, note, end>>
vars == <<job, pc, mem, files, durable, posted, told, env, hist>>

Runs == 1..MaxRuns
Kinds == {"approval", "blocked", "error", "dead-letter", "done", "pr-comment", "pr-refused"}
Answers == {"none", "approved", "denied"}
Keys == (Kinds \cup {"close", "pr"}) \X Runs

NoAnswers == [r \in Runs |-> "none"]

NewTask == [status |-> "pending", waitReason |-> NoReason, attempts |-> 0, parks |-> 0, pr |-> FALSE,
            approvals |-> NoAnswers]
NewCheckpoint(r) == [run |-> r, gate |-> "none", done |-> {}, failed |-> "no", round |-> 0,
                     verdict |-> "none", ledger |-> {}]
NoCheckpoint == NewCheckpoint(0)

Task == [status : TASK_STATUSES, waitReason : WAIT_REASONS \cup {NoReason},
         attempts : 0..MaxAttempts, parks : 0..(MaxParks + MaxAttempts), pr : BOOLEAN,
         approvals : [Runs -> Answers]]
Checkpoint == [run : 0..MaxRuns, gate : {"none", "allow", "block"}, done : SUBSET Steps,
               failed : {"no", "failed", "poisoned"}, round : 0..MaxRemediations,
               verdict : {"none", "pass", "fail"}, ledger : SUBSET Keys]

TypeOK ==
  /\ job \in [type : Types, asks : Asking]
  /\ pc \in {"idle", "start", "work", "verify", "deliver", "pr", "pr made", "say", "said",
             "close", "closed", "finish", "ended", "over"}
  /\ task \in Task /\ cp \in Checkpoint
  /\ recheck \in BOOLEAN /\ quiet \in BOOLEAN
  /\ note \in Kinds \cup {"none"} /\ end \in TASK_STATUSES
  /\ files \in [task : Task, cp : Checkpoint] /\ durable \in [task : Task, cp : Checkpoint]
  /\ posted \in [Kinds \X Runs -> 0..2]
  /\ told \in [Runs -> {"none", "ok", "failed"}]
  /\ closed \in BOOLEAN /\ prs \in 0..2
  /\ answers \in [Runs -> Answers]
  /\ lastRun \in 0..MaxRuns /\ asked \in [Runs -> 0..2]
  /\ muted \subseteq Keys

Init ==
  /\ job \in [type : Types, asks : Asking]
  /\ pc = "idle"
  /\ task = NewTask /\ cp = NoCheckpoint
  /\ recheck = FALSE /\ quiet = FALSE /\ note = "none" /\ end = "pending"
  /\ files = [task |-> NewTask, cp |-> NoCheckpoint]
  /\ durable = files
  /\ posted = [k \in Kinds \X Runs |-> 0] /\ told = [r \in Runs |-> "none"]
  /\ closed = FALSE /\ prs = 0 /\ answers = NoAnswers
  /\ lastRun = 0 /\ asked = [r \in Runs |-> 0]
  /\ muted = {}
-----------------------------------------------------------------------------
Goto(l) == pc' = l

Move(t, to, why) ==
  [t EXCEPT !.status = to, !.waitReason = IF to = "waiting" THEN why ELSE NoReason]

Capped(n) == IF n >= 2 THEN 2 ELSE n + 1

\* A file is written; with Git the process must live to the next push.
Write(f) == files' = f /\ durable' = IF Git THEN durable ELSE f

\* checkpointer.checkpoint(): rate-limited, and no error if the push fails.
WriteAndPush(f) == files' = f /\ durable' \in IF Git THEN {durable, f} ELSE {f}

\* The checkpoint is changed in memory only, and lost with the process.
NotPersisted(c) == cp' = c /\ UNCHANGED <<files, durable>>

\* persist(): the checkpoint in memory goes to its file, and perhaps to the remote.
Persist(c) == cp' = c /\ WriteAndPush([files EXCEPT !.cp = c])

\* The end of the run is near: a comment, then the status it leads to.
Announce(kind, status) == note' = kind /\ end' = status /\ Goto("say")

\* ...or a status without a comment.
Leave(status) == end' = status /\ Goto("finish") /\ UNCHANGED note

Forget ==
  /\ task' = NewTask /\ cp' = NoCheckpoint /\ recheck' = FALSE /\ quiet' = FALSE
  /\ note' = "none" /\ end' = "pending"
-----------------------------------------------------------------------------
(* Between pulses, and the start of one. *)

\* A user answers an approval request, naming the run it is about (not `all`).
Answer(r) ==
  /\ posted[<<"approval", r>>] > 0
  /\ answers[r] = "none"
  /\ \E a \in {"approved", "denied"} : answers' = [answers EXCEPT ![r] = a]
  /\ UNCHANGED <<job, pc, mem, files, durable, posted, told, closed, prs, hist>>

\* (A slip: the attempt is not counted.)
NotCharged(t) == t

\* The attempt of a dead pulse.
Charged(t) == [t EXCEPT !.attempts = @ + 1]

\* With that attempt the task has had as many as it may.
Spent(t) == t.attempts + 1 >= MaxAttempts

\* The record as reconcile() leaves it, if it can be claimed once the commands on the issue are
\* read: a dead pulse's task is charged an attempt, a wait is over, an answer is news.
Claimable ==
  LET t == files.task IN
  CASE t.status = "running" ->
         IF Spent(t) THEN {} ELSE {Charged(t)}
    [] t.status = "waiting" /\ t.waitReason = "approval" ->
         IF answers # t.approvals THEN {t} ELSE {}
    [] t.status \in {"pending", "waiting"} /\ t.waitReason # "approval" -> {t}
    [] OTHER -> {}

\* A pulse claims the task, saves the claim and loads the checkpoint or starts a new run.
Begin ==
  /\ pc = "idle"
  /\ ~closed
  /\ files.cp = NoCheckpoint => lastRun < MaxRuns
  /\ \E t \in Claimable :
       /\ task' = Move([t EXCEPT !.approvals = answers], "running", NoReason)
       /\ WriteAndPush([files EXCEPT !.task = task'])
  /\ lastRun' = IF files.cp = NoCheckpoint THEN lastRun + 1 ELSE lastRun
  /\ cp' = IF files.cp = NoCheckpoint THEN NewCheckpoint(lastRun') ELSE files.cp
  /\ recheck' = (files.cp # NoCheckpoint)
  /\ quiet' \in Quiet
  /\ Goto("start")
  /\ UNCHANGED <<job, note, end, posted, told, env, asked, muted>>

\* A pulse that ends the task without claiming it: its deaths are too many, its issue is
\* closed, or nobody answered.  reconcile() drops the checkpoint of a task that has ended.
GiveUp ==
  /\ pc = "idle"
  /\ LET t == files.task IN
     \/ /\ t.status = "running" /\ Spent(t)
        /\ files' = [task |-> Move(Charged(t), "dead-lettered", NoReason), cp |-> NoCheckpoint]
     \/ /\ closed /\ Claimable # {}
        /\ \E r \in Claimable : files' = [files EXCEPT !.task = Move(r, "cancelled", NoReason)]
     \/ /\ t.status = "waiting" /\ t.waitReason = "approval"
        /\ files' = [files EXCEPT !.task = Move(t, "expired", NoReason)]
     \/ /\ IsTerminal(t.status) /\ files.cp # NoCheckpoint
        /\ files' = [files EXCEPT !.cp = NoCheckpoint]
  /\ durable' = files'
  /\ UNCHANGED <<job, pc, mem, posted, told, env, hist>>
-----------------------------------------------------------------------------
(* Gate and steps. *)

\* deadLetter()
DeadLetter == Announce("dead-letter", "dead-lettered")

\* A resumed task that has spent its budget is not run again.
StartOverBudget ==
  /\ pc = "start" /\ recheck
  /\ DeadLetter
  /\ UNCHANGED <<job, task, cp, recheck, quiet, files, durable, posted, told, env, hist>>

\* (A slip: a resume asks again.)
GateForgotten == recheck \/ cp.gate = "none"

\* The verdict is not in the checkpoint.
GateUnasked == cp.gate = "none"

\* The gate, unless the checkpoint has its verdict.
Gate ==
  /\ pc = "start"
  /\ IF GateUnasked
     THEN /\ \E v \in {"allow", "block"} : Persist([cp EXCEPT !.gate = v])
          /\ asked' = [asked EXCEPT ![cp.run] = Capped(@)]
     ELSE UNCHANGED <<cp, files, durable, asked>>
  /\ IF cp'.gate = "block" THEN Announce("blocked", "blocked")
                           ELSE Goto("work") /\ UNCHANGED <<note, end>>
  /\ UNCHANGED <<job, task, recheck, quiet, posted, told, env, lastRun, muted>>

\* The steps that the checkpoint does not know as complete.
Undone == Steps \ cp.done
Ready(s) == s \in Undone /\ cp.failed = "no" /\ (s # Plan => Plan \in cp.done)

\* A step finishes and is in the checkpoint.
RunStep(s) ==
  /\ pc = "work" /\ Ready(s)
  /\ Persist([cp EXCEPT !.done = @ \cup {s}])
  /\ UNCHANGED <<job, pc, task, recheck, quiet, note, end, posted, told, env, hist>>

\* A step fails for good; the steps after it are blocked.
FailStep(s) ==
  /\ pc = "work" /\ Ready(s) /\ s # Plan
  /\ \E how \in {"failed", "poisoned"} : Persist([cp EXCEPT !.failed = how])
  /\ UNCHANGED <<job, pc, task, recheck, quiet, note, end, posted, told, env, hist>>

\* A provider is down or out of quota: the task waits, but not for ever.
Park ==
  /\ pc = "work" /\ Undone # {} /\ cp.failed = "no"
  /\ task' = [task EXCEPT !.parks = @ + 1]
  /\ IF task'.parks > MaxParks THEN DeadLetter ELSE Leave("waiting")
  /\ Persist(cp)
  /\ UNCHANGED <<job, recheck, quiet, posted, told, env, hist>>

\* The budget of the pulse is spent at a step boundary, or that of the task.
Drain ==
  /\ pc = "work" /\ Undone # {} /\ cp.failed = "no"
  /\ DeadLetter \/ Leave("waiting")
  /\ Persist(cp)
  /\ UNCHANGED <<job, task, recheck, quiet, posted, told, env, hist>>

\* runOrchestration throws.
InternalError ==
  /\ pc \in {"work", "verify"}
  /\ Announce("error", "failed")
  /\ UNCHANGED <<job, task, cp, recheck, quiet, files, durable, posted, told, env, hist>>

\* No step is left to run: the steps are synthesized, and verified if none failed.
Synthesize ==
  /\ pc = "work"
  /\ Undone = {} \/ cp.failed # "no"
  /\ Persist(cp)
  /\ Goto(IF cp.failed = "no" THEN "verify" ELSE "deliver")
  /\ UNCHANGED <<job, task, recheck, quiet, note, end, posted, told, env, hist>>

\* A verdict of pass in the checkpoint is not judged again; a fail is.
Verified == cp.verdict = "pass"

Pass ==
  /\ pc = "verify"
  /\ Persist([cp EXCEPT !.verdict = "pass"])
  /\ Goto("deliver")
  /\ UNCHANGED <<job, task, recheck, quiet, note, end, posted, told, env, hist>>

\* The steps at fault are sent back, a bounded number of times; the plan stays.
Remediate(T) ==
  /\ pc = "verify" /\ ~Verified
  /\ cp.round < MaxRemediations
  /\ Persist([cp EXCEPT !.round = @ + 1, !.verdict = "fail", !.done = @ \ T])
  /\ Goto("work")
  /\ UNCHANGED <<job, task, recheck, quiet, note, end, posted, told, env, hist>>

\* Out of rounds, or of time: the run has failed.  The verdict is in memory only so far.
FailVerification ==
  /\ pc = "verify" /\ ~Verified
  /\ NotPersisted([cp EXCEPT !.verdict = "fail"])
  /\ Goto("deliver")
  /\ UNCHANGED <<job, task, recheck, quiet, note, end, posted, told, env, hist>>
-----------------------------------------------------------------------------
(* Delivery. *)

Ok == cp.failed = "no" /\ cp.verdict = "pass"
Denied == task.approvals[cp.run] = "denied"
\* (A slip: an approval of any run will do.)
ApprovedOnce == \E r \in Runs : task.approvals[r] = "approved"

\* Only an approval that names this run counts.
Approved == task.approvals[cp.run] = "approved"

\* The policy's decision: a denial first, then the mode, then the need to ask.
MayDeliver == ~Denied /\ ~quiet /\ (job.asks => Approved)
MustAsk == ~Denied /\ ~quiet /\ job.asks /\ ~Approved

\* The policy says no, or not outside the process: the task ends without a comment.
Suppress ==
  /\ pc = "deliver" /\ (Denied \/ quiet)
  /\ Leave(IF Denied THEN "cancelled"
           ELSE IF job.type = "self-improve" THEN "blocked"
           ELSE IF Ok THEN "complete" ELSE "failed")
  /\ UNCHANGED <<job, task, cp, recheck, quiet, files, durable, posted, told, env, hist>>

AskApproval ==
  /\ pc = "deliver" /\ MustAsk
  /\ Persist(cp)
  /\ Announce("approval", "waiting")
  /\ UNCHANGED <<job, task, recheck, quiet, posted, told, env, hist>>

Deliver ==
  /\ pc = "deliver" /\ MayDeliver
  /\ Persist(cp)
  /\ IF job.type = "self-improve" THEN Goto("pr") /\ UNCHANGED <<note, end>>
     ELSE IF cp.failed = "poisoned" THEN DeadLetter
     ELSE Announce("done", IF Ok THEN "complete" ELSE "failed")
  /\ UNCHANGED <<job, task, recheck, quiet, posted, told, env, hist>>

PrKey == <<"pr", cp.run>>

\* ledger.once(pr:<runId>): the effect ran on an earlier pulse, whatever came of it.
PrOnRecord ==
  /\ pc = "pr" /\ PrKey \in cp.ledger
  /\ Announce("pr-comment", "pr-open")
  /\ UNCHANGED <<job, task, cp, recheck, quiet, files, durable, posted, told, env, hist>>

\* A pull request is opened, or refused.
OpenPr ==
  /\ pc = "pr" /\ PrKey \notin cp.ledger
  /\ \/ prs' = Capped(prs) /\ note' = "pr-comment" /\ end' = "pr-open"
     \/ prs' = prs /\ note' = "pr-refused" /\ end' = "failed"
  /\ Goto("pr made")
  /\ UNCHANGED <<job, task, cp, recheck, quiet, files, durable, posted, told, closed, answers, hist>>

\* The ledger records the key; the number of the pull request stays in memory.
RecordPr ==
  /\ pc = "pr made"
  /\ Persist([cp EXCEPT !.ledger = @ \cup {PrKey}])
  /\ task' = [task EXCEPT !.pr = (end = "pr-open")]
  /\ Goto("say")
  /\ UNCHANGED <<job, recheck, quiet, note, end, posted, told, env, hist>>

\* ledger.comment: the marker of the comment, and where the pulse goes on.
Key == <<note, cp.run>>

\* (A slip: the issue of a finished task stays open.)
AfterNoteNoClose == "finish"

\* A complete task's issue is closed after its result is posted.
AfterNote == IF note = "done" /\ end = "complete" THEN "close" ELSE "finish"

\* (A slip: the resumed run trusts its ledger.)
TrustsLedger == cp.ledger # {}

\* A comment may have landed that the ledger does not know of: the ledger is not empty, or it
\* comes from an earlier pulse.
LooksOnGitHub == cp.ledger # {} \/ recheck

\* The ledger has the key.
SayNothing ==
  /\ pc = "say" /\ Key \in cp.ledger
  /\ Goto(AfterNote)
  /\ UNCHANGED <<job, mem, files, durable, posted, told, env, hist>>

\* The ledger is suppressed: nothing is posted, and nothing recorded.
Mute ==
  /\ pc = "say" /\ Key \notin cp.ledger /\ quiet
  /\ muted' = muted \cup {Key}
  /\ Goto(AfterNote)
  /\ UNCHANGED <<job, mem, files, durable, posted, told, env, lastRun, asked>>

\* The marker is found on GitHub: only the record is missing.
FindComment ==
  /\ pc = "say" /\ Key \notin cp.ledger /\ ~quiet
  /\ LooksOnGitHub /\ posted[Key] > 0
  /\ Goto("said")
  /\ UNCHANGED <<job, mem, files, durable, posted, told, env, hist>>

PostComment ==
  /\ pc = "say" /\ Key \notin cp.ledger /\ ~quiet
  /\ LooksOnGitHub /\ posted[Key] > 0 => ListFails
  /\ posted' = [posted EXCEPT ![Key] = Capped(@)]
  /\ told' = IF note = "done" THEN [told EXCEPT ![cp.run] = IF Ok THEN "ok" ELSE "failed"] ELSE told
  /\ Goto("said")
  /\ UNCHANGED <<job, mem, files, durable, env, hist>>

RecordComment ==
  /\ pc = "said"
  /\ Persist([cp EXCEPT !.ledger = @ \cup {Key}])
  /\ Goto(AfterNote)
  /\ UNCHANGED <<job, task, recheck, quiet, note, end, posted, told, env, hist>>

CloseKey == <<"close", cp.run>>

CloseIssue ==
  /\ pc = "close"
  /\ IF CloseKey \in cp.ledger THEN Goto("finish") /\ UNCHANGED closed
                               ELSE Goto("closed") /\ closed' = TRUE
  /\ UNCHANGED <<job, mem, files, durable, posted, told, prs, answers, hist>>

RecordClose ==
  /\ pc = "closed"
  /\ Persist([cp EXCEPT !.ledger = @ \cup {CloseKey}])
  /\ Goto("finish")
  /\ UNCHANGED <<job, task, recheck, quiet, note, end, posted, told, env, hist>>
-----------------------------------------------------------------------------
(* The end of the task in this pulse. *)

\* (A slip: the checkpoint of a task that ended stays.)
Kept == files.cp

\* The checkpoint of a task that waits stays, that of one that ended goes.
LeftBehind == IF end = "waiting" THEN files.cp ELSE NoCheckpoint

\* The transition in memory, and deleteCheckpoint.
Finish ==
  /\ pc = "finish"
  /\ task' = Move(task, end, IF note = "approval" THEN "approval" ELSE "provider")
  /\ Write([files EXCEPT !.cp = LeftBehind])
  /\ Goto("ended")
  /\ UNCHANGED <<job, cp, recheck, quiet, note, end, posted, told, env, hist>>

\* claimAndRun saves the task.
SaveTask ==
  /\ pc = "ended"
  /\ WriteAndPush([files EXCEPT !.task = task])
  /\ Goto("over")
  /\ UNCHANGED <<job, mem, posted, told, env, hist>>

\* The rest of the pulse: the forced checkpoint at its end, or the workflow's own commit.
EndPulse ==
  /\ pc = "over"
  /\ durable' = files
  /\ Goto("idle")
  /\ Forget
  /\ UNCHANGED <<job, files, posted, told, env, hist>>

\* GitHub throws, whether the effect landed or not: the pulse saves the task as it is, still
\* running, and ends.
Throw ==
  /\ pc \in {"say", "said", "pr", "pr made", "close", "closed"}
  /\ Write([files EXCEPT !.task = task])
  /\ Goto("over")
  /\ UNCHANGED <<job, mem, posted, told, env, hist>>

\* The process is killed.
Crash ==
  /\ MayCrash
  /\ pc # "idle"
  /\ Goto("idle")
  /\ files' = durable
  /\ Forget
  /\ UNCHANGED <<job, durable, posted, told, env, hist>>
-----------------------------------------------------------------------------
Work ==
  \/ StartOverBudget \/ Gate \/ Park \/ Drain \/ InternalError \/ Synthesize
  \/ \E s \in Steps : RunStep(s) \/ FailStep(s)
  \/ Pass \/ FailVerification
  \/ \E T \in (SUBSET (Steps \ {Plan})) \ {{}} : Remediate(T)

Delivery ==
  \/ Suppress \/ AskApproval \/ Deliver \/ PrOnRecord \/ OpenPr \/ RecordPr
  \/ SayNothing \/ Mute \/ FindComment \/ PostComment \/ RecordComment
  \/ CloseIssue \/ RecordClose \/ Finish \/ SaveTask \/ EndPulse \/ Throw

Pulse == Begin \/ GiveUp \/ Work \/ Delivery

Next == Pulse \/ Crash \/ \E r \in Runs : Answer(r)

Spec == Init /\ [][Next]_vars

\* The schedule starts a pulse every quarter of an hour and a pulse does not stand still (its
\* calls have timeouts).
FairSpec == Spec /\ WF_vars(Pulse)
-----------------------------------------------------------------------------
(***************************************************************************)
(* Properties                                                              *)
(***************************************************************************)

\* No comment of a run is posted twice, whatever is killed and wherever an exception strikes,
\* as long as GitHub lists the comments when asked (sideEffects.js:1-13).
KeyOnce == \A k \in Kinds \X Runs : posted[k] <= 1

\* The Reviewer Gate is asked once in a run, never again on a resume (RUNTIME.md:148).
GateOnce == \A r \in Runs : asked[r] <= 1

\* With a policy that asks first, no result is delivered unless its own run was approved, and
\* none at all once it was denied, across all resumes and changes of mode.
ApprovedFirst ==
  job.asks => \A r \in Runs : posted[<<"done", r>>] + posted[<<"pr-comment", r>>] > 0
                                => answers[r] = "approved"

\* The issue is closed only after a result was posted on it, and a task recorded as complete
\* is closed unless its delivery was suppressed.
ClosedAfterResult ==
  /\ closed => \E r \in Runs : posted[<<"done", r>>] > 0
  /\ files.task.status = "complete" /\ Quiet = {FALSE} => closed

\* Between pulses a task that waits has its checkpoint, and one that its pulse ended has none:
\* a retry starts anew (RUNTIME.md:199).
CheckpointMatchesTask ==
  pc = "idle" =>
    /\ files.task.status = "waiting" => files.cp # NoCheckpoint
    /\ files.task.status \in {"complete", "failed", "blocked", "dead-lettered", "pr-open"}
         => files.cp = NoCheckpoint

\* However often its pulses are killed or fail, a task does not stay "running": in the end it is
\* finished, waits, or is given up.
NeverStuckRunning == []<>(files.task.status # "running")

\* A killed job loses at most one step: .github/workflows/titan-pulse.yml:88-89.
LosesOneStep ==
  pc # "idle" => Cardinality(cp.done \ IF durable.cp.run = cp.run THEN durable.cp.done ELSE {}) <= 1

\* A comment that already landed is never repeated, even after a crash: RUNTIME.md:169-170.
ResultOnce ==
  \A r, q \in Runs : told[r] # "none" /\ told[q] # "none" => r = q

\* A task is recorded as cancelled because its issue was closed before it ran
\* (issueSync.js:244) only if it delivered no result.
CancelledBeforeItRan ==
  files.task.status = "cancelled" => \A r \in Runs : told[r] # "ok"

\* A run that still fails its verification is failed, with the reason on the issue
\* (RUNTIME.md:167-168): it is not complete.
FailedRunStaysFailed ==
  files.task.status = "complete" => \A r \in Runs : told[r] # "failed"

\* A task in pr-open knows its pull request, so that a later pulse can close a red one
\* (selfImprove.js:22-25).
PrOpenKnowsItsPr == files.task.status = "pr-open" => files.task.pr

\* The ledger records the key of a suppressed comment, so that a later pulse under a looser
\* policy does not fire it (sideEffects.js:37-38).
SuppressedStaysSuppressed == [][\A k \in muted : posted'[k] = posted[k]]_vars

\* A run that still fails its verification is failed (RUNTIME.md:167-168), so what it wrote is
\* not proposed as a change of the code.
FailedRunOpensNoPr == [][prs' # prs => Ok]_vars
=============================================================================
