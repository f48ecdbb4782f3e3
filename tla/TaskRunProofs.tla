---------------------------- MODULE TaskRunProofs ----------------------------
(***************************************************************************)
(* Theorems about TaskRun: what a task's comments, approval, gate, result  *)
(* and checkpoint owe to each other over all its pulses, for any steps,    *)
(* limits and settings and wherever a pulse is killed.                     *)
(***************************************************************************)
EXTENDS TaskRun, TLAPS

(***************************************************************************)
(* The invariants.  Typed and RunsOK carry the others.                     *)
(***************************************************************************)

\* A task record, whatever its counters have come to.
TaskRec == [status : TASK_STATUSES, waitReason : WAIT_REASONS \cup {NoReason}, attempts : Nat, parks : Nat,
            pr : BOOLEAN, approvals : [Runs -> Answers]]
Files == [task : TaskRec, cp : Checkpoint]

Labels == {"idle", "start", "work", "verify", "deliver", "pr", "pr made", "say", "said", "close", "closed",
           "finish", "ended", "over"}

\* The types, and the status of the record in memory: it is claimed until its transition is saved.
Typed ==
  /\ job \in [type : Types, asks : Asking] /\ pc \in Labels
  /\ task \in TaskRec /\ cp \in Checkpoint /\ files \in Files /\ durable \in Files
  /\ recheck \in BOOLEAN /\ quiet \in BOOLEAN
  /\ note \in Kinds \cup {"none"} /\ end \in TASK_STATUSES
  /\ posted \in [Kinds \X Runs -> 0..2] /\ asked \in [Runs -> 0..2] /\ answers \in [Runs -> Answers]
  /\ lastRun \in 0..MaxRuns /\ closed \in BOOLEAN
  /\ pc \in {"pr made", "say", "said"} => note \in Kinds
  /\ pc = "ended" => task.status = end
  /\ pc \notin {"idle", "ended", "over"} => task.status = "running"

\* A stored checkpoint is of a run that has begun and has the verdict of its gate.
Stored(c) == c = NoCheckpoint \/ (c.run \in 1..lastRun /\ c.gate # "none")

\* The pulse has yet to post its comment.
Before == {"start", "work", "verify", "deliver", "pr", "pr made", "say"}

\* No run that is yet to begin has left a trace, and the first pulse of a run has none until its comment.
RunsOK ==
  /\ \A r \in Runs : r > lastRun => asked[r] = 0 /\ \A k \in Kinds : posted[<<k, r>>] = 0
  /\ Stored(files.cp) /\ Stored(durable.cp)
  /\ pc # "idle" => cp.run \in 1..lastRun
  /\ pc \notin {"idle", "start"} => cp.gate # "none"
  /\ pc = "start" /\ cp.gate = "none" => ~recheck /\ asked[cp.run] = 0
  /\ pc \in Before /\ ~recheck => \A k \in Kinds : posted[<<k, cp.run>>] = 0

\* A task record repeats what users answered.
Quotes(t) == \A r \in Runs : t.approvals[r] \in {"none", answers[r]}

\* A pulse that is about to deliver has the approval it needs.
Delivering == pc \in {"pr", "pr made"} \/ (pc \in {"say", "said"} /\ note \in {"done", "pr-comment"})
ApprovalsOK ==
  /\ Quotes(files.task) /\ Quotes(durable.task) /\ Quotes(task)
  /\ Delivering /\ job.asks => answers[cp.run] = "approved"
  /\ ApprovedFirst

\* A ledger knows only of what was done.
Vouched(c, post, shut) ==
  /\ \A r \in Runs : <<"done", r>> \in c.ledger => post[<<"done", r>>] > 0
  /\ \A r \in Runs : <<"close", r>> \in c.ledger => shut
LedgersOK == Vouched(files.cp, posted, closed) /\ Vouched(durable.cp, posted, closed) /\ Vouched(cp, posted, closed)

\* Without dry runs and safe mode a task is recorded as complete once its issue is closed.
CompleteOK ==
  Quiet = {FALSE} /\ (files.task.status = "complete" \/ durable.task.status = "complete") => closed

\* What a pulse that closes the issue has behind it.
ClosingOK ==
  /\ pc # "idle" => quiet \in Quiet
  /\ pc = "say" /\ note = "done" => ~quiet
  /\ pc = "said" => posted[Key] > 0
  /\ pc \in {"close", "closed"} \/ closed => \E r \in Runs : posted[<<"done", r>>] > 0
  /\ pc = "closed" => closed
  /\ pc = "pr made" => end # "complete" /\ note # "done"
  /\ Quiet = {FALSE} /\ end = "complete" =>
       /\ pc \in {"say", "said"} => note = "done"
       /\ pc \in {"finish", "ended"} => closed

Matches(f) ==
  /\ f.task.status = "waiting" => f.cp # NoCheckpoint
  /\ f.task.status \in {"complete", "failed", "blocked", "dead-lettered", "pr-open"} => f.cp = NoCheckpoint

\* The file says "running" until the pulse saves the task; by then the checkpoint is the one its status needs.
MatchOK ==
  /\ Matches(files) /\ Matches(durable)
  /\ pc \notin {"idle", "over"} => files.task.status = "running"
  /\ pc \in {"say", "said", "close", "closed", "finish"} /\ end = "waiting" => files.cp # NoCheckpoint
  /\ pc = "ended" => (end = "waiting" <=> files.cp # NoCheckpoint)

-----------------------------------------------------------------------------
(***************************************************************************)
(* Records                                                                 *)
(***************************************************************************)

\* newTask() is a task record: nothing has been answered in it.
LEMMA NewTasks ==
  /\ NewTask \in TaskRec /\ NewTask.status = "pending"
  /\ \A r \in Runs : NewTask.approvals[r] = "none"
BY DEF NewTask, NoAnswers, TaskRec, TASK_STATUSES, Answers

\* newRun(): a new checkpoint has asked no gate and done nothing; no checkpoint is the one of run 0.
LEMMA NewCheckpoints ==
  ASSUME NEW r \in 0..MaxRuns
  PROVE  /\ NewCheckpoint(r) \in Checkpoint /\ NewCheckpoint(r).run = r
         /\ NewCheckpoint(r).gate = "none" /\ NewCheckpoint(r).ledger = {}
<1>1. 0 \in 0..MaxRemediations
  BY BoundsAssumption
<1> QED BY <1>1 DEF NewCheckpoint, Checkpoint

\* The absence of a checkpoint, as loadCheckpoint() reports it.
LEMMA NoCheckpoints ==
  /\ NoCheckpoint \in Checkpoint /\ NoCheckpoint.run = 0
  /\ NoCheckpoint.gate = "none" /\ NoCheckpoint.ledger = {}
<1>1. 0 \in 0..MaxRuns
  BY BoundsAssumption
<1> QED BY <1>1, NewCheckpoints DEF NoCheckpoint

\* transition() changes the status and the reason of a wait.
LEMMA Moves ==
  ASSUME NEW t \in TaskRec, NEW to \in TASK_STATUSES, NEW why \in WAIT_REASONS \cup {NoReason}
  PROVE  Move(t, to, why) \in TaskRec /\ Move(t, to, why).status = to /\ Move(t, to, why).approvals = t.approvals
BY DEF Move, TaskRec

\* A crash is charged as an attempt by reconcile().
LEMMA Charges ==
  ASSUME NEW t \in TaskRec
  PROVE  Charged(t) \in TaskRec /\ Charged(t).status = t.status /\ Charged(t).approvals = t.approvals
BY DEF Charged, TaskRec

\* persist() writes the checkpoint beside the task, and what is durable is as before or as written.
LEMMA Persists ==
  ASSUME files \in Files, NEW c \in Checkpoint, Persist(c)
  PROVE  /\ cp' = c /\ files' \in Files /\ files'.cp = c /\ files'.task = files.task
         /\ durable' \in {durable, files'}
BY DEF Persist, WriteAndPush, Files

\* Claims, answers and the end of a pulse write the task beside the checkpoint.
LEMMA Saves ==
  ASSUME files \in Files, NEW t \in TaskRec
  PROVE  /\ [files EXCEPT !.task = t] \in Files
         /\ [files EXCEPT !.task = t].cp = files.cp /\ [files EXCEPT !.task = t].task = t
BY DEF Files

\* deleteCheckpoint() leaves the task.
LEMMA Drops ==
  ASSUME files \in Files, NEW c \in Checkpoint
  PROVE  /\ [files EXCEPT !.cp = c] \in Files
         /\ [files EXCEPT !.cp = c].cp = c /\ [files EXCEPT !.cp = c].task = files.task
BY DEF Files

\* A comment is counted twice at most.
LEMMA Caps == \A n \in 0..2 : Capped(n) \in 0..2 /\ Capped(n) >= n /\ Capped(n) > 0 /\ (n = 0 => Capped(n) = 1)
BY DEF Capped
\* A run that has begun has an id.
LEMMA RunIds ==
  /\ 0 \in 0..MaxRuns
  /\ \A last \in 0..MaxRuns : /\ last \in Nat
                              /\ last < MaxRuns => last + 1 \in Runs
                              /\ \A r \in 1..last : r \in Runs
                              /\ \A r \in Runs : r \in 0..MaxRuns /\ (r > last \/ r \in 1..last)
BY BoundsAssumption DEF Runs

-----------------------------------------------------------------------------
(***************************************************************************)
(* A step within a pulse: processTask() goes on with the run it has.       *)
(***************************************************************************)

\* The checkpoint stays one of the same run; its ledger grows by what was just done.
SameRun(c) ==
  /\ c \in Checkpoint /\ c.run = cp.run
  /\ cp.gate # "none" => c.gate # "none"
  /\ \A r \in Runs : /\ <<"done", r>> \in c.ledger => <<"done", r>> \in cp.ledger \/ (pc = "said" /\ Key = <<"done", r>>)
                     /\ <<"close", r>> \in c.ledger => <<"close", r>> \in cp.ledger \/ pc = "closed"

Within ==
  /\ pc # "idle" /\ pc' \in Labels \ {"idle", "start"}
  /\ SameRun(cp')
  /\ task' \in TaskRec /\ task'.approvals = task.approvals
  /\ files' \in Files /\ files'.task \in {files.task, task'} /\ files'.cp \in {files.cp, cp', NoCheckpoint}
  /\ durable' \in {durable, files, files'}
  /\ UNCHANGED <<job, recheck, quiet, answers, lastRun>>

\* A step that writes no file.
LEMMA StandsStill ==
  ASSUME Typed, pc # "idle", pc' \in Labels \ {"idle", "start"},
         UNCHANGED <<job, task, cp, recheck, quiet, files, durable, answers, lastRun>>
  PROVE  Within
BY DEF Typed, Within, SameRun

\* A step that persists the checkpoint.
LEMMA StepPersists ==
  ASSUME Typed, pc # "idle", pc' \in Labels \ {"idle", "start"}, NEW c, SameRun(c), Persist(c),
         task' \in TaskRec, task'.approvals = task.approvals,
         UNCHANGED <<job, recheck, quiet, answers, lastRun>>
  PROVE  Within /\ files'.task = files.task /\ files'.cp = cp' /\ cp' = c
<1>1. cp' = c /\ files' \in Files /\ files'.cp = c /\ files'.task = files.task /\ durable' \in {durable, files'}
  BY Persists DEF Typed, SameRun
<1> QED BY <1>1 DEF Within, SameRun

\* What a step within a pulse owes to the types.
LEMMA TypedWithin ==
  ASSUME Typed, Within, note' \in Kinds \cup {"none"}, end' \in TASK_STATUSES,
         posted' \in [Kinds \X Runs -> 0..2], asked' \in [Runs -> 0..2], closed' \in BOOLEAN,
         pc' \in {"pr made", "say", "said"} => note' \in Kinds,
         pc' = "ended" => task'.status = end',
         pc' \notin {"ended", "over"} => task'.status = "running"
  PROVE  Typed'
<1>1. durable' \in Files
  BY DEF Typed, Within
<1>2. cp' \in Checkpoint
  BY DEF Within, SameRun
<1> QED BY <1>1, <1>2 DEF Typed, Within

\* The checkpoint as the steps of a run change it.
LEMMA CheckpointsInARun ==
  ASSUME cp \in Checkpoint
  PROVE  /\ SameRun(cp)
         /\ \A v \in {"allow", "block"} : SameRun([cp EXCEPT !.gate = v]) /\ [cp EXCEPT !.gate = v].gate = v
         /\ \A s \in Steps : SameRun([cp EXCEPT !.done = @ \cup {s}])
         /\ \A how \in {"failed", "poisoned"} : SameRun([cp EXCEPT !.failed = how])
         /\ \A v \in {"pass", "fail"} : SameRun([cp EXCEPT !.verdict = v])
         /\ \A T \in SUBSET Steps : cp.round < MaxRemediations =>
              SameRun([cp EXCEPT !.round = @ + 1, !.verdict = "fail", !.done = @ \ T])
<1>1. SameRun(cp)
  BY DEF SameRun
<1>2. ASSUME NEW v \in {"allow", "block"} PROVE SameRun([cp EXCEPT !.gate = v]) /\ [cp EXCEPT !.gate = v].gate = v
  BY DEF SameRun, Checkpoint
<1>3. ASSUME NEW s \in Steps PROVE SameRun([cp EXCEPT !.done = @ \cup {s}])
  BY DEF SameRun, Checkpoint
<1>4. ASSUME NEW how \in {"failed", "poisoned"} PROVE SameRun([cp EXCEPT !.failed = how])
  BY DEF SameRun, Checkpoint
<1>5. ASSUME NEW v \in {"pass", "fail"} PROVE SameRun([cp EXCEPT !.verdict = v])
  BY DEF SameRun, Checkpoint
<1>6. ASSUME NEW T \in SUBSET Steps, cp.round < MaxRemediations
      PROVE  SameRun([cp EXCEPT !.round = @ + 1, !.verdict = "fail", !.done = @ \ T])
  <2> DEFINE c == [cp EXCEPT !.round = @ + 1, !.verdict = "fail", !.done = @ \ T]
  <2>1. cp.round + 1 \in 0..MaxRemediations
    BY <1>6, BoundsAssumption DEF Checkpoint
  <2>2. c \in Checkpoint /\ c.run = cp.run /\ c.gate = cp.gate /\ c.ledger = cp.ledger
    BY <2>1 DEF Checkpoint
  <2> HIDE DEF c
  <2>3. SameRun(c)
    BY <2>2 DEF SameRun
  <2> QED BY <2>3 DEF c
<1> QED BY <1>1, <1>2, <1>3, <1>4, <1>5, <1>6
-----------------------------------------------------------------------------
(***************************************************************************)
(* Gate, steps and verification                                            *)
(***************************************************************************)

\* They post nothing, and lead to each other, to a comment that is no result, or to a wait whose
\* checkpoint is stored.
Working ==
  /\ pc \in {"start", "work", "verify"}
  /\ UNCHANGED <<posted, closed>>
  /\ files'.task = files.task /\ files'.cp \in {files.cp, cp'}
  /\ \/ pc' \in {"work", "verify", "deliver"} /\ UNCHANGED <<note, end>>
     \/ pc' = "say" /\ note' \in {"dead-letter", "blocked", "error"} /\ end' \in {"dead-lettered", "blocked", "failed"}
     \/ pc' = "finish" /\ note' = note /\ end' = "waiting" /\ files'.cp = cp'

\* A step that works and asks no gate.
Unasked == asked' = asked /\ (cp.gate # "none" \/ recheck \/ pc # "start")

\* The types once the step is known to work.
LEMMA TypedWorking ==
  ASSUME Typed, Within, Working, asked' \in [Runs -> 0..2], task'.status = task.status
  PROVE  Typed'
<1>1. note' \in Kinds \cup {"none"} /\ end' \in TASK_STATUSES /\ (pc' = "say" => note' \in Kinds)
  BY DEF Typed, Working, Kinds, TASK_STATUSES, TERMINAL_STATUSES
<1>2. posted' \in [Kinds \X Runs -> 0..2] /\ closed' \in BOOLEAN
  BY DEF Typed, Working
<1>3. pc' \notin {"pr made", "said", "ended", "over"} /\ task'.status = "running"
  BY DEF Typed, Working
<1> QED BY <1>1, <1>2, <1>3, TypedWithin

\* The gate is asked when the checkpoint has no verdict of it, and the verdict is stored.
LEMMA GateSteps ==
  ASSUME Typed, RunsOK, Gate
  PROVE  /\ Within /\ Working /\ Typed' /\ cp'.gate # "none"
         /\ \/ asked' = asked
            \/ cp.gate = "none" /\ asked' = [asked EXCEPT ![cp.run] = Capped(@)]
<1>1. pc = "start" /\ pc' \in Labels \ {"idle", "start"} /\ pc # "idle"
      /\ UNCHANGED <<job, task, recheck, quiet, answers, lastRun, posted, closed>>
  BY DEF Gate, Announce, Goto, env, Labels
<1>2. \/ pc' = "work" /\ UNCHANGED <<note, end>>
      \/ pc' = "say" /\ note' = "blocked" /\ end' = "blocked"
  BY DEF Gate, Announce, Goto
<1>3. task' \in TaskRec /\ task'.approvals = task.approvals /\ task'.status = task.status
  BY <1>1 DEF Typed
<1>4. CASE GateUnasked
  <2>1. PICK v \in {"allow", "block"} : Persist([cp EXCEPT !.gate = v])
    BY <1>4 DEF Gate
  <2>2. SameRun([cp EXCEPT !.gate = v]) /\ [cp EXCEPT !.gate = v].gate = v
    BY CheckpointsInARun DEF Typed
  <2>3. Within /\ files'.task = files.task /\ files'.cp = cp' /\ cp' = [cp EXCEPT !.gate = v]
    BY <1>1, <1>3, <2>1, <2>2, StepPersists
  <2>4. asked' = [asked EXCEPT ![cp.run] = Capped(@)] /\ cp.gate = "none"
    BY <1>4 DEF Gate, GateUnasked
  <2>5. cp.run \in Runs
    BY <1>1, RunIds DEF RunsOK, Typed
  <2>6. asked' \in [Runs -> 0..2]
    BY <2>4, <2>5, Caps DEF Typed
  <2>7. Working
    BY <1>1, <1>2, <2>3 DEF Working
  <2> QED BY <1>3, <2>2, <2>3, <2>4, <2>6, <2>7, TypedWorking
<1>5. CASE ~GateUnasked
  <2>1. UNCHANGED <<cp, files, durable, asked>> /\ cp.gate # "none"
    BY <1>5 DEF Gate, GateUnasked
  <2>2. Within
    BY <1>1, <2>1, StandsStill
  <2>3. Working
    BY <1>1, <1>2, <2>1 DEF Working
  <2>4. asked' \in [Runs -> 0..2]
    BY <2>1 DEF Typed
  <2> QED BY <1>3, <2>1, <2>2, <2>3, <2>4, TypedWorking
<1> QED BY <1>4, <1>5

\* A step that works on the checkpoint and persists it.
LEMMA WorkPersists ==
  ASSUME Typed, NEW c, SameRun(c), Persist(c), pc \in {"work", "verify"},
         task' \in TaskRec, task'.approvals = task.approvals, task'.status = task.status,
         UNCHANGED <<job, recheck, quiet, answers, lastRun, posted, closed, asked>>,
         \/ pc' \in {"work", "verify", "deliver"} /\ UNCHANGED <<note, end>>
         \/ pc' = "say" /\ note' = "dead-letter" /\ end' = "dead-lettered"
         \/ pc' = "finish" /\ note' = note /\ end' = "waiting"
  PROVE  Within /\ Working /\ Typed' /\ Unasked
<1>1. pc # "idle" /\ pc' \in Labels \ {"idle", "start"}
  BY DEF Labels
<1>2. Within /\ files'.task = files.task /\ files'.cp = cp'
  BY <1>1, StepPersists
<1>3. Working
  BY <1>2 DEF Working
<1>4. Typed'
  BY <1>2, <1>3, TypedWorking DEF Typed
<1> QED BY <1>2, <1>3, <1>4 DEF Unasked

\* A step that works and writes no file.
LEMMA WorkStandsStill ==
  ASSUME Typed, UNCHANGED <<job, task, cp, recheck, quiet, files, durable, posted, closed, answers, lastRun, asked>>,
         pc \in {"work", "verify"} \/ (pc = "start" /\ recheck),
         pc' = "say" /\ note' \in {"dead-letter", "error"} /\ end' \in {"dead-lettered", "failed"}
  PROVE  Within /\ Working /\ Typed' /\ Unasked
<1>1. pc # "idle" /\ pc' \in Labels \ {"idle", "start"}
  BY DEF Labels
<1>2. Within
  BY <1>1, StandsStill
<1>3. Working
  BY DEF Working
<1>4. Typed'
  BY <1>2, <1>3, TypedWorking DEF Typed
<1> QED BY <1>2, <1>3, <1>4 DEF Unasked

\* Everything that runOrchestration() does up to the verdict works.
LEMMA WorkSteps ==
  ASSUME Typed, RunsOK, Work
  PROVE  Within /\ Working /\ Typed' /\ (Gate \/ Unasked)
<1>0. cp \in Checkpoint /\ task \in TaskRec /\ SameRun(cp)
  BY CheckpointsInARun DEF Typed
<1>1. CASE Gate
  BY <1>1, GateSteps
<1>2. CASE StartOverBudget
  BY <1>2, WorkStandsStill DEF StartOverBudget, DeadLetter, Announce, Goto, env, hist
<1>3. CASE InternalError
  BY <1>3, WorkStandsStill DEF InternalError, Announce, Goto, env, hist
<1>4. CASE Park
  <2>1. task' = [task EXCEPT !.parks = @ + 1]
    BY <1>4 DEF Park
  <2>2. task' \in TaskRec /\ task'.approvals = task.approvals /\ task'.status = task.status
    BY <1>0, <2>1 DEF TaskRec
  <2>3. \/ pc' = "say" /\ note' = "dead-letter" /\ end' = "dead-lettered"
        \/ pc' = "finish" /\ note' = note /\ end' = "waiting"
    BY <1>4 DEF Park, DeadLetter, Announce, Leave, Goto
  <2> QED BY <1>0, <1>4, <2>2, <2>3, WorkPersists DEF Park, env, hist
<1>5. CASE Drain
  <2>1. \/ pc' = "say" /\ note' = "dead-letter" /\ end' = "dead-lettered"
        \/ pc' = "finish" /\ note' = note /\ end' = "waiting"
    BY <1>5 DEF Drain, DeadLetter, Announce, Leave, Goto
  <2> QED BY <1>0, <1>5, <2>1, WorkPersists DEF Drain, env, hist
<1>6. CASE Synthesize
  <2>1. pc' \in {"work", "verify", "deliver"} /\ UNCHANGED <<note, end>>
    BY <1>6 DEF Synthesize, Goto
  <2> QED BY <1>0, <1>6, <2>1, WorkPersists DEF Synthesize, env, hist
<1>7. ASSUME NEW s \in Steps, RunStep(s) PROVE Within /\ Working /\ Typed' /\ Unasked
  <2>1. SameRun([cp EXCEPT !.done = @ \cup {s}])
    BY <1>0, CheckpointsInARun
  <2> QED BY <1>0, <1>7, <2>1, WorkPersists DEF RunStep, env, hist
<1>8. ASSUME NEW s \in Steps, FailStep(s) PROVE Within /\ Working /\ Typed' /\ Unasked
  <2>1. PICK how \in {"failed", "poisoned"} : Persist([cp EXCEPT !.failed = how])
    BY <1>8 DEF FailStep
  <2>2. SameRun([cp EXCEPT !.failed = how])
    BY <1>0, CheckpointsInARun
  <2> QED BY <1>0, <1>8, <2>1, <2>2, WorkPersists DEF FailStep, env, hist
<1>9. CASE Pass
  <2>1. SameRun([cp EXCEPT !.verdict = "pass"])
    BY <1>0, CheckpointsInARun
  <2> QED BY <1>0, <1>9, <2>1, WorkPersists DEF Pass, Goto, env, hist
<1>10. CASE FailVerification
  <2>1. cp' = [cp EXCEPT !.verdict = "fail"] /\ UNCHANGED <<files, durable>>
    BY <1>10 DEF FailVerification, NotPersisted
  <2>2. SameRun(cp')
    BY <1>0, <2>1, CheckpointsInARun
  <2>3. /\ pc = "verify" /\ pc' = "deliver"
        /\ UNCHANGED <<job, task, recheck, quiet, note, end, posted, closed, answers, lastRun, asked>>
    BY <1>10 DEF FailVerification, Goto, env, hist
  <2>4. Within
    BY <1>0, <2>1, <2>2, <2>3 DEF Within, Typed, Labels
  <2>5. Working
    BY <2>1, <2>3 DEF Working
  <2>6. Typed'
    BY <2>3, <2>4, <2>5, TypedWorking DEF Typed
  <2> QED BY <2>3, <2>4, <2>5, <2>6 DEF Unasked
<1>11. ASSUME NEW T \in SUBSET Steps, Remediate(T) PROVE Within /\ Working /\ Typed' /\ Unasked
  <2>1. SameRun([cp EXCEPT !.round = @ + 1, !.verdict = "fail", !.done = @ \ T])
    BY <1>0, <1>11, CheckpointsInARun DEF Remediate
  <2> QED BY <1>0, <1>11, <2>1, WorkPersists DEF Remediate, Goto, env, hist
<1> QED BY <1>1, <1>2, <1>3, <1>4, <1>5, <1>6, <1>7, <1>8, <1>9, <1>10, <1>11 DEF Work-----------------------------------------------------------------------------
(***************************************************************************)
(* Delivery                                                                *)
(***************************************************************************)

\* A step of a delivery that writes no file.
LEMMA DeliveryStandsStill ==
  ASSUME Typed, pc \in Labels \ {"idle", "ended", "over"}, pc' \in Labels \ {"idle", "start", "ended", "over"},
         UNCHANGED <<job, task, cp, recheck, quiet, files, durable, answers, lastRun, asked>>,
         note' \in Kinds \cup {"none"}, end' \in TASK_STATUSES, pc' \in {"pr made", "say", "said"} => note' \in Kinds,
         posted' \in [Kinds \X Runs -> 0..2], closed' \in BOOLEAN
  PROVE  Within /\ Typed' /\ files'.task = files.task /\ files'.cp \in {files.cp, cp'}
<1>1. Within
  BY StandsStill
<1>2. asked' \in [Runs -> 0..2] /\ task'.status = "running"
  BY DEF Typed
<1> QED BY <1>1, <1>2, TypedWithin

\* A step of a delivery that persists the checkpoint.
LEMMA DeliveryPersists ==
  ASSUME Typed, pc \in Labels \ {"idle", "ended", "over"}, pc' \in Labels \ {"idle", "start", "ended", "over"},
         NEW c, SameRun(c), Persist(c),
         task' \in TaskRec, task'.approvals = task.approvals, task'.status = task.status,
         UNCHANGED <<job, recheck, quiet, answers, lastRun, asked, posted, closed>>,
         note' \in Kinds \cup {"none"}, end' \in TASK_STATUSES, pc' \in {"pr made", "say", "said"} => note' \in Kinds
  PROVE  Within /\ Typed' /\ files'.task = files.task /\ files'.cp = cp' /\ cp' = c
<1>1. Within /\ files'.task = files.task /\ files'.cp = cp' /\ cp' = c
  BY StepPersists
<1>2. asked' \in [Runs -> 0..2] /\ task'.status = "running" /\ posted' \in [Kinds \X Runs -> 0..2] /\ closed' \in BOOLEAN
  BY DEF Typed
<1> QED BY <1>1, <1>2, TypedWithin

\* The key that once() records is in the ledger of the same checkpoint.
LEMMA KeysRecorded ==
  ASSUME Typed, RunsOK
  PROVE  /\ pc = "pr made" => SameRun([cp EXCEPT !.ledger = @ \cup {PrKey}])
         /\ pc = "said" => SameRun([cp EXCEPT !.ledger = @ \cup {Key}])
         /\ pc = "closed" => SameRun([cp EXCEPT !.ledger = @ \cup {CloseKey}])
<1>1. cp \in Checkpoint /\ (pc # "idle" => cp.run \in Runs)
  BY RunIds DEF Typed, RunsOK
<1>2. ASSUME NEW k \in Keys, NEW r \in Runs, pc # "idle", k[2] = cp.run
      PROVE  /\ [cp EXCEPT !.ledger = @ \cup {k}] \in Checkpoint
             /\ [cp EXCEPT !.ledger = @ \cup {k}].run = cp.run /\ [cp EXCEPT !.ledger = @ \cup {k}].gate = cp.gate
             /\ [cp EXCEPT !.ledger = @ \cup {k}].ledger = cp.ledger \cup {k}
  BY <1>1 DEF Checkpoint
<1>3. ASSUME pc = "pr made" PROVE SameRun([cp EXCEPT !.ledger = @ \cup {PrKey}])
  <2>1. PrKey \in Keys /\ PrKey[2] = cp.run /\ \A r \in Runs : PrKey # <<"done", r>> /\ PrKey # <<"close", r>>
    BY <1>1, <1>3 DEF PrKey, Keys
  <2> QED BY <1>1, <1>2, <1>3, <2>1 DEF SameRun
<1>4. ASSUME pc = "said" PROVE SameRun([cp EXCEPT !.ledger = @ \cup {Key}])
  <2>1. Key \in Keys /\ Key[2] = cp.run /\ \A r \in Runs : Key # <<"close", r>>
    BY <1>1, <1>4 DEF Key, Keys, Kinds, Typed
  <2> QED BY <1>1, <1>2, <1>4, <2>1 DEF SameRun
<1>5. ASSUME pc = "closed" PROVE SameRun([cp EXCEPT !.ledger = @ \cup {CloseKey}])
  <2>1. CloseKey \in Keys /\ CloseKey[2] = cp.run /\ \A r \in Runs : CloseKey # <<"done", r>>
    BY <1>1, <1>5 DEF CloseKey, Keys
  <2> QED BY <1>1, <1>2, <1>5, <2>1 DEF SameRun
<1> QED BY <1>3, <1>4, <1>5

\* once() posts the comment of this run and kind.
LEMMA CommentsPosted ==
  ASSUME Typed, RunsOK, PostComment
  PROVE  /\ Key \in Kinds \X Runs /\ posted' = [posted EXCEPT ![Key] = Capped(@)]
         /\ posted' \in [Kinds \X Runs -> 0..2] /\ posted'[Key] > 0
         /\ \A k \in Kinds \X Runs : posted'[k] >= posted[k] /\ (k # Key => posted'[k] = posted[k])
<1>1. Key \in Kinds \X Runs
  BY RunIds DEF Typed, RunsOK, PostComment, Key
<1>2. posted' = [posted EXCEPT ![Key] = Capped(@)]
  BY DEF PostComment
<1>3. posted \in [Kinds \X Runs -> 0..2]
  BY DEF Typed
<1>4. posted'[Key] = Capped(posted[Key]) /\ \A k \in Kinds \X Runs : k # Key => posted'[k] = posted[k]
  BY <1>1, <1>2, <1>3
<1>5. posted'[Key] \in 0..2 /\ posted'[Key] >= posted[Key] /\ posted'[Key] > 0
  BY <1>1, <1>3, <1>4, Caps
<1>6. posted' \in [Kinds \X Runs -> 0..2]
  BY <1>2, <1>3, <1>4, <1>5
<1>7. \A k \in Kinds \X Runs : posted'[k] >= posted[k]
  <2> TAKE k \in Kinds \X Runs
  <2>1. posted[k] \in Nat
    BY <1>3
  <2> QED BY <1>4, <1>5, <2>1
<1> QED BY <1>1, <1>2, <1>4, <1>5, <1>6, <1>7
\* Until the task's transition the files keep the task; the transition, its saving and an exception write it.
Talking == files'.task = files.task /\ files'.cp \in {files.cp, cp'}

\* The policy's decision and what follows it up to the comment.
LEMMA DecisionSteps ==
  ASSUME Typed, RunsOK, Suppress \/ AskApproval \/ Deliver \/ PrOnRecord \/ OpenPr \/ RecordPr
  PROVE  Within /\ Typed' /\ Talking /\ (pc' = "say" /\ end' = "waiting" => files'.cp = cp')
<1>0. cp \in Checkpoint /\ task \in TaskRec /\ SameRun(cp) /\ closed \in BOOLEAN
      /\ posted \in [Kinds \X Runs -> 0..2] /\ note \in Kinds \cup {"none"} /\ end \in TASK_STATUSES
  BY CheckpointsInARun DEF Typed
<1>1. CASE Suppress
  <2>1. pc = "deliver" /\ pc' = "finish" /\ note' = note /\ end' \in TASK_STATUSES
    BY <1>1 DEF Suppress, Leave, Goto, TASK_STATUSES, TERMINAL_STATUSES
  <2> QED BY <1>0, <1>1, <2>1, DeliveryStandsStill DEF Suppress, env, hist, Labels, Talking
<1>2. CASE AskApproval
  <2>1. pc = "deliver" /\ pc' = "say" /\ note' = "approval" /\ end' = "waiting" /\ Persist(cp)
    BY <1>2 DEF AskApproval, Announce, Goto
  <2>2. note' \in Kinds /\ end' \in TASK_STATUSES
    BY <2>1 DEF Kinds, TASK_STATUSES
  <2> QED BY <1>0, <1>2, <2>1, <2>2, DeliveryPersists DEF AskApproval, env, hist, Labels, Talking
<1>3. CASE Deliver
  <2>1. pc = "deliver" /\ Persist(cp)
        /\ \/ pc' = "pr" /\ note' = note /\ end' = end
           \/ pc' = "say" /\ note' \in Kinds /\ end' \in TASK_STATUSES
    BY <1>3 DEF Deliver, DeadLetter, Announce, Goto, Kinds, TASK_STATUSES, TERMINAL_STATUSES
  <2> QED BY <1>0, <1>3, <2>1, DeliveryPersists DEF Deliver, env, hist, Labels, Talking
<1>4. CASE PrOnRecord
  <2>1. pc = "pr" /\ pc' = "say" /\ note' \in Kinds /\ end' \in TASK_STATUSES \ {"waiting"}
    BY <1>4 DEF PrOnRecord, Announce, Goto, Kinds, TASK_STATUSES
  <2> QED BY <1>0, <1>4, <2>1, DeliveryStandsStill DEF PrOnRecord, env, hist, Labels, Talking
<1>5. CASE OpenPr
  <2>1. pc = "pr" /\ pc' = "pr made" /\ note' \in Kinds /\ end' \in TASK_STATUSES
    BY <1>5 DEF OpenPr, Goto, Kinds, TASK_STATUSES, TERMINAL_STATUSES
  <2> QED BY <1>0, <1>5, <2>1, DeliveryStandsStill DEF OpenPr, hist, Labels, Talking
<1>6. CASE RecordPr
  <2>1. pc = "pr made" /\ pc' = "say" /\ note' = note /\ end' = end
    BY <1>6 DEF RecordPr, Goto
  <2>2. task' \in TaskRec /\ task'.approvals = task.approvals /\ task'.status = task.status
    BY <1>0, <1>6 DEF RecordPr, TaskRec
  <2>3. SameRun([cp EXCEPT !.ledger = @ \cup {PrKey}])
    BY <2>1, KeysRecorded
  <2>4. note' \in Kinds
    BY <2>1 DEF Typed
  <2> QED BY <1>0, <1>6, <2>1, <2>2, <2>3, <2>4, DeliveryPersists DEF RecordPr, env, hist, Labels, Talking
<1> QED BY <1>1, <1>2, <1>3, <1>4, <1>5, <1>6

\* The comment, its key in the ledger, and the closing of the issue.
LEMMA CommentSteps ==
  ASSUME Typed, RunsOK,
         SayNothing \/ Mute \/ FindComment \/ PostComment \/ RecordComment \/ CloseIssue \/ RecordClose
  PROVE  Within /\ Typed' /\ Talking
<1>0. cp \in Checkpoint /\ task \in TaskRec /\ SameRun(cp) /\ closed \in BOOLEAN
      /\ posted \in [Kinds \X Runs -> 0..2] /\ note \in Kinds \cup {"none"} /\ end \in TASK_STATUSES
      /\ AfterNote \in {"close", "finish"}
  BY CheckpointsInARun DEF Typed, AfterNote
<1>1. CASE SayNothing
  BY <1>0, <1>1, DeliveryStandsStill DEF SayNothing, Goto, mem, env, hist, Labels, Talking
<1>2. CASE Mute
  BY <1>0, <1>2, DeliveryStandsStill DEF Mute, Goto, mem, env, Labels, Talking
<1>3. CASE FindComment
  BY <1>0, <1>3, DeliveryStandsStill DEF FindComment, Goto, mem, env, hist, Labels, Talking, Typed
<1>4. CASE PostComment
  <2>1. posted' \in [Kinds \X Runs -> 0..2]
    BY <1>4, CommentsPosted
  <2> QED BY <1>0, <1>4, <2>1, DeliveryStandsStill DEF PostComment, Goto, mem, env, hist, Labels, Talking, Typed
<1>5. CASE RecordComment
  <2>1. SameRun([cp EXCEPT !.ledger = @ \cup {Key}])
    BY <1>5, KeysRecorded DEF RecordComment
  <2> QED BY <1>0, <1>5, <2>1, DeliveryPersists DEF RecordComment, Goto, env, hist, Labels, Talking
<1>6. CASE CloseIssue
  <2>1. pc = "close" /\ pc' \in {"finish", "closed"} /\ closed' \in BOOLEAN
    BY <1>0, <1>6 DEF CloseIssue, Goto
  <2> QED BY <1>0, <1>6, <2>1, DeliveryStandsStill DEF CloseIssue, mem, hist, Labels, Talking
<1>7. CASE RecordClose
  <2>1. SameRun([cp EXCEPT !.ledger = @ \cup {CloseKey}])
    BY <1>7, KeysRecorded DEF RecordClose
  <2> QED BY <1>0, <1>7, <2>1, DeliveryPersists DEF RecordClose, Goto, env, hist, Labels, Talking
<1> QED BY <1>1, <1>2, <1>3, <1>4, <1>5, <1>6, <1>7
\* The task's transition: its checkpoint is dropped unless it waits.
LEMMA FinishSteps ==
  ASSUME Typed, Finish
  PROVE  Within /\ Typed' /\ files'.task = files.task /\ files'.cp = LeftBehind /\ pc' = "ended"
<1>1. pc = "finish" /\ pc' = "ended" /\ LeftBehind \in Checkpoint /\ LeftBehind \in {files.cp, NoCheckpoint}
  BY NoCheckpoints DEF Finish, Goto, Typed, Files, LeftBehind
<1>2. task' = Move(task, end, IF note = "approval" THEN "approval" ELSE "provider")
  BY DEF Finish
<1>3. task' \in TaskRec /\ task'.status = end /\ task'.approvals = task.approvals
  BY <1>2, Moves, ZenonT(40) DEF Typed, WAIT_REASONS
<1>4. files' = [files EXCEPT !.cp = LeftBehind] /\ durable' \in {durable, files'}
  BY DEF Finish, Write
<1>5. files' \in Files /\ files'.cp = LeftBehind /\ files'.task = files.task
  BY <1>1, <1>4, Drops DEF Typed
<1>6. UNCHANGED <<job, cp, recheck, quiet, note, end, posted, closed, answers, lastRun, asked>>
  BY DEF Finish, env, hist
<1>7. SameRun(cp')
  BY <1>6, CheckpointsInARun DEF Typed, SameRun
<1>8. Within
  BY <1>1, <1>3, <1>4, <1>5, <1>6, <1>7 DEF Within, Labels
<1>9. Typed'
  BY <1>1, <1>3, <1>6, <1>8, TypedWithin DEF Typed
<1> QED BY <1>1, <1>5, <1>8, <1>9

\* The task is saved after its transition, or as it is, still running, when GitHub throws.
LEMMA SaveSteps ==
  ASSUME Typed, SaveTask \/ Throw
  PROVE  Within /\ Typed' /\ files'.task = task /\ files'.cp = files.cp /\ pc' = "over"
<1>1. /\ pc \in {"say", "said", "pr", "pr made", "close", "closed", "ended"} /\ pc' = "over"
      /\ files' = [files EXCEPT !.task = task] /\ durable' \in {durable, files'}
      /\ UNCHANGED <<job, task, cp, recheck, quiet, note, end, posted, closed, answers, lastRun, asked>>
  BY DEF SaveTask, Throw, Write, WriteAndPush, Goto, mem, env, hist
<1>2. files' \in Files /\ files'.cp = files.cp /\ files'.task = task
  BY <1>1, Saves DEF Typed
<1>3. SameRun(cp')
  BY <1>1, CheckpointsInARun DEF Typed, SameRun
<1>4. Within
  BY <1>1, <1>2, <1>3 DEF Within, Labels, Typed
<1>5. Typed'
  BY <1>1, <1>4, TypedWithin DEF Typed
<1> QED BY <1>1, <1>2, <1>4, <1>5

-----------------------------------------------------------------------------
(***************************************************************************)
(* The start and the end of a pulse, and what happens between pulses       *)
(***************************************************************************)

\* A record that can be claimed has the answers of the file's.
LEMMA Claims ==
  ASSUME Typed, NEW t \in Claimable
  PROVE  /\ t \in TaskRec /\ t.approvals = files.task.approvals
         /\ t.status \in {"running", "waiting", "pending"} /\ t.status = files.task.status
<1>1. files.task \in TaskRec /\ Charged(files.task) \in TaskRec
      /\ Charged(files.task).approvals = files.task.approvals /\ Charged(files.task).status = files.task.status
  BY Charges DEF Typed, Files
<1>2. CASE files.task.status = "running"
  BY <1>1, <1>2 DEF Claimable
<1>3. CASE files.task.status = "waiting" /\ files.task.waitReason = "approval"
  BY <1>1, <1>3 DEF Claimable
<1>4. CASE files.task.status \in {"pending", "waiting"} /\ files.task.waitReason # "approval"
  BY <1>1, <1>4 DEF Claimable
<1> QED BY <1>1, <1>2, <1>3, <1>4 DEF Claimable

\* claimAndRun(): a pulse claims the task and resumes its checkpoint, or starts a new run.
LEMMA BeginSteps ==
  ASSUME Typed, Begin
  PROVE  /\ Typed' /\ ~closed /\ pc = "idle" /\ pc' = "start"
         /\ task'.approvals = answers /\ task'.status = "running"
         /\ files'.task = task' /\ files'.cp = files.cp /\ durable' \in {durable, files'}
         /\ UNCHANGED <<job, posted, closed, answers, asked, note, end>> /\ quiet' \in Quiet
         /\ \/ /\ files.cp = NoCheckpoint /\ lastRun' = lastRun + 1 /\ lastRun' \in Runs
               /\ cp' = NewCheckpoint(lastRun') /\ recheck' = FALSE
            \/ /\ files.cp # NoCheckpoint /\ lastRun' = lastRun
               /\ cp' = files.cp /\ recheck' = TRUE
<1>1. PICK t \in Claimable : /\ task' = Move([t EXCEPT !.approvals = answers], "running", NoReason)
                              /\ WriteAndPush([files EXCEPT !.task = task'])
  BY DEF Begin
<1>2. [t EXCEPT !.approvals = answers] \in TaskRec /\ [t EXCEPT !.approvals = answers].approvals = answers
  BY Claims DEF Typed, TaskRec
<1>3. task' \in TaskRec /\ task'.approvals = answers /\ task'.status = "running"
  <2> DEFINE u == [t EXCEPT !.approvals = answers]
  <2>1. u \in TaskRec /\ u.approvals = answers /\ task' = Move(u, "running", NoReason)
    BY <1>1, <1>2
  <2>2. "running" \in TASK_STATUSES /\ NoReason \in WAIT_REASONS \cup {NoReason}
    BY DEF TASK_STATUSES
  <2> HIDE DEF u
  <2> QED BY <2>1, <2>2, Moves
<1>4. files' = [files EXCEPT !.task = task'] /\ durable' \in {durable, files'}
  BY <1>1 DEF WriteAndPush
<1>5. files' \in Files /\ files'.task = task' /\ files'.cp = files.cp
  BY <1>3, <1>4, Saves DEF Typed
<1>6. /\ pc = "idle" /\ pc' = "start" /\ ~closed /\ quiet' \in Quiet
      /\ UNCHANGED <<job, posted, closed, answers, asked, note, end>>
  BY DEF Begin, Goto, env
<1>7. \/ /\ files.cp = NoCheckpoint /\ lastRun' = lastRun + 1 /\ lastRun' \in Runs
         /\ cp' = NewCheckpoint(lastRun') /\ recheck' = FALSE
      \/ /\ files.cp # NoCheckpoint /\ lastRun' = lastRun /\ cp' = files.cp /\ recheck' = TRUE
  BY RunIds DEF Begin, Typed
<1>8. lastRun' \in 0..MaxRuns /\ cp' \in Checkpoint /\ recheck' \in BOOLEAN
  <2>1. lastRun \in 0..MaxRuns /\ lastRun' \in 0..MaxRuns
    BY <1>7, RunIds DEF Typed
  <2>2. files.cp \in Checkpoint /\ NewCheckpoint(lastRun') \in Checkpoint
    BY <2>1, NewCheckpoints DEF Typed, Files
  <2> QED BY <1>7, <2>1, <2>2
<1>9. Typed'
  BY <1>3, <1>4, <1>5, <1>6, <1>8, FlagsAssumption DEF Typed, Labels
<1> QED BY <1>3, <1>4, <1>5, <1>6, <1>7, <1>9
\* reconcile() and the sync of the issues end a task that no pulse works on.
LEMMA GiveUpSteps ==
  ASSUME Typed, GiveUp
  PROVE  /\ Typed' /\ pc = "idle" /\ pc' = "idle" /\ durable' = files'
         /\ files'.task.approvals = files.task.approvals
         /\ \/ files'.task.status = "dead-lettered" /\ files'.cp = NoCheckpoint
            \/ files'.task.status \in {"cancelled", "expired"} /\ files'.cp = files.cp
            \/ files'.task = files.task /\ IsTerminal(files.task.status) /\ files'.cp = NoCheckpoint
         /\ UNCHANGED <<job, task, cp, recheck, quiet, note, end, posted, closed, answers, lastRun, asked>>
<1>1. /\ pc = "idle" /\ pc' = "idle" /\ durable' = files'
      /\ UNCHANGED <<job, task, cp, recheck, quiet, note, end, posted, closed, answers, lastRun, asked>>
  BY DEF GiveUp, mem, env, hist
<1>2. files \in Files /\ files.task \in TaskRec /\ files.cp \in Checkpoint /\ NoCheckpoint \in Checkpoint
      /\ {"dead-lettered", "cancelled", "expired"} \subseteq TASK_STATUSES
  BY NoCheckpoints DEF Typed, Files, TASK_STATUSES, TERMINAL_STATUSES
<1>3. /\ files' \in Files /\ files'.task.approvals = files.task.approvals
      /\ \/ files'.task.status = "dead-lettered" /\ files'.cp = NoCheckpoint
         \/ files'.task.status \in {"cancelled", "expired"} /\ files'.cp = files.cp
         \/ files'.task = files.task /\ IsTerminal(files.task.status) /\ files'.cp = NoCheckpoint
  <2> DEFINE Given == /\ files' \in Files /\ files'.task.approvals = files.task.approvals
                      /\ \/ files'.task.status = "dead-lettered" /\ files'.cp = NoCheckpoint
                         \/ files'.task.status \in {"cancelled", "expired"} /\ files'.cp = files.cp
                         \/ files'.task = files.task /\ IsTerminal(files.task.status) /\ files'.cp = NoCheckpoint
  <2>1. ASSUME files' = [task |-> Move(Charged(files.task), "dead-lettered", NoReason), cp |-> NoCheckpoint]
        PROVE  files' \in Files /\ files'.task.approvals = files.task.approvals
               /\ files'.task.status = "dead-lettered" /\ files'.cp = NoCheckpoint
    <3>1. Charged(files.task) \in TaskRec /\ Charged(files.task).approvals = files.task.approvals
      BY <1>2, Charges
    <3>2. /\ Move(Charged(files.task), "dead-lettered", NoReason) \in TaskRec
          /\ Move(Charged(files.task), "dead-lettered", NoReason).status = "dead-lettered"
          /\ Move(Charged(files.task), "dead-lettered", NoReason).approvals = files.task.approvals
      BY <1>2, <3>1, Moves
    <3> QED BY <1>2, <2>1, <3>2 DEF Files
  <2>2. ASSUME NEW t \in TaskRec, t.approvals = files.task.approvals, NEW to \in {"cancelled", "expired"},
               files' = [files EXCEPT !.task = Move(t, to, NoReason)]
        PROVE  Given
    <3>1. Move(t, to, NoReason) \in TaskRec /\ Move(t, to, NoReason).status = to
          /\ Move(t, to, NoReason).approvals = files.task.approvals
      BY <1>2, <2>2, Moves
    <3> QED BY <1>2, <2>2, <3>1, Saves
  <2>3. ASSUME IsTerminal(files.task.status), files' = [files EXCEPT !.cp = NoCheckpoint] PROVE Given
    BY <1>2, <2>3, Drops
  <2>4. ASSUME NEW t \in Claimable, files' = [files EXCEPT !.task = Move(t, "cancelled", NoReason)] PROVE Given
    BY <2>2, <2>4, Claims
  <2> QED BY <1>2, <2>1, <2>2, <2>3, <2>4 DEF GiveUp
<1> QED BY <1>1, <1>3 DEF Typed

\* A pulse ends, and all is committed; or it is killed, and its files are those that were durable.
LEMMA EndSteps ==
  ASSUME Typed, EndPulse \/ Crash
  PROVE  /\ Typed' /\ pc' = "idle" /\ files' \in {files, durable} /\ durable' \in {files, durable}
         /\ task' = NewTask /\ cp' = NoCheckpoint
         /\ UNCHANGED <<job, posted, closed, answers, lastRun, asked>>
<1>1. /\ pc' = "idle" /\ files' \in {files, durable} /\ durable' \in {files, durable}
      /\ task' = NewTask /\ cp' = NoCheckpoint /\ recheck' = FALSE /\ quiet' = FALSE
      /\ note' = "none" /\ end' = "pending"
      /\ UNCHANGED <<job, posted, closed, answers, lastRun, asked>>
  BY DEF EndPulse, Crash, Forget, Goto, env, hist
<1>2. "pending" \in TASK_STATUSES
  BY DEF TASK_STATUSES
<1> QED BY <1>1, <1>2, NewTasks, NoCheckpoints DEF Typed, Labels

\* A user answers once.
LEMMA AnswerSteps ==
  ASSUME Typed, NEW r \in Runs, Answer(r)
  PROVE  /\ Typed' /\ answers[r] = "none" /\ \A q \in Runs : q # r => answers'[q] = answers[q]
         /\ UNCHANGED <<job, pc, task, cp, recheck, quiet, note, end, files, durable, posted, closed, lastRun, asked>>
BY DEF Typed, Answer, Answers, mem, hist-----------------------------------------------------------------------------
(***************************************************************************)
(* Runs: the gate and the comments                                         *)
(***************************************************************************)

\* A step within a pulse leaves no trace of another run.
LEMMA RunsWithin ==
  ASSUME Typed, RunsOK, Within, cp'.gate # "none",
         pc' \in Before => pc \in Before /\ posted' = posted,
         \A r \in Runs : r # cp.run => asked'[r] = asked[r],
         \A k \in Kinds \X Runs : k[2] # cp.run => posted'[k] = posted[k]
  PROVE  RunsOK'
<1>1. cp.run \in Runs /\ cp.run \in 1..lastRun /\ lastRun \in Nat
  <2>1. lastRun \in 0..MaxRuns /\ lastRun \in Nat
    BY RunIds DEF Typed
  <2>2. cp.run \in 1..lastRun
    BY DEF RunsOK, Within
  <2> QED BY <2>1, <2>2, RunIds
<1>2. cp'.run = cp.run /\ lastRun' = lastRun /\ recheck' = recheck /\ pc' \in Labels \ {"idle", "start"}
  BY DEF Within, SameRun
<1>3. ASSUME NEW r \in Runs, r > lastRun PROVE asked'[r] = 0 /\ \A k \in Kinds : posted'[<<k, r>>] = 0
  <2>1. r # cp.run /\ asked[r] = 0 /\ \A k \in Kinds : posted[<<k, r>>] = 0
    BY <1>1, <1>3 DEF RunsOK
  <2>2. ASSUME NEW k \in Kinds PROVE posted'[<<k, r>>] = 0
    <3>1. <<k, r>> \in Kinds \X Runs /\ <<k, r>>[2] # cp.run
      BY <2>1
    <3> QED BY <2>1, <3>1
  <2> QED BY <2>1, <2>2
<1>4. Stored(cp') /\ Stored(NoCheckpoint) /\ Stored(files.cp) /\ Stored(durable.cp)
  BY <1>1, <1>2 DEF Stored, RunsOK
<1>5. Stored(files'.cp) /\ Stored(durable'.cp)
  BY <1>4 DEF Within
<1>6. Stored(files.cp)' /\ Stored(durable.cp)'
  BY <1>2, <1>5 DEF Stored
<1>7. pc' \in Before /\ ~recheck' => \A k \in Kinds : posted'[<<k, cp'.run>>] = 0
  BY <1>2 DEF RunsOK
<1> QED BY <1>1, <1>2, <1>3, <1>6, <1>7 DEF RunsOK

\* The verdict of the gate is in the checkpoint from the gate on.
LEMMA GatePassed ==
  ASSUME RunsOK, Within, pc # "start"
  PROVE  cp'.gate # "none"
BY DEF RunsOK, Within, SameRun

\* The steps of a delivery, in the terms of RunsWithin.
LEMMA DeliveryKeepsRuns ==
  ASSUME Typed, RunsOK, Delivery, ~EndPulse
  PROVE  Typed' /\ Within /\ RunsOK' /\ asked' = asked /\ (posted' = posted \/ PostComment)
<1>1. pc \notin {"idle", "start"} /\ asked' = asked /\ (pc' \in Before => pc \in Before) /\ (posted' = posted \/ PostComment)
  BY DEF Delivery, Suppress, AskApproval, Deliver, PrOnRecord, OpenPr, RecordPr, SayNothing, Mute, FindComment, PostComment,
         RecordComment, CloseIssue, RecordClose, Finish, SaveTask, Throw, Leave, Announce, DeadLetter, Goto, AfterNote,
         env, hist, Before
<1>2. Within /\ Typed'
  BY DecisionSteps, CommentSteps, FinishSteps, SaveSteps DEF Delivery
<1>3. cp'.gate # "none"
  BY <1>1, <1>2, GatePassed
<1>4. CASE posted' = posted
  BY <1>1, <1>2, <1>3, <1>4, RunsWithin
<1>5. CASE PostComment
  <2>1. pc' = "said" /\ \A k \in Kinds \X Runs : k # Key => posted'[k] = posted[k]
    BY <1>5, CommentsPosted DEF PostComment, Goto
  <2>2. Key[2] = cp.run /\ pc' \notin Before
    BY <2>1 DEF Key, Before
  <2> QED BY <1>1, <1>2, <1>3, <2>1, <2>2, RunsWithin
<1> QED BY <1>1, <1>2, <1>4, <1>5

\* The steps of the work.
LEMMA WorkKeepsRuns ==
  ASSUME Typed, RunsOK, Work
  PROVE  Typed' /\ Within /\ Working /\ RunsOK'
<1>1. Within /\ Working /\ Typed' /\ (Gate \/ Unasked) /\ pc \in Before /\ posted' = posted
  BY WorkSteps DEF Working, Before
<1>2. \A r \in Runs : r # cp.run => asked'[r] = asked[r]
  BY <1>1, GateSteps DEF Unasked, Typed
<1>3. cp'.gate # "none"
  <2>1. CASE Gate
    BY <2>1, GateSteps
  <2>2. CASE Unasked /\ pc = "start"
    BY <1>1, <2>2 DEF Unasked, RunsOK, Within, SameRun
  <2>3. CASE pc # "start"
    BY <1>1, <2>3, GatePassed
  <2> QED BY <1>1, <2>1, <2>2, <2>3
<1> QED BY <1>1, <1>2, <1>3, RunsWithin
\* A new run has an id that no comment and no question has used.
LEMMA BeginKeepsRuns ==
  ASSUME Typed, RunsOK, Begin
  PROVE  RunsOK'
<1>1. /\ pc' = "start" /\ files'.cp = files.cp /\ durable' \in {durable, files'} /\ UNCHANGED <<posted, asked>>
      /\ \/ /\ files.cp = NoCheckpoint /\ lastRun' = lastRun + 1 /\ lastRun' \in Runs
            /\ cp' = NewCheckpoint(lastRun') /\ recheck' = FALSE
         \/ /\ files.cp # NoCheckpoint /\ lastRun' = lastRun
            /\ cp' = files.cp /\ recheck' = TRUE
  BY BeginSteps
<1>2. lastRun \in Nat /\ files.cp \in Checkpoint
  BY RunIds DEF Typed, Files
<1>3. Stored(files.cp) /\ Stored(durable.cp)
  BY DEF RunsOK
<1>4. CASE files.cp = NoCheckpoint
  <2>1. lastRun' = lastRun + 1 /\ lastRun' \in Runs /\ cp' = NewCheckpoint(lastRun') /\ recheck' = FALSE
    BY <1>1, <1>4
  <2>2. lastRun' \in 0..MaxRuns
    BY <2>1, RunIds
  <2>3. cp'.run = lastRun' /\ cp'.gate = "none"
    BY <2>1, <2>2, NewCheckpoints
  <2>4. Stored(files.cp)' /\ Stored(durable.cp)'
    BY <1>1, <1>2, <1>3, <2>1 DEF Stored
  <2>5. lastRun' > lastRun /\ lastRun' \in 1..lastRun' /\ \A r \in Runs : r > lastRun' => r > lastRun
    BY <1>2, <2>1 DEF Runs
  <2>6. asked[lastRun'] = 0 /\ \A k \in Kinds : posted[<<k, lastRun'>>] = 0
    BY <2>1, <2>5 DEF RunsOK
  <2> QED BY <1>1, <2>1, <2>3, <2>4, <2>5, <2>6 DEF RunsOK
<1>5. CASE files.cp # NoCheckpoint
  <2>1. lastRun' = lastRun /\ cp' = files.cp /\ recheck' = TRUE
    BY <1>1, <1>5
  <2>2. Stored(files.cp)' /\ Stored(durable.cp)'
    BY <1>1, <1>3, <2>1 DEF Stored
  <2>3. cp'.run \in 1..lastRun /\ cp'.gate # "none"
    BY <1>3, <1>5, <2>1 DEF Stored
  <2> QED BY <1>1, <2>1, <2>2, <2>3 DEF RunsOK
<1> QED BY <1>4, <1>5

\* Between pulses nothing happens to the runs.
LEMMA RestKeepsRuns ==
  ASSUME Typed, RunsOK, GiveUp \/ EndPulse \/ Crash \/ (\E r \in Runs : Answer(r))
  PROVE  Typed' /\ RunsOK' /\ UNCHANGED <<posted, asked>>
<1>1. Typed' /\ UNCHANGED <<posted, asked, lastRun>>
  BY GiveUpSteps, EndSteps, AnswerSteps
<1>2. \/ pc' = "idle" /\ files'.cp \in {files.cp, durable.cp, NoCheckpoint} /\ durable'.cp \in {files.cp, durable.cp, NoCheckpoint}
      \/ UNCHANGED <<pc, cp, recheck, files, durable>>
  BY GiveUpSteps, EndSteps, AnswerSteps
<1>3. Stored(files.cp) /\ Stored(durable.cp) /\ Stored(NoCheckpoint)
  BY DEF RunsOK, Stored
<1>4. Stored(files.cp)' /\ Stored(durable.cp)'
  BY <1>1, <1>2, <1>3 DEF Stored
<1>5. CASE pc' = "idle"
  BY <1>1, <1>4, <1>5 DEF RunsOK, Before
<1>6. CASE UNCHANGED <<pc, cp, recheck, files, durable>>
  BY <1>1, <1>4, <1>6 DEF RunsOK
<1> QED BY <1>1, <1>2, <1>5, <1>6

\* A stuttering step.
LEMMA StutterKeepsRuns ==
  ASSUME Typed, RunsOK, UNCHANGED vars
  PROVE  Typed' /\ RunsOK'
BY ZenonT(40) DEF Typed, RunsOK, Stored, vars, mem, env, hist

\* Every step.
LEMMA StepsKeepRuns ==
  ASSUME Typed, RunsOK, [Next]_vars
  PROVE  Typed' /\ RunsOK'
BY BeginSteps, BeginKeepsRuns, RestKeepsRuns, WorkKeepsRuns, DeliveryKeepsRuns, StutterKeepsRuns DEF Next, Pulse

\* Before the first pulse.
LEMMA FirstRuns == Init => Typed /\ RunsOK
<1> SUFFICES ASSUME Init PROVE Typed /\ RunsOK
  OBVIOUS
<1>1. "pending" \in TASK_STATUSES /\ 0 \in 0..MaxRuns
  BY RunIds DEF TASK_STATUSES
<1>2. files \in Files /\ durable \in Files /\ files.cp = NoCheckpoint /\ durable.cp = NoCheckpoint
  BY NewTasks, NoCheckpoints DEF Init, Files
<1>3. Typed
  <2>1. posted \in [Kinds \X Runs -> 0..2] /\ asked \in [Runs -> 0..2] /\ answers \in [Runs -> Answers]
    BY DEF Init, NoAnswers, Answers
  <2>2. lastRun \in 0..MaxRuns /\ end \in TASK_STATUSES
    BY <1>1 DEF Init
  <2> QED BY <1>2, <2>1, <2>2, NewTasks, NoCheckpoints DEF Init, Typed, Labels
<1>4. RunsOK
  BY <1>2 DEF Init, RunsOK, Stored, Before
<1> QED BY <1>3, <1>4

\* At all times.
LEMMA RunsAtAllTimes == Spec => [](Typed /\ RunsOK)
<1>1. Typed /\ RunsOK /\ [Next]_vars => (Typed /\ RunsOK)'
  BY StepsKeepRuns
<1> QED BY <1>1, FirstRuns, PTL DEF Spec

\* The Reviewer Gate is asked at most once in a run: a resumed run finds its verdict in the checkpoint,
\* and a run whose verdict was lost with its process is never resumed (processTask).
THEOREM GateIsAskedOnce == Spec => []GateOnce
<1>1. Init => GateOnce
  BY DEF Init, GateOnce
<1>2. ASSUME Typed, RunsOK, GateOnce, [Next]_vars PROVE GateOnce'
  <2>1. CASE Gate
    <3>1. cp.gate = "none" /\ pc = "start" => asked[cp.run] = 0
      BY <1>2 DEF RunsOK
    <3>2. /\ pc = "start"
          /\ asked' = asked \/ (cp.gate = "none" /\ asked' = [asked EXCEPT ![cp.run] = Capped(@)])
      BY <1>2, <2>1, GateSteps DEF Gate
    <3>3. asked \in [Runs -> 0..2] /\ Capped(0) = 1
      <4>1. Capped(0) = 1
        BY DEF Capped
      <4> QED BY <1>2, <4>1 DEF Typed
    <3>4. ASSUME NEW r \in Runs PROVE asked'[r] <= 1
      <4>1. asked'[r] = asked[r] \/ asked'[r] = 1
        BY <3>1, <3>2, <3>3
      <4> QED BY <1>2, <3>3, <4>1 DEF GateOnce
    <3> QED BY <3>4 DEF GateOnce
  <2>2. CASE asked' = asked
    BY <1>2, <2>2 DEF GateOnce
  <2>3. asked' = asked \/ Gate
    <3>1. Work => asked' = asked \/ Gate
      BY <1>2, WorkSteps DEF Unasked
    <3>2. Delivery => asked' = asked
      BY <1>2, DeliveryKeepsRuns, RestKeepsRuns
    <3>3. UNCHANGED vars => asked' = asked
      BY DEF vars, hist
    <3> QED BY <1>2, <3>1, <3>2, <3>3, BeginSteps, RestKeepsRuns DEF Next, Pulse
  <2> QED BY <2>1, <2>2, <2>3
<1>3. Typed /\ RunsOK /\ GateOnce /\ [Next]_vars => GateOnce'
  BY <1>2
<1> QED BY <1>1, <1>3, RunsAtAllTimes, PTL DEF Spec

\* No comment of a run is posted twice as long as GitHub lists the comments when asked: a pulse that
\* resumed the run looks for the marker first, and one that began it has posted nothing yet (once()).
THEOREM NoCommentTwice == ASSUME ListFails = FALSE PROVE Spec => []KeyOnce
<1>1. Init => KeyOnce
  BY DEF Init, KeyOnce
<1>2. ASSUME Typed, RunsOK, KeyOnce, [Next]_vars PROVE KeyOnce'
  <2>1. CASE PostComment
    <3>1. /\ Key \in Kinds \X Runs /\ posted' = [posted EXCEPT ![Key] = Capped(@)]
          /\ \A k \in Kinds \X Runs : k # Key => posted'[k] = posted[k]
      BY <1>2, <2>1, CommentsPosted
    <3>2. posted \in [Kinds \X Runs -> 0..2] /\ posted[Key] \in 0..2
      BY <1>2, <3>1 DEF Typed
    <3>3. posted[Key] = 0
      <4>1. CASE LooksOnGitHub
        <5>1. ~(posted[Key] > 0)
          BY <2>1, <4>1 DEF PostComment
        <5> QED BY <3>2, <5>1
      <4>2. CASE ~LooksOnGitHub
        <5>1. ~recheck /\ pc \in Before /\ note \in Kinds
          BY <1>2, <2>1, <4>2 DEF LooksOnGitHub, PostComment, Before, Typed
        <5> QED BY <1>2, <5>1 DEF RunsOK, Key
      <4> QED BY <4>1, <4>2
    <3>4. Capped(0) = 1
      BY DEF Capped
    <3>5. posted'[Key] = 1
      BY <3>1, <3>2, <3>3, <3>4
    <3> QED BY <1>2, <3>1, <3>5 DEF KeyOnce
  <2>2. CASE posted' = posted
    BY <1>2, <2>2 DEF KeyOnce
  <2>3. posted' = posted \/ PostComment
    <3>1. Work => posted' = posted
      BY <1>2, WorkKeepsRuns DEF Working
    <3>2. Delivery => posted' = posted \/ PostComment
      BY <1>2, DeliveryKeepsRuns, RestKeepsRuns
    <3>3. UNCHANGED vars => posted' = posted
      BY DEF vars
    <3> QED BY <1>2, <3>1, <3>2, <3>3, BeginSteps, RestKeepsRuns DEF Next, Pulse
  <2> QED BY <2>1, <2>2, <2>3
<1>3. Typed /\ RunsOK /\ KeyOnce /\ [Next]_vars => KeyOnce'
  BY <1>2
<1> QED BY <1>1, <1>3, RunsAtAllTimes, PTL DEF Spec-----------------------------------------------------------------------------
(***************************************************************************)
(* Approvals                                                               *)
(***************************************************************************)

\* A comment is posted for a run that needs no approval or has it.
LEMMA ApprovedPosts ==
  ASSUME Typed, RunsOK, ApprovalsOK, posted' = posted \/ PostComment, UNCHANGED <<job, answers>>
  PROVE  ApprovedFirst'
<1>1. CASE posted' = posted
  BY <1>1 DEF ApprovalsOK, ApprovedFirst
<1>2. CASE PostComment
  <2>1. Key \in Kinds \X Runs /\ \A k \in Kinds \X Runs : k # Key => posted'[k] = posted[k]
    BY <1>2, CommentsPosted
  <2>2. pc = "say"
    BY <1>2 DEF PostComment
  <2> SUFFICES ASSUME job.asks, NEW r \in Runs, posted'[<<"done", r>>] + posted'[<<"pr-comment", r>>] > 0
               PROVE  answers[r] = "approved"
    BY DEF ApprovedFirst
  <2>3. CASE Key \in {<<"done", r>>, <<"pr-comment", r>>}
    <3>1. cp.run = r /\ note \in {"done", "pr-comment"}
      BY <2>3 DEF Key
    <3> QED BY <2>2, <3>1 DEF ApprovalsOK, Delivering
  <2>4. CASE Key \notin {<<"done", r>>, <<"pr-comment", r>>}
    <3>1. <<"done", r>> \in Kinds \X Runs /\ <<"pr-comment", r>> \in Kinds \X Runs
      BY DEF Kinds
    <3>2. posted'[<<"done", r>>] = posted[<<"done", r>>] /\ posted'[<<"pr-comment", r>>] = posted[<<"pr-comment", r>>]
      BY <2>1, <2>4, <3>1
    <3>3. posted[<<"done", r>>] + posted[<<"pr-comment", r>>] > 0
      BY <3>2
    <3> QED BY <3>3 DEF ApprovalsOK, ApprovedFirst
  <2> QED BY <2>3, <2>4
<1> QED BY <1>1, <1>2

\* A step within a pulse.
LEMMA ApprovalsWithin ==
  ASSUME Typed, RunsOK, ApprovalsOK, Within, posted' = posted \/ PostComment,
         Delivering' => Delivering \/ (job.asks => Approved)
  PROVE  ApprovalsOK'
<1>1. UNCHANGED <<job, answers>> /\ cp'.run = cp.run /\ task'.approvals = task.approvals
      /\ files'.task \in {files.task, task'} /\ durable' \in {durable, files, files'}
  BY DEF Within, SameRun
<1>2. ApprovedFirst'
  BY <1>1, ApprovedPosts
<1>3. Quotes(files.task) /\ Quotes(durable.task) /\ Quotes(task)
  BY DEF ApprovalsOK
<1>4. Quotes(files.task)' /\ Quotes(durable.task)' /\ Quotes(task)'
  BY <1>1, <1>3 DEF Quotes
<1>5. cp.run \in Runs
  BY RunIds DEF Typed, RunsOK, Within
<1>6. ASSUME Delivering', job.asks PROVE answers[cp.run] = "approved"
  <2>1. CASE Delivering
    BY <1>6, <2>1 DEF ApprovalsOK
  <2>2. CASE Approved
    <3>1. task.approvals[cp.run] = "approved" /\ task.approvals[cp.run] \in {"none", answers[cp.run]}
      BY <1>3, <1>5, <2>2 DEF Approved, Quotes
    <3> QED BY <3>1
  <2> QED BY <1>6, <2>1, <2>2
<1> QED BY <1>1, <1>2, <1>4, <1>6 DEF ApprovalsOK

\* A delivery is decided with the approval of its run; after the decision the run and the note stay.
LEMMA DeliveryKeepsApprovals ==
  ASSUME Typed, RunsOK, ApprovalsOK, Delivery, ~EndPulse
  PROVE  ApprovalsOK'
<1>1. Within /\ (posted' = posted \/ PostComment)
  BY DeliveryKeepsRuns
<1>2. Delivering' => Delivering \/ (job.asks => Approved)
  <2>1. CASE Suppress \/ AskApproval
    BY <2>1 DEF Suppress, AskApproval, Leave, Announce, Goto, Delivering
  <2>2. CASE Deliver
    BY <2>2 DEF Deliver, MayDeliver
  <2>3. CASE PrOnRecord \/ OpenPr
    BY <2>3 DEF PrOnRecord, OpenPr, Delivering
  <2>4. CASE RecordPr
    BY <2>4 DEF RecordPr, Delivering
  <2>5. CASE SayNothing \/ Mute \/ RecordComment \/ CloseIssue \/ RecordClose \/ Finish \/ SaveTask \/ Throw
    BY <2>5 DEF SayNothing, Mute, RecordComment, CloseIssue, RecordClose, Finish, SaveTask, Throw, Goto, AfterNote, Delivering
  <2>6. CASE FindComment \/ PostComment
    BY <2>6 DEF FindComment, PostComment, Goto, mem, Delivering
  <2> QED BY <2>1, <2>2, <2>3, <2>4, <2>5, <2>6 DEF Delivery
<1> QED BY <1>1, <1>2, ApprovalsWithin

\* The start of a pulse, its end, and what happens between pulses.
LEMMA RestKeepsApprovals ==
  ASSUME Typed, RunsOK, ApprovalsOK, Begin \/ GiveUp \/ EndPulse \/ Crash
  PROVE  ApprovalsOK'
<1>1. UNCHANGED <<job, answers, posted>> /\ pc' \in {"idle", "start"}
  BY BeginSteps, GiveUpSteps, EndSteps
<1>2. Quotes(files.task) /\ Quotes(durable.task) /\ Quotes(task)
  BY DEF ApprovalsOK
<1>3. Quotes(files.task)' /\ Quotes(durable.task)' /\ Quotes(task)'
  <2>1. CASE Begin
    <3>1. task'.approvals = answers /\ files'.task = task' /\ durable' \in {durable, files'}
      BY <2>1, BeginSteps
    <3> QED BY <1>1, <1>2, <3>1 DEF Quotes
  <2>2. CASE GiveUp
    <3>1. files'.task.approvals = files.task.approvals /\ durable' = files' /\ task' = task
      BY <2>2, GiveUpSteps
    <3> QED BY <1>1, <1>2, <3>1 DEF Quotes
  <2>3. CASE EndPulse \/ Crash
    <3>1. task' = NewTask /\ files' \in {files, durable} /\ durable' \in {files, durable}
      BY <2>3, EndSteps
    <3> QED BY <1>1, <1>2, <3>1, NewTasks DEF Quotes
  <2> QED BY <2>1, <2>2, <2>3
<1>4. ApprovedFirst' /\ ~Delivering'
  BY <1>1 DEF ApprovalsOK, ApprovedFirst, Delivering
<1> QED BY <1>3, <1>4 DEF ApprovalsOK
\* An answer is news: nobody has gone by it yet.
LEMMA AnswerKeepsApprovals ==
  ASSUME Typed, RunsOK, ApprovalsOK, NEW r \in Runs, Answer(r)
  PROVE  ApprovalsOK'
<1>1. /\ answers[r] = "none" /\ \A q \in Runs : q # r => answers'[q] = answers[q]
      /\ UNCHANGED <<job, pc, task, cp, note, files, durable, posted>>
  BY AnswerSteps
<1>2. Quotes(files.task)' /\ Quotes(durable.task)' /\ Quotes(task)'
  BY <1>1 DEF ApprovalsOK, Quotes
<1>3. pc # "idle" => cp.run \in Runs
  BY RunIds DEF Typed, RunsOK
<1>4. Delivering' /\ job.asks => answers'[cp.run] = "approved"
  BY <1>1, <1>3 DEF ApprovalsOK, Delivering
<1>5. ApprovedFirst'
  BY <1>1 DEF ApprovalsOK, ApprovedFirst
<1> QED BY <1>1, <1>2, <1>4, <1>5 DEF ApprovalsOK

\* A result is posted on an issue only if its own run was approved, when the policy asks first: what a
\* task record says of an answer is what the user said, across all resumes (approvals.js, policy.js).
THEOREM DeliveredWithApproval == Spec => []ApprovedFirst
<1>1. Init => ApprovalsOK
  <2> SUFFICES ASSUME Init PROVE ApprovalsOK
    OBVIOUS
  <2>1. files.task = NewTask /\ durable.task = NewTask /\ task = NewTask /\ pc = "idle"
    BY DEF Init
  <2>2. \A r \in Runs : posted[<<"done", r>>] + posted[<<"pr-comment", r>>] = 0
    BY DEF Init, Kinds
  <2> QED BY <2>1, <2>2, NewTasks DEF ApprovalsOK, Quotes, Delivering, ApprovedFirst
<1>2. ASSUME Typed, RunsOK, ApprovalsOK, [Next]_vars PROVE ApprovalsOK'
  <2>1. CASE Work
    <3>1. Within /\ posted' = posted /\ ~Delivering'
      BY <1>2, <2>1, WorkKeepsRuns DEF Working, Delivering
    <3> QED BY <1>2, <3>1, ApprovalsWithin
  <2>2. CASE UNCHANGED vars
    BY <1>2, <2>2 DEF ApprovalsOK, Quotes, Delivering, ApprovedFirst, vars, mem, env
  <2> QED BY <1>2, <2>1, <2>2, DeliveryKeepsApprovals, RestKeepsApprovals, AnswerKeepsApprovals DEF Next, Pulse
<1>3. Typed /\ RunsOK /\ ApprovalsOK /\ [Next]_vars => ApprovalsOK'
  BY <1>2
<1>4. ApprovalsOK => ApprovedFirst
  BY DEF ApprovalsOK
<1> QED BY <1>1, <1>3, <1>4, RunsAtAllTimes, PTL DEF Spec-----------------------------------------------------------------------------
(***************************************************************************)
(* The checkpoint and the status of the task                               *)
(***************************************************************************)

\* A step before the transition: the task file says "running", which goes with any checkpoint.
LEMMA MatchBeforeTheEnd ==
  ASSUME Typed, RunsOK, MatchOK, Within, Talking, pc \notin {"ended", "over"}, pc' \notin {"ended", "over"},
         pc' \in {"say", "said", "close", "closed", "finish"} /\ end' = "waiting" =>
           files'.cp = cp' \/ (pc \in {"say", "said", "close", "closed", "finish"} /\ end = "waiting")
  PROVE  MatchOK'
<1>1. files'.task.status = "running"
  BY DEF MatchOK, Within, Talking
<1>2. Matches(files') /\ Matches(files) /\ Matches(durable)
  BY <1>1 DEF Matches, MatchOK
<1>3. Matches(durable')
  BY <1>2 DEF Within
<1>4. cp' # NoCheckpoint
  <2>1. cp.run # 0
    BY DEF RunsOK, Within
  <2> QED BY <2>1, NoCheckpoints DEF Within, SameRun
<1>5. pc' \in {"say", "said", "close", "closed", "finish"} /\ end' = "waiting" => files'.cp # NoCheckpoint
  BY <1>4 DEF MatchOK, Talking
<1> QED BY <1>1, <1>2, <1>3, <1>5 DEF MatchOK, Matches

\* The transition, its saving, and an exception.
LEMMA MatchAtTheEnd ==
  ASSUME Typed, RunsOK, MatchOK, Finish \/ SaveTask \/ Throw
  PROVE  MatchOK'
<1>1. CASE Finish
  <2>1. /\ pc = "finish" /\ pc' = "ended" /\ end' = end
        /\ files'.task = files.task /\ files'.cp = LeftBehind /\ durable' \in {durable, files, files'}
    BY <1>1, FinishSteps DEF Finish, Within
  <2>2. files'.task.status = "running"
    BY <2>1 DEF MatchOK
  <2>3. Matches(files') /\ Matches(durable')
    BY <2>1, <2>2 DEF MatchOK, Matches
  <2>4. end' = "waiting" <=> files'.cp # NoCheckpoint
    BY <2>1 DEF MatchOK, LeftBehind
  <2> QED BY <2>1, <2>2, <2>3, <2>4 DEF MatchOK, Matches
<1>2. CASE SaveTask \/ Throw
  <2>1. /\ pc' = "over" /\ files'.task = task /\ files'.cp = files.cp /\ durable' \in {durable, files, files'}
    BY <1>2, SaveSteps DEF Within
  <2>2. \/ pc = "ended" /\ task.status = end
        \/ task.status = "running"
    BY <1>2 DEF SaveTask, Throw, Typed
  <2>3. Matches(files')
    BY <2>1, <2>2 DEF MatchOK, Matches
  <2>4. Matches(durable')
    BY <2>1, <2>3 DEF MatchOK
  <2> QED BY <2>1, <2>3, <2>4 DEF MatchOK, Matches
<1> QED BY <1>1, <1>2

\* The start of a pulse, its end, and what happens between pulses.
LEMMA RestKeepsMatch ==
  ASSUME Typed, RunsOK, MatchOK, Begin \/ GiveUp \/ EndPulse \/ Crash
  PROVE  MatchOK'
<1>1. Matches(files) /\ Matches(durable)
  BY DEF MatchOK
<1>2. CASE Begin
  <2>1. pc' = "start" /\ files'.task.status = "running" /\ durable' \in {durable, files'}
    BY <1>2, BeginSteps
  <2>2. Matches(files') /\ Matches(durable')
    BY <1>1, <2>1 DEF Matches
  <2> QED BY <2>1, <2>2 DEF MatchOK, Matches
<1>3. CASE GiveUp
  <2>1. pc' = "idle" /\ durable' = files'
        /\ \/ files'.task.status = "dead-lettered" /\ files'.cp = NoCheckpoint
           \/ files'.task.status \in {"cancelled", "expired"} /\ files'.cp = files.cp
           \/ files'.task = files.task /\ IsTerminal(files.task.status) /\ files'.cp = NoCheckpoint
    BY <1>3, GiveUpSteps
  <2>2. ~IsTerminal("waiting")
    BY DEF IsTerminal, TERMINAL_STATUSES
  <2>3. Matches(files') /\ Matches(durable')
    BY <2>1, <2>2 DEF Matches
  <2> QED BY <2>1, <2>3 DEF MatchOK, Matches
<1>4. CASE EndPulse \/ Crash
  <2>1. pc' = "idle" /\ files' \in {files, durable} /\ durable' \in {files, durable}
    BY <1>4, EndSteps
  <2> QED BY <1>1, <2>1 DEF MatchOK, Matches
<1> QED BY <1>2, <1>3, <1>4

\* Between pulses a task that waits has its checkpoint and one that its pulse ended has none, also when
\* what a killed job had not pushed is lost: every push has both files as they were at one time.
THEOREM CheckpointGoesWithTask == Spec => []CheckpointMatchesTask
<1>1. Init => MatchOK
  <2> SUFFICES ASSUME Init PROVE MatchOK
    OBVIOUS
  <2>1. files.task = NewTask /\ durable.task = NewTask /\ pc = "idle"
    BY DEF Init
  <2> QED BY <2>1, NewTasks DEF MatchOK, Matches
<1>2. ASSUME Typed, RunsOK, MatchOK, [Next]_vars PROVE MatchOK'
  <2>1. CASE Work
    BY <1>2, <2>1, WorkKeepsRuns, MatchBeforeTheEnd DEF Working, Talking
  <2>2. CASE Suppress \/ AskApproval \/ Deliver \/ PrOnRecord \/ OpenPr \/ RecordPr
    <3>1. pc \in {"deliver", "pr", "pr made"} /\ pc' \notin {"ended", "over", "said", "close", "closed"}
          /\ ~(pc' = "finish" /\ end' = "waiting")
      BY <2>2 DEF Suppress, AskApproval, Deliver, PrOnRecord, OpenPr, RecordPr, Leave, Announce, DeadLetter, Goto
    <3> QED BY <1>2, <2>2, <3>1, DecisionSteps, MatchBeforeTheEnd
  <2>3. CASE SayNothing \/ Mute \/ FindComment \/ PostComment \/ RecordComment \/ CloseIssue \/ RecordClose
    <3>1. pc \in {"say", "said", "close", "closed"} /\ pc' \notin {"ended", "over"} /\ end' = end
      BY <2>3 DEF SayNothing, Mute, FindComment, PostComment, RecordComment, CloseIssue, RecordClose, Goto, AfterNote, mem
    <3> QED BY <1>2, <2>3, <3>1, CommentSteps, MatchBeforeTheEnd
  <2>4. CASE Finish \/ SaveTask \/ Throw
    BY <1>2, <2>4, MatchAtTheEnd
  <2>5. CASE Begin \/ GiveUp \/ EndPulse \/ Crash
    BY <1>2, <2>5, RestKeepsMatch
  <2>6. CASE UNCHANGED vars \/ (\E r \in Runs : Answer(r))
    <3>1. UNCHANGED <<pc, end, files, durable>>
      BY <1>2, <2>6, AnswerSteps DEF vars, mem
    <3> QED BY <1>2, <3>1 DEF MatchOK, Matches
  <2> QED BY <1>2, <2>1, <2>2, <2>3, <2>4, <2>5, <2>6 DEF Next, Pulse, Delivery
<1>3. Typed /\ RunsOK /\ MatchOK /\ [Next]_vars => MatchOK'
  BY <1>2
<1>4. MatchOK => CheckpointMatchesTask
  BY DEF MatchOK, Matches, CheckpointMatchesTask
<1> QED BY <1>1, <1>3, <1>4, RunsAtAllTimes, PTL DEF Spec-----------------------------------------------------------------------------
(***************************************************************************)
(* The closing of the issue                                                *)
(***************************************************************************)

\* What was posted stays posted, and an issue that was closed stays closed.
Grows ==
  /\ \A k \in Kinds \X Runs : posted[k] > 0 => posted'[k] > 0
  /\ closed => closed'

\* A ledger that is true stays true.
LEMMA StaysVouched ==
  ASSUME NEW c, Vouched(c, posted, closed), Grows
  PROVE  Vouched(c, posted', closed')
BY DEF Vouched, Grows, Kinds

\* A result that was posted stays.
LEMMA ResultStays ==
  ASSUME Grows, \E r \in Runs : posted[<<"done", r>>] > 0
  PROVE  \E r \in Runs : posted'[<<"done", r>>] > 0
BY DEF Grows, Kinds

\* Every step of a pulse adds to what there is.
LEMMA EverythingGrows ==
  ASSUME Typed, RunsOK, [Next]_vars
  PROVE  Grows
<1>1. CASE posted' = posted /\ (closed' = closed \/ closed')
  BY <1>1 DEF Grows
<1>2. CASE PostComment
  <2>1. closed' = closed
    BY <1>2 DEF PostComment, env
  <2>2. ASSUME NEW k \in Kinds \X Runs, posted[k] > 0 PROVE posted'[k] > 0
    <3>1. k = Key => posted'[k] > 0
      BY <1>2, CommentsPosted
    <3>2. k # Key => posted'[k] = posted[k]
      BY <1>2, CommentsPosted
    <3> QED BY <2>2, <3>1, <3>2
  <2> QED BY <2>1, <2>2 DEF Grows
<1>3. (posted' = posted /\ (closed' = closed \/ closed')) \/ PostComment
  <2>1. CASE Work
    BY <2>1, WorkKeepsRuns DEF Working
  <2>2. CASE Delivery
    BY <2>2 DEF Delivery, Suppress, AskApproval, Deliver, PrOnRecord, OpenPr, RecordPr, SayNothing, Mute, FindComment,
                RecordComment, CloseIssue, RecordClose, Finish, SaveTask, EndPulse, Throw, env
  <2>3. CASE Begin \/ GiveUp \/ Crash \/ (\E r \in Runs : Answer(r))
    BY <2>3, BeginSteps, GiveUpSteps, EndSteps, AnswerSteps
  <2>4. CASE UNCHANGED vars
    BY <2>4 DEF vars, env
  <2> QED BY <2>1, <2>2, <2>3, <2>4 DEF Next, Pulse
<1> QED BY <1>1, <1>2, <1>3

\* The ledger gets a key after what it stands for was done (once()).
LEMMA LedgersStayTrue ==
  ASSUME Typed, RunsOK, LedgersOK, ClosingOK, [Next]_vars
  PROVE  LedgersOK'
<1>1. Grows
  BY EverythingGrows
<1>2. /\ Vouched(files.cp, posted', closed') /\ Vouched(durable.cp, posted', closed') /\ Vouched(cp, posted', closed')
  BY <1>1, StaysVouched DEF LedgersOK
<1>3. Vouched(NoCheckpoint, posted', closed') /\ \A r \in 0..MaxRuns : Vouched(NewCheckpoint(r), posted', closed')
  BY NoCheckpoints, NewCheckpoints DEF Vouched
<1>4. CASE Within
  <2>1. Vouched(cp', posted', closed')
    <3>1. ASSUME NEW r \in Runs, <<"done", r>> \in cp'.ledger PROVE posted'[<<"done", r>>] > 0
      <4>1. <<"done", r>> \in cp.ledger \/ (pc = "said" /\ Key = <<"done", r>>)
        BY <1>4, <3>1 DEF Within, SameRun
      <4>2. pc = "said" /\ Key = <<"done", r>> => posted[<<"done", r>>] > 0
        BY DEF ClosingOK
      <4>3. <<"done", r>> \in Kinds \X Runs
        BY DEF Kinds
      <4> QED BY <1>1, <1>2, <4>1, <4>2, <4>3 DEF Vouched, Grows
    <3>2. ASSUME NEW r \in Runs, <<"close", r>> \in cp'.ledger PROVE closed'
      BY <1>1, <1>2, <1>4, <3>2 DEF Within, SameRun, ClosingOK, Vouched, Grows
    <3> QED BY <3>1, <3>2 DEF Vouched
  <2> QED BY <1>2, <1>3, <1>4, <2>1 DEF Within, LedgersOK
<1>5. CASE Begin
  <2>1. /\ files'.cp = files.cp /\ durable' \in {durable, files'}
        /\ cp' = files.cp \/ (cp' = NewCheckpoint(lastRun') /\ lastRun' \in Runs)
    BY <1>5, BeginSteps
  <2>2. Vouched(cp', posted', closed')
    BY <1>2, <1>3, <2>1, RunIds DEF Typed
  <2> QED BY <1>2, <2>1, <2>2 DEF LedgersOK
<1>6. CASE GiveUp
  <2>1. files'.cp \in {files.cp, NoCheckpoint} /\ durable' = files' /\ cp' = cp
    BY <1>6, GiveUpSteps
  <2> QED BY <1>2, <1>3, <2>1 DEF LedgersOK
<1>7. CASE EndPulse \/ Crash
  <2>1. files' \in {files, durable} /\ durable' \in {files, durable} /\ cp' = NoCheckpoint
    BY <1>7, EndSteps
  <2> QED BY <1>2, <1>3, <2>1 DEF LedgersOK
<1>8. CASE UNCHANGED vars \/ (\E r \in Runs : Answer(r))
  <2>1. UNCHANGED <<files, durable, cp>>
    BY <1>8, AnswerSteps DEF vars, mem
  <2> QED BY <1>2, <2>1 DEF LedgersOK
<1> QED BY <1>4, <1>5, <1>6, <1>7, <1>8, WorkKeepsRuns, DeliveryKeepsRuns DEF Next, Pulse
\* The decision: a result without a comment is complete only in a dry run or safe mode, and the comment
\* of a complete task is its result.
LEMMA DecisionKeepsClosing ==
  ASSUME Typed, RunsOK, ClosingOK, Suppress \/ AskApproval \/ Deliver \/ PrOnRecord \/ OpenPr \/ RecordPr
  PROVE  ClosingOK'
<1>1. Grows /\ quiet' = quiet /\ closed' = closed /\ pc # "idle"
      /\ pc' \notin {"said", "close", "closed", "ended"}
  <2>1. UNCHANGED <<quiet, closed, posted>>
    BY DEF Suppress, AskApproval, Deliver, PrOnRecord, OpenPr, RecordPr, env
  <2>2. pc # "idle" /\ pc' \notin {"said", "close", "closed", "ended"}
    BY DEF Suppress, AskApproval, Deliver, PrOnRecord, OpenPr, RecordPr, Leave, Announce, DeadLetter, Goto
  <2> QED BY <2>1, <2>2 DEF Grows
<1>2. quiet' \in Quiet /\ (closed' => \E r \in Runs : posted'[<<"done", r>>] > 0)
  BY <1>1, ResultStays DEF ClosingOK
<1>3. pc' = "say" /\ note' = "done" => ~quiet'
  BY DEF Suppress, AskApproval, Deliver, MayDeliver, PrOnRecord, OpenPr, RecordPr, Leave, Announce, DeadLetter, Goto, ClosingOK
<1>4. pc' = "pr made" => end' # "complete" /\ note' # "done"
  BY DEF Suppress, AskApproval, Deliver, PrOnRecord, OpenPr, RecordPr, Leave, Announce, DeadLetter, Goto
<1>5. Quiet = {FALSE} => ~quiet
  BY <1>1 DEF ClosingOK
<1>6. Quiet = {FALSE} /\ end' = "complete" => (pc' = "say" => note' = "done") /\ pc' # "finish"
  BY <1>5 DEF Suppress, AskApproval, Deliver, PrOnRecord, OpenPr, RecordPr, Leave, Announce, DeadLetter, Goto, ClosingOK
<1> QED BY <1>1, <1>2, <1>3, <1>4, <1>6 DEF ClosingOK

\* The comment and the close: the issue of a complete task is closed after its result was posted, now or
\* by an earlier pulse of the run.
LEMMA CommentKeepsClosing ==
  ASSUME Typed, RunsOK, LedgersOK, ClosingOK, [Next]_vars,
         SayNothing \/ Mute \/ FindComment \/ PostComment \/ RecordComment \/ CloseIssue \/ RecordClose
  PROVE  ClosingOK'
<1>1. Grows
  BY EverythingGrows
<1>2. /\ pc \in {"say", "said", "close", "closed"} /\ UNCHANGED <<quiet, note, end>>
      /\ pc' \in {"said", "close", "closed", "finish"} /\ cp'.run = cp.run
  <2>1. cp'.run = cp.run
    BY CommentSteps DEF Within, SameRun
  <2> QED BY <2>1 DEF SayNothing, Mute, FindComment, PostComment, RecordComment, CloseIssue, RecordClose, Goto, AfterNote, mem
<1>3. cp.run \in Runs /\ quiet' \in Quiet
  BY <1>2, RunIds DEF Typed, RunsOK, ClosingOK
<1>4. pc' = "said" => posted'[Key'] > 0
  <2>1. pc' = "said" => FindComment \/ PostComment
    BY DEF SayNothing, Mute, FindComment, PostComment, RecordComment, CloseIssue, RecordClose, Goto, AfterNote
  <2>2. Key' = Key
    BY <1>2 DEF Key
  <2>3. FindComment => posted'[Key] > 0
    BY DEF FindComment
  <2>4. PostComment => posted'[Key] > 0
    BY CommentsPosted
  <2> QED BY <2>1, <2>2, <2>3, <2>4
<1>5. pc' \in {"close", "closed"} \/ closed' => \E r \in Runs : posted[<<"done", r>>] > 0
  <2>1. CASE SayNothing /\ pc' = "close"
    <3>1. <<"done", cp.run>> \in cp.ledger
      BY <2>1 DEF SayNothing, AfterNote, Goto, Key
    <3>2. posted[<<"done", cp.run>>] > 0
      BY <1>3, <3>1 DEF LedgersOK, Vouched
    <3> QED BY <1>3, <3>2
  <2>2. CASE RecordComment /\ pc' = "close"
    <3>1. posted[<<"done", cp.run>>] > 0
      BY <2>2 DEF RecordComment, AfterNote, Goto, Key, ClosingOK
    <3> QED BY <1>3, <3>1
  <2>3. ~(Mute /\ pc' = "close")
    BY DEF Mute, AfterNote, Goto, ClosingOK
  <2>4. CASE CloseIssue \/ RecordClose
    BY <2>4 DEF CloseIssue, RecordClose, ClosingOK
  <2>5. CASE pc' \notin {"close", "closed"} /\ closed' = closed
    BY <2>5 DEF ClosingOK
  <2>6. (pc' = "close" /\ closed' = closed) \/ (pc' \notin {"close", "closed"} /\ closed' = closed) \/ CloseIssue \/ RecordClose
    BY DEF SayNothing, Mute, FindComment, PostComment, RecordComment, CloseIssue, RecordClose, Goto, AfterNote, env
  <2>7. pc' = "close" => SayNothing \/ Mute \/ RecordComment
    BY DEF SayNothing, Mute, FindComment, PostComment, RecordComment, CloseIssue, RecordClose, Goto, AfterNote
  <2> QED BY <2>1, <2>2, <2>3, <2>4, <2>5, <2>6, <2>7
<1>6. pc' = "closed" => closed'
  BY DEF SayNothing, Mute, FindComment, PostComment, RecordComment, CloseIssue, RecordClose, Goto, AfterNote
<1>7. Quiet = {FALSE} /\ end = "complete" => (pc' = "said" => note = "done") /\ (pc' = "finish" => closed')
  <2>1. CASE CloseIssue
    <3>1. pc' = "finish" => <<"close", cp.run>> \in cp.ledger /\ closed' = closed
      BY <2>1 DEF CloseIssue, Goto, CloseKey
    <3>2. pc' = "finish" => closed'
      BY <1>3, <3>1 DEF LedgersOK, Vouched
    <3> QED BY <2>1, <3>2 DEF CloseIssue, Goto
  <2>2. CASE RecordClose
    BY <2>2 DEF RecordClose, ClosingOK, Goto, env
  <2>3. CASE SayNothing \/ Mute \/ FindComment \/ PostComment \/ RecordComment
    BY <2>3 DEF SayNothing, Mute, FindComment, PostComment, RecordComment, Goto, AfterNote, ClosingOK
  <2> QED BY <2>1, <2>2, <2>3
<1>8. pc' \in {"close", "closed"} \/ closed' => \E r \in Runs : posted'[<<"done", r>>] > 0
  BY <1>1, <1>5, ResultStays
<1> QED BY <1>2, <1>3, <1>4, <1>6, <1>7, <1>8 DEF ClosingOK, Key
\* The work, the end of the task and the time between pulses.
LEMMA RestKeepsClosing ==
  ASSUME Typed, RunsOK, ClosingOK, [Next]_vars,
         Work \/ Finish \/ SaveTask \/ Throw \/ Begin \/ GiveUp \/ EndPulse \/ Crash \/ (\E r \in Runs : Answer(r))
  PROVE  ClosingOK'
<1>1. CASE Work
  <2>1. Within /\ Working /\ UNCHANGED <<posted, closed>>
    BY <1>1, WorkKeepsRuns DEF Working
  <2>2. pc # "idle" /\ quiet' = quiet
    BY <2>1 DEF Within
  <2>3. CASE pc' \in {"work", "verify", "deliver"}
    BY <2>1, <2>2, <2>3 DEF ClosingOK
  <2>4. CASE pc' = "say" /\ note' \in {"dead-letter", "blocked", "error"} /\ end' \in {"dead-lettered", "blocked", "failed"}
    BY <2>1, <2>2, <2>4 DEF ClosingOK
  <2>5. CASE pc' = "finish" /\ end' = "waiting"
    BY <2>1, <2>2, <2>5 DEF ClosingOK
  <2> QED BY <2>1, <2>3, <2>4, <2>5 DEF Working
<1>2. CASE Finish
  <2>1. pc = "finish" /\ pc' = "ended" /\ UNCHANGED <<quiet, note, end, posted, closed>>
    BY <1>2 DEF Finish, Goto, env
  <2> QED BY <2>1 DEF ClosingOK
<1>3. CASE SaveTask \/ Throw
  <2>1. pc # "idle" /\ pc' = "over" /\ UNCHANGED <<quiet, posted, closed>>
    BY <1>3 DEF SaveTask, Throw, Goto, mem, env
  <2> QED BY <2>1 DEF ClosingOK
<1>4. CASE Begin
  <2>1. pc' = "start" /\ quiet' \in Quiet /\ UNCHANGED <<posted, closed>>
    BY <1>4, BeginSteps
  <2> QED BY <2>1 DEF ClosingOK
<1>5. CASE GiveUp \/ EndPulse \/ Crash
  <2>1. pc' = "idle" /\ UNCHANGED <<posted, closed>>
    BY <1>5, GiveUpSteps, EndSteps
  <2> QED BY <2>1 DEF ClosingOK
<1>6. CASE \E r \in Runs : Answer(r)
  <2>1. UNCHANGED <<pc, cp, quiet, note, end, posted, closed>>
    BY <1>6, AnswerSteps
  <2> QED BY <2>1 DEF ClosingOK, Key
<1> QED BY <1>1, <1>2, <1>3, <1>4, <1>5, <1>6

\* The task is saved as complete only at the end of a pulse that found or left its issue closed.
LEMMA CompleteStays ==
  ASSUME Typed, RunsOK, ClosingOK, CompleteOK, [Next]_vars
  PROVE  CompleteOK'
<1> SUFFICES ASSUME Quiet = {FALSE}, files'.task.status = "complete" \/ durable'.task.status = "complete"
             PROVE  closed'
  BY DEF CompleteOK
<1>1. closed => closed'
  BY EverythingGrows DEF Grows
<1>2. CASE files.task.status = "complete" \/ durable.task.status = "complete"
  BY <1>1, <1>2 DEF CompleteOK
<1>3. CASE SaveTask \/ Throw
  <2>1. files'.task = task /\ durable' \in {durable, files, files'}
    BY <1>3, SaveSteps DEF Within
  <2>2. task.status = "complete" => closed
    BY <1>3 DEF SaveTask, Throw, Typed, ClosingOK
  <2> QED BY <1>1, <1>2, <2>1, <2>2
<1>4. CASE Begin
  BY <1>2, <1>4, BeginSteps
<1>5. CASE GiveUp
  BY <1>2, <1>5, GiveUpSteps
<1>6. CASE EndPulse \/ Crash
  BY <1>2, <1>6, EndSteps
<1>7. CASE UNCHANGED vars \/ (\E r \in Runs : Answer(r))
  BY <1>2, <1>7, AnswerSteps DEF vars
<1>8. CASE files'.task = files.task /\ durable' \in {durable, files, files'}
  BY <1>2, <1>8
<1>9. Work \/ Finish => files'.task = files.task /\ durable' \in {durable, files, files'}
  BY WorkKeepsRuns, FinishSteps DEF Working, Within
<1>10. Suppress \/ AskApproval \/ Deliver \/ PrOnRecord \/ OpenPr \/ RecordPr
         => files'.task = files.task /\ durable' \in {durable, files, files'}
  BY DecisionSteps DEF Talking, Within
<1>11. SayNothing \/ Mute \/ FindComment \/ PostComment \/ RecordComment \/ CloseIssue \/ RecordClose
         => files'.task = files.task /\ durable' \in {durable, files, files'}
  BY CommentSteps DEF Talking, Within
<1> QED BY <1>3, <1>4, <1>5, <1>6, <1>7, <1>8, <1>9, <1>10, <1>11 DEF Next, Pulse, Delivery

\* The issue is closed only after a result was posted on it, and a task is recorded as complete only with its
\* issue closed, whatever pulse did which part of it (ledger.once(), orchestrate.js, deliver()).
THEOREM ResultBeforeClose == Spec => []ClosedAfterResult
<1> DEFINE Inv == LedgersOK /\ ClosingOK /\ CompleteOK
<1>1. Init => Inv
  <2> SUFFICES ASSUME Init PROVE Inv
    OBVIOUS
  <2>1. files.task = NewTask /\ durable.task = NewTask /\ files.cp = NoCheckpoint /\ durable.cp = NoCheckpoint
        /\ cp = NoCheckpoint /\ pc = "idle" /\ closed = FALSE
    BY DEF Init
  <2>2. Vouched(NoCheckpoint, posted, closed)
    BY NoCheckpoints DEF Vouched
  <2> QED BY <2>1, <2>2, NewTasks DEF LedgersOK, ClosingOK, CompleteOK
<1>2. ASSUME Typed, RunsOK, Inv, [Next]_vars PROVE Inv'
  <2>1. LedgersOK'
    BY <1>2, LedgersStayTrue
  <2>2. CompleteOK'
    BY <1>2, CompleteStays
  <2>3. UNCHANGED vars => ClosingOK'
    <3>1. UNCHANGED vars => UNCHANGED <<pc, cp, quiet, note, end, posted, closed>>
      BY DEF vars, mem, env
    <3>2. ClosingOK
      BY <1>2
    <3> QED BY <3>1, <3>2 DEF ClosingOK, Key
  <2>4. ClosingOK'
    BY <1>2, <2>3, DecisionKeepsClosing, CommentKeepsClosing, RestKeepsClosing DEF Next, Pulse, Delivery
  <2> QED BY <2>1, <2>2, <2>4
<1>3. Typed /\ RunsOK /\ Inv /\ [Next]_vars => Inv'
  BY <1>2
<1>4. Inv => ClosedAfterResult
  BY DEF ClosingOK, CompleteOK, ClosedAfterResult
<1> QED BY <1>1, <1>3, <1>4, RunsAtAllTimes, PTL DEF Spec
=============================================================================
