----------------------------- MODULE WorkerTasks -----------------------------
(***************************************************************************)
(* The sub-agent tasks of the Worker: rows of the table subagents that the *)
(* owner, a schedule or a mirrored issue puts in the queue, ticks that     *)
(* hand them to GitHub Actions, the runs that report back (or do not), the *)
(* reaper, cancel, retry and the retention rule.                           *)
(*   src/worker/src/{tasks,tick,retention}.js                              *)
(*                                                                         *)
(* A tick is a process: it reads the queued rows, then posts and marks one *)
(* row after the other, and two may overlap or die.  A handler that reads  *)
(* a row and writes it later is two steps.  Ages are a bit per row.  The   *)
(* idempotency key of POST /tasks only spares the second row; briefs,      *)
(* types and the text of results are left out.                             *)
(***************************************************************************)
EXTENDS Naturals, FiniteSets

CONSTANTS
  Tasks, Issues,     \* the task ids; those that mirror an issue (gh-issue-N)
  Ticks, Batch,      \* invocations that may overlap; rows one of them reads (LIMIT 5)
  Owners,            \* requests of the owner that may be under way together
  MaxLives, MaxSent  \* bounds: rows put in the queue and runs made, in all

Nothing == "none"
ASSUME TasksAssumption ==
  /\ Issues \subseteq Tasks /\ Nothing \notin Tasks
  /\ Batch \in Nat \ {0} /\ MaxLives \in Nat \ {0} /\ MaxSent \in Nat

VARIABLES
  tRow,    \* the row; `begun' is started_at, `old' an age above 25 minutes, `cut' the owner's cancellation as its result
  tOpen,   \* the issues that are open, labelled, and by a trusted author
  tTick,   \* a tick of dispatchQueuedTasks(): rows read and not done with, the row just posted
  tAsk,    \* a cancel or retry between its read and its write
  tSent, tBusy,  \* runs of the task that have not reported yet; that have reported `running'
  tLives, tMade  \* rows that were put in the queue and runs that were made so far

tVars == <<tRow, tOpen, tTick, tAsk, tSent, tBusy, tLives, tMade>>

Row(st, begun, old, cut) == [st |-> st, begun |-> begun, old |-> old, cut |-> cut]
Absent == Row("absent", FALSE, FALSE, FALSE)
Queued == Row("queued", FALSE, FALSE, FALSE)
TickIdle == [todo |-> {}, posted |-> Nothing]
NoAsk == [op |-> Nothing]
AtWork == {"dispatched", "running"}

TasksTypeOK ==
  /\ tRow \in [Tasks -> [st : {"absent", "queued", "done", "failed"} \cup AtWork,
                         begun : BOOLEAN, old : BOOLEAN, cut : BOOLEAN]]
  /\ tOpen \subseteq Issues
  /\ tTick \in [Ticks -> [todo : SUBSET Tasks, posted : Tasks \cup {Nothing}]]
  /\ tAsk \in [Owners -> {NoAsk} \cup [op : {"cancel", "retry"}, on : Tasks]]
  /\ {tSent, tBusy} \subseteq [Tasks -> 0..MaxSent] /\ tLives \in 0..MaxLives /\ tMade \in 0..MaxSent

TasksInit ==
  /\ tRow = [t \in Tasks |-> Absent] /\ tOpen = Issues
  /\ tTick = [k \in Ticks |-> TickIdle] /\ tAsk = [o \in Owners |-> NoAsk]
  /\ tSent = [t \in Tasks |-> 0] /\ tBusy = tSent /\ tLives = 0 /\ tMade = 0

SetRow(t, r) == tRow' = [tRow EXCEPT ![t] = r]
-----------------------------------------------------------------------------
Enqueue(t) ==
  /\ tLives < MaxLives
  /\ tLives' = tLives + 1 /\ SetRow(t, Queued)

\* queueTask(): every call has an id of its own.
Create(t) ==
  /\ t \notin Issues /\ tRow[t] = Absent /\ Enqueue(t)
  /\ UNCHANGED <<tOpen, tTick, tAsk, tSent, tBusy, tMade>>

\* mirrorGithubIssues(): INSERT OR IGNORE.
Mirror(t) ==
  /\ t \in tOpen /\ tRow[t] = Absent /\ Enqueue(t)
  /\ UNCHANGED <<tOpen, tTick, tAsk, tSent, tBusy, tMade>>

CloseIssue(t) ==
  /\ t \in tOpen /\ tOpen' = tOpen \ {t}
  /\ UNCHANGED <<tRow, tTick, tAsk, tSent, tBusy, tLives, tMade>>
-----------------------------------------------------------------------------
(* dispatchQueuedTasks() *)

Select(k) ==
  /\ tTick[k] = TickIdle
  /\ \E T \in SUBSET {t \in Tasks : tRow[t].st = "queued"} :
       /\ T # {} /\ Cardinality(T) <= Batch
       /\ Cardinality(T) < Batch => \A t \in Tasks : tRow[t].st = "queued" => t \in T
       /\ tTick' = [tTick EXCEPT ![k].todo = T]
  /\ UNCHANGED <<tRow, tOpen, tAsk, tSent, tBusy, tLives, tMade>>

\* GitHub starts a run, and the answer says so or is lost (the row stays queued then); or there is no run.
Post(k, t) ==
  /\ t \in tTick[k].todo /\ tTick[k].posted = Nothing
  /\ \/ /\ tMade < MaxSent
        /\ tMade' = tMade + 1 /\ tSent' = [tSent EXCEPT ![t] = @ + 1]
        /\ \/ tTick' = [tTick EXCEPT ![k].posted = t]
           \/ tTick' = [tTick EXCEPT ![k].todo = @ \ {t}]
     \/ tTick' = [tTick EXCEPT ![k].todo = @ \ {t}] /\ UNCHANGED <<tMade, tSent>>
  /\ UNCHANGED <<tRow, tOpen, tAsk, tBusy, tLives>>

\* The UPDATE by id, whatever became of the row since it was read.  Its age counts from started_at first.
Mark(k) ==
  /\ tTick[k].posted # Nothing
  /\ LET t == tTick[k].posted IN
     /\ tTick' = [tTick EXCEPT ![k] = [todo |-> @.todo \ {t}, posted |-> Nothing]]
     /\ SetRow(t, IF tRow[t] = Absent THEN Absent
                  ELSE [tRow[t] EXCEPT !.st = "dispatched", !.old = @ /\ tRow[t].begun])
  /\ UNCHANGED <<tOpen, tAsk, tSent, tBusy, tLives, tMade>>

TickDies(k) ==
  /\ tTick[k] # TickIdle /\ tTick' = [tTick EXCEPT ![k] = TickIdle]
  /\ UNCHANGED <<tRow, tOpen, tAsk, tSent, tBusy, tLives, tMade>>

\* 25 minutes pass.
Age(t) ==
  /\ tRow[t].st \in AtWork /\ ~tRow[t].old
  /\ tRow' = [tRow EXCEPT ![t].old = TRUE]
  /\ UNCHANGED <<tOpen, tTick, tAsk, tSent, tBusy, tLives, tMade>>

\* (A slip: only a run that never reported is looked for.)
Stuck1(status) == {t \in Tasks : tRow[t].st = status /\ tRow[t].old /\ ~tRow[t].begun}

Stuck(status) == {t \in Tasks : tRow[t].st = status /\ tRow[t].old}

\* reapStuckTasks(): one UPDATE for each of the two states.
Reap(status) ==
  /\ Stuck(status) # {}
  /\ tRow' = [t \in Tasks |-> IF t \in Stuck(status) THEN [tRow[t] EXCEPT !.st = "failed", !.cut = FALSE] ELSE tRow[t]]
  /\ UNCHANGED <<tOpen, tTick, tAsk, tSent, tBusy, tLives, tMade>>
-----------------------------------------------------------------------------
(* handleInternalStatus(): a report is written over any state of its row, or does not arrive. *)

Reported(t, status) ==
  IF tRow[t] = Absent THEN Absent
  ELSE IF status = "running" THEN [tRow[t] EXCEPT !.st = "running", !.begun = TRUE, !.old = FALSE]
  ELSE [tRow[t] EXCEPT !.st = status, !.cut = FALSE]

RunStarts(t) ==
  /\ tSent[t] > 0
  /\ tSent' = [tSent EXCEPT ![t] = @ - 1] /\ tBusy' = [tBusy EXCEPT ![t] = @ + 1]
  /\ SetRow(t, Reported(t, "running")) \/ UNCHANGED tRow
  /\ UNCHANGED <<tOpen, tTick, tAsk, tLives, tMade>>

RunEnds(t) ==
  /\ tBusy[t] > 0 /\ tBusy' = [tBusy EXCEPT ![t] = @ - 1]
  /\ (\E status \in {"done", "failed"} : SetRow(t, Reported(t, status))) \/ UNCHANGED tRow
  /\ UNCHANGED <<tOpen, tTick, tAsk, tSent, tLives, tMade>>

RunNeverStarts(t) ==
  /\ tSent[t] > 0 /\ tSent' = [tSent EXCEPT ![t] = @ - 1]
  /\ UNCHANGED <<tRow, tOpen, tTick, tAsk, tBusy, tLives, tMade>>
-----------------------------------------------------------------------------
(* handleCancelTask(), handleRetryTask(): the row is read, and written by id. *)

Ask(o, op, t) ==
  /\ tAsk[o] = NoAsk
  /\ IF op = "cancel" THEN tRow[t].st = "queued"
     ELSE tRow[t].st = "failed" \/ (tRow[t].st \in AtWork /\ tRow[t].old)
  /\ tAsk' = [tAsk EXCEPT ![o] = [op |-> op, on |-> t]]
  /\ UNCHANGED <<tRow, tOpen, tTick, tSent, tBusy, tLives, tMade>>

Cancel(o) ==
  /\ tAsk[o].op = "cancel" /\ tAsk' = [tAsk EXCEPT ![o] = NoAsk]
  /\ LET t == tAsk[o].on IN
     SetRow(t, IF tRow[t] = Absent THEN Absent ELSE [tRow[t] EXCEPT !.st = "failed", !.cut = TRUE])
  /\ UNCHANGED <<tOpen, tTick, tSent, tBusy, tLives, tMade>>

Retry(o) ==
  /\ tAsk[o].op = "retry" /\ tAsk' = [tAsk EXCEPT ![o] = NoAsk]
  /\ IF tRow[tAsk[o].on] = Absent \/ tLives = MaxLives THEN UNCHANGED <<tRow, tLives>>
     ELSE Enqueue(tAsk[o].on)
  /\ UNCHANGED <<tOpen, tTick, tSent, tBusy, tMade>>

\* pruneOldRows(), months after the last run of the task: an issue that is still open is mirrored again.
Prune(t) ==
  /\ tRow[t].st \in {"done", "failed"} /\ tSent[t] = 0 /\ tBusy[t] = 0
  /\ \A k \in Ticks : t \notin tTick[k].todo
  /\ \A o \in Owners : tAsk[o] # NoAsk => tAsk[o].on # t
  /\ SetRow(t, Absent)
  /\ UNCHANGED <<tOpen, tTick, tAsk, tSent, tBusy, tLives, tMade>>

TasksNext ==
  \/ \E t \in Tasks : Create(t) \/ Mirror(t) \/ CloseIssue(t) \/ Age(t) \/ RunStarts(t) \/ RunEnds(t)
                      \/ RunNeverStarts(t) \/ Prune(t)
  \/ \E k \in Ticks : Select(k) \/ Mark(k) \/ TickDies(k) \/ \E t \in Tasks : Post(k, t)
  \/ \E status \in AtWork : Reap(status)
  \/ \E o \in Owners : Cancel(o) \/ Retry(o) \/ \E op \in {"cancel", "retry"}, t \in Tasks : Ask(o, op, t)

\* Time passes, and a tick comes every minute.
TaskAges(t) == WF_tVars(Age(t))
TasksAge == \A t \in Tasks : TaskAges(t)
TasksFairness == TasksAge /\ WF_tVars(Reap("dispatched")) /\ WF_tVars(Reap("running"))

TasksSpec == TasksInit /\ [][TasksNext]_tVars /\ TasksFairness
-----------------------------------------------------------------------------
(* tasks.js: whatever is lost (the dispatch, a report, the run, the tick that marks the row), a task *)
(* that was sent does not stay dispatched or running.                                                *)
Settles(t) == tRow[t].st \in AtWork ~> tRow[t].st \notin AtWork
TasksSettle == \A t \in Tasks : Settles(t)

\* The clock of a task is set back, by a run of it that starts or by a tick that marks it again, a finite
\* number of times (which MaxSent makes sure of for TLC).
ClockRuns(t) == <>[][tRow[t].old => tRow'[t].old]_tVars
ClocksRun == \A t \in Tasks : ClockRuns(t)

(* tasks.js:83: "Cancels a task that is still queued so it is not dispatched."                       *)
CancelledNotSent == [][\A t \in Tasks : tRow[t].cut => tSent'[t] <= tSent[t]]_tVars

\* What the guards of the fair actions are: where they hold, the action can be taken.
MayAgeTask(t) == ENABLED <<Age(t)>>_tVars
TasksGuards ==
  /\ \A t \in Tasks : tRow[t].st \in AtWork /\ ~tRow[t].old => MayAgeTask(t)
  /\ Stuck("dispatched") # {} => ENABLED <<Reap("dispatched")>>_tVars
  /\ Stuck("running") # {} => ENABLED <<Reap("running")>>_tVars
==============================================================================
