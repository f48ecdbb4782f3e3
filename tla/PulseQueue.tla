----------------------------- MODULE PulseQueue -----------------------------
(***************************************************************************)
(* Pulses over one checkout: every pulse loads state/tasks.json, sweeps    *)
(* what dead pulses left behind, applies what happened on the issues,      *)
(* claims tasks under leases, runs them one after another and saves the    *)
(* queue, merging with what other pulses wrote meanwhile.                  *)
(*   src/src/engine/pulse.js, src/src/task/reconcile.js,                   *)
(*   src/src/state/store.js (saveTasks), src/src/issueSync.js              *)
(*                                                                         *)
(* Between two awaits a pulse is alone in its process, so each action here *)
(* is one such stretch or a part of one.  The file system is shared with   *)
(* the other processes, so a saveTasks is several steps: it reads the file *)
(* and merges, renames its version into place, and reads the file again to *)
(* know what it wrote.  A pulse id (a nonce) is used for one process, so a *)
(* pulse runs once; |Pulses| bounds a behaviour.  What happens inside a    *)
(* run is TaskRun's business: here a run ends in one of Outcomes.  The     *)
(* clock is a choice: a TTL, a wake time or a lease may run out at any     *)
(* moment that the constants allow.                                        *)
(***************************************************************************)
EXTENDS TaskLifecycle, Naturals, FiniteSets

CONSTANTS
  Tasks, Pulses, None,
  Deps,         \* Deps[t]: task.dependsOn
  MaxAttempts,  \* task.maxAttempts
  MaxClaims,    \* config.orchestrator.maxTasksPerPulse
  Outcomes,     \* the statuses a run may reach without a command
  Waits,        \* the reasons a run may park its task for
  Verbs,        \* the commands a user may post, one on each issue
  Expirable,    \* the tasks with an expiresAt or a deadline
  Closable,     \* the tasks whose issue a user may close
  Archivable,   \* the tasks that a behaviour is long enough to archive (30 days)
  Controls,     \* what control.json may say: subset of {"go", "drain", "kill"}
  Serialized,   \* TRUE: the workflow's concurrency group lets no two pulses overlap
  MayCrash,     \* the pulses that may be killed
  SlowRuns      \* TRUE: a lease may run out while its owner is still working

ASSUME DepsAssumption == Deps \in [Tasks -> SUBSET Tasks]
ASSUME LimitsAssumption == MaxAttempts \in Nat \ {0} /\ MaxClaims \in Nat \ {0}
ASSUME OutcomesAssumption ==
  /\ Outcomes \subseteq TRANSITIONS["running"] \ {"pending", "expired"}
  /\ Waits \subseteq WAIT_REASONS \ {"dependency"}
ASSUME VerbsAssumption == Verbs \subseteq {"retry", "cancel", "pause", "resume", "approve"}
ASSUME TasksAssumption == Expirable \cup Closable \cup Archivable \subseteq Tasks
ASSUME ControlsAssumption == Controls \subseteq {"go", "drain", "kill"}
ASSUME FlagsAssumption == Serialized \in BOOLEAN /\ SlowRuns \in BOOLEAN /\ MayCrash \subseteq Pulses
ASSUME NoneAssumption == None \notin Pulses /\ None \notin Tasks

VARIABLES
  disk,     \* tasks.json: disk[t], a task record
  ckpt,     \* the tasks with a file under state/checkpoints
  lock,     \* lock[t]: state/leases/<t>.json
  aged,     \* <<p, t>>: the lease mirror p wrote into t's record has run out
  issue,    \* issue[t]: is the issue open, and which command was posted on it
  pc,       \* pc[p]: where pulse p is
  todo,     \* todo[p]: the tasks the present loop of p has still to visit
  cur,      \* cur[p]: the task p has claimed
  mem,      \* mem[p]: tasksFile.tasks in p's memory
  stray,    \* stray[p][t]: p's object for t, once a merge has dropped it from tasksFile.tasks
  owned,    \* owned[p]: the tasks p has leased
  changed,  \* changed[p]: the tasks whose record on disk is not the one p loaded
  foreign,  \* foreign[p]: tasks.json is not what p last read or wrote
  save,     \* save[p]: how far p is in saveTasks
  unseen,   \* unseen[p]: the tasks that others wrote in the course of a save of p's, and
            \* that p has not read since (history)
  view,     \* view[p]: the issues as p listed them
  mode,     \* mode[p]: control.json as p loaded it
  gone,     \* the tasks in the archive of state/archive/tasks-<month>.jsonl.gz
  delivered,  \* delivered[t]: results posted since t was queued or retried (history)
  deaths      \* deaths[t]: runs a pulse did not live through, since then (history)

fileVars  == <<disk, changed, foreign, save, unseen>>
diskVars  == <<fileVars, ckpt>>
leaseVars == <<lock, aged>>
history   == <<gone, delivered, deaths>>
vars == <<disk, ckpt, lock, aged, issue, pc, todo, cur, mem, stray, owned, changed,
          foreign, save, unseen, view, mode, gone, delivered, deaths>>

Absent == "absent"      \* the status of a task that is not in the file

Task == [status     : TASK_STATUSES \cup {Absent},
         waitReason : WAIT_REASONS \cup {NoReason},
         lease      : Pulses \cup {None},
         attempts   : 0..MaxAttempts,
         cancelReq  : BOOLEAN,
         pauseReq   : BOOLEAN,
         handled    : BOOLEAN,   \* the command on the issue is behind issueUpdatedAtSeen
         ended      : BOOLEAN]   \* completedAt is later than the command

NewTask == [status |-> "pending", waitReason |-> NoReason, lease |-> None, attempts |-> 0,
            cancelReq |-> FALSE, pauseReq |-> FALSE, handled |-> FALSE, ended |-> FALSE]
NoTask == [NewTask EXCEPT !.status = Absent]
\* In stray: p's object for the task is still the one in tasksFile.tasks.
Attached == [NewTask EXCEPT !.status = "attached"]

Free == [owner |-> None, live |-> FALSE]
Issue == [open : BOOLEAN, command : Verbs \cup {"none"}]

PC == {"idle", "reconcile", "intake", "control", "revisit", "claim", "claimed", "run",
       "ran", "end", "done", "dead"}

\* No save under way; the file read and to be written, or found to be the same; written.
SavePhases == {"none", "read", "same", "written"}

TypeOK ==
  /\ disk \in [Tasks -> Task]
  /\ \A t \in Tasks : disk[t].status = "waiting" <=> disk[t].waitReason # NoReason
  /\ ckpt \subseteq Tasks
  /\ lock \in [Tasks -> [owner : Pulses \cup {None}, live : BOOLEAN]]
  /\ aged \subseteq Pulses \X Tasks
  /\ issue \in [Tasks -> Issue]
  /\ pc \in [Pulses -> PC]
  /\ todo \in [Pulses -> SUBSET Tasks]
  /\ cur \in [Pulses -> Tasks \cup {None}]
  /\ mem \in [Pulses -> [Tasks -> Task]]
  /\ \A p \in Pulses, t \in Tasks : stray[p][t] \in Task \cup {Attached}
  /\ owned \in [Pulses -> SUBSET Tasks]
  /\ changed \in [Pulses -> SUBSET Tasks]
  /\ foreign \in [Pulses -> BOOLEAN]
  /\ save \in [Pulses -> SavePhases]
  /\ unseen \in [Pulses -> SUBSET Tasks]
  /\ view \in [Pulses -> [Tasks -> Issue]]
  /\ mode \in [Pulses -> {"go", "drain", "kill"}]
  /\ gone \subseteq Tasks
  /\ delivered \in [Tasks -> Nat]
  /\ deaths \in [Tasks -> 0..MaxAttempts]

Nothing == [t \in Tasks |-> NoTask]
NoStray == [t \in Tasks |-> Attached]
Closed == [open |-> FALSE, command |-> "none"]

\* Every task starts either queued or as an open issue no pulse has seen yet.
Init ==
  /\ disk \in [Tasks -> {NewTask, NoTask}]
  /\ ckpt = {}
  /\ lock = [t \in Tasks |-> Free]
  /\ aged = {}
  /\ issue = [t \in Tasks |-> [Closed EXCEPT !.open = TRUE]]
  /\ pc = [p \in Pulses |-> "idle"]
  /\ todo = [p \in Pulses |-> {}]
  /\ cur = [p \in Pulses |-> None]
  /\ mem = [p \in Pulses |-> Nothing]
  /\ stray = [p \in Pulses |-> NoStray]
  /\ owned = [p \in Pulses |-> {}]
  /\ changed = [p \in Pulses |-> {}]
  /\ foreign = [p \in Pulses |-> FALSE]
  /\ save = [p \in Pulses |-> "none"]
  /\ unseen = [p \in Pulses |-> {}]
  /\ view = [p \in Pulses |-> [t \in Tasks |-> Closed]]
  /\ mode = [p \in Pulses |-> "go"]
  /\ gone = {}
  /\ delivered = [t \in Tasks |-> 0]
  /\ deaths = [t \in Tasks |-> 0]
-----------------------------------------------------------------------------
Goto(p, l) == pc' = [pc EXCEPT ![p] = l]

Active(p) == pc[p] \notin {"idle", "done", "dead"}
Working(p) == cur[p] # None

\* A transition(), with the one timestamp that a later command is compared to.
Move(t, task, to, why) ==
  [Transition(task, to, why, None) EXCEPT
     !.ended = IF Completes(to) THEN issue[t].command # "none"
               ELSE IF to = "running" \/ (to = "pending" /\ EndsALife(task.status)) THEN FALSE
               ELSE @]

Present(task) == task.status # Absent
Ended(task) == IsTerminal(task.status)
Waiting(task, why) == task.status = "waiting" /\ task.waitReason = why

\* The task object that p's loops hold; a merge may have replaced its copy in tasksFile.tasks.
Obj(p, t) == IF stray[p][t] = Attached THEN mem[p][t] ELSE stray[p][t]

PutObj(p, t, task) ==
  IF stray[p][t] = Attached
  THEN mem' = [mem EXCEPT ![p][t] = task] /\ UNCHANGED stray
  ELSE stray' = [stray EXCEPT ![p][t] = task] /\ UNCHANGED mem

\* (A slip: a claim that does not look at the owner.)
NeverHeld(p, t) == FALSE

\* LeaseManager: refused while another owner's lease is live.
HeldByOther(p, t) == lock[t].live /\ lock[t].owner # p
Released(p, T) == [t \in Tasks |-> IF t \in T /\ ~HeldByOther(p, t) THEN Free ELSE lock[t]]
-----------------------------------------------------------------------------
(* The users, and time. *)

Post(t, verb) ==
  /\ issue[t].open
  /\ issue[t].command = "none"
  /\ issue' = [issue EXCEPT ![t].command = verb]
  /\ UNCHANGED <<diskVars, leaseVars, pc, todo, cur, mem, stray, owned, view, mode, history>>

CloseIssue(t) ==
  /\ t \in Closable
  /\ issue[t].open
  /\ issue' = [issue EXCEPT ![t].open = FALSE]
  /\ UNCHANGED <<diskVars, leaseVars, pc, todo, cur, mem, stray, owned, view, mode, history>>

\* A lease runs out, and with it the mirror in the task record, which is not renewed.
LeaseRunsOut(t) ==
  /\ lock[t].live
  /\ SlowRuns \/ ~Active(lock[t].owner) \/ cur[lock[t].owner] # t
  /\ lock' = [lock EXCEPT ![t].live = FALSE]
  /\ aged' = aged \cup {<<lock[t].owner, t>>}
  /\ UNCHANGED <<diskVars, issue, pc, todo, cur, mem, stray, owned, view, mode, history>>

MirrorRunsOut(p, t) ==
  /\ <<p, t>> \notin aged
  /\ disk[t].lease = p
  /\ lock[t].owner # p
  /\ SlowRuns \/ ~Active(p)
  /\ aged' = aged \cup {<<p, t>>}
  /\ UNCHANGED <<diskVars, lock, issue, pc, todo, cur, mem, stray, owned, view, mode, history>>
-----------------------------------------------------------------------------
(* The start of a pulse: load, then reconcile(). *)

Load(p) ==
  /\ pc[p] = "idle"
  /\ Serialized => \A q \in Pulses : ~Active(q)
  /\ mem' = [mem EXCEPT ![p] = disk]
  /\ todo' = [todo EXCEPT ![p] = {t \in Tasks : Present(disk[t])}]
  /\ changed' = [changed EXCEPT ![p] = {}]
  /\ foreign' = [foreign EXCEPT ![p] = FALSE]
  /\ \E c \in Controls : mode' = [mode EXCEPT ![p] = c]
  /\ Goto(p, "reconcile")
  /\ UNCHANGED <<disk, save, unseen, ckpt, leaseVars, issue, cur, stray, owned, view, history>>

\* A running task is left alone while its lease file or the mirror in its record is live.
OwnerLives(task, t) ==
  \/ lock[t].live
  \/ task.lease # None /\ <<task.lease, t>> \notin aged

\* (A slip: the sweep forgets to count the attempt.)
NotCharged(task) == task

\* The attempt a dead pulse spent.
Charged(task) == [task EXCEPT !.attempts = @ + 1]

\* A task that has used up its attempts is not put back in the queue.
Poisonous(task) == task.attempts >= MaxAttempts

DepStatuses(p, t) == {mem[p][d].status : d \in {e \in Deps[t] : Present(mem[p][e])}}
DepFailed(statuses) == statuses \cap (TERMINAL_STATUSES \ {"complete"}) # {}

\* The record that reconcile() leaves of a task, given that its TTL has passed (ttl), or
\* that the time its state waits for has (late).
Reconciled(p, t, ttl, late) ==
  LET task == mem[p][t] IN
  CASE Ended(task) -> task
    [] ttl /\ ~Ended(task) /\ task.status # "pr-open" -> Move(t, task, "expired", NoReason)
    [] ~ttl /\ task.status = "running" ->
         IF OwnerLives(task, t) THEN task
         ELSE IF Poisonous(Charged(task))
              THEN Move(t, Charged(task), "dead-lettered", NoReason)
              ELSE Move(t, Charged(task), "pending", NoReason)
    [] ~ttl /\ Waiting(task, "dependency") ->
         IF DepFailed(DepStatuses(p, t)) THEN Move(t, task, "dead-lettered", NoReason)
         ELSE IF \A d \in Deps[t] : mem[p][d].status = "complete"
              THEN Move(t, task, "pending", NoReason)
              ELSE task
    [] ~ttl /\ late /\ Waiting(task, "approval") -> Move(t, task, "expired", NoReason)
    [] ~ttl /\ late /\ task.status = "waiting" /\ task.waitReason \notin {"dependency", "approval"} ->
         Move(t, task, "pending", NoReason)
    [] ~ttl /\ late /\ task.status = "paused" -> Move(t, task, "expired", NoReason)
    [] late /\ task.status = "pr-open" -> Move(t, task, "cancelled", NoReason)
    [] OTHER -> task

\* One task of the sweep.  A task it expired or took from a dead pulse has its lease released;
\* one it dead-lettered for its pulses' deaths loses its checkpoint.
Reconcile(p, t) ==
  /\ pc[p] = "reconcile"
  /\ t \in todo[p]
  /\ \E ttl, late \in BOOLEAN :
       LET task == mem[p][t]
           next == Reconciled(p, t, ttl, late)
           reclaimed == task.status = "running" /\ next.attempts > task.attempts
       IN /\ ttl => t \in Expirable
          /\ mem' = [mem EXCEPT ![p][t] = next]
          /\ lock' = IF reclaimed \/ (ttl /\ next # task) THEN Released(p, {t}) ELSE lock
          /\ ckpt' = IF reclaimed /\ Ended(next) THEN ckpt \ {t} ELSE ckpt
  /\ todo' = [todo EXCEPT ![p] = @ \ {t}]
  /\ UNCHANGED <<fileVars, aged, issue, pc, cur, stray, owned, view, mode, history>>

\* The end of the sweep: checkpoints with no live task, leases of finished tasks.
SweepOrphans(p) ==
  /\ pc[p] = "reconcile"
  /\ todo[p] = {}
  /\ ckpt' = {t \in ckpt : Present(mem[p][t]) /\ ~Ended(mem[p][t])}
  /\ lock' = Released(p, {t \in Tasks : Ended(mem[p][t])})
  /\ Goto(p, IF mode[p] = "kill" THEN "end" ELSE "intake")
  /\ UNCHANGED <<fileVars, aged, issue, todo, cur, mem, stray, owned, view, mode, history>>
-----------------------------------------------------------------------------
(* Intake and control: what happened on the issues. *)

\* listOpenTaskIssues: the issues as they are, or none at all, when the request fails.
Listings == {issue, [t \in Tasks |-> [issue[t] EXCEPT !.open = FALSE]]}

\* syncIssuesIntoTasks: list the open issues once, queue the ones that are not in the file,
\* whether or not they are in the archive.  (Authors, duplicates and the text are left out.)
Intake(p) == \E listing \in Listings :
  LET new == {t \in Tasks : listing[t].open /\ ~Present(mem[p][t])} IN
  /\ pc[p] = "intake"
  /\ view' = [view EXCEPT ![p] = listing]
  /\ mem' = [mem EXCEPT ![p] = [t \in Tasks |-> IF t \in new THEN NewTask ELSE mem[p][t]]]
  /\ todo' = [todo EXCEPT ![p] = {t \in Tasks : Present(mem'[p][t])}]
  /\ delivered' = [t \in Tasks |-> IF t \in new THEN 0 ELSE delivered[t]]
  /\ deaths' = [t \in Tasks |-> IF t \in new THEN 0 ELSE deaths[t]]
  /\ Goto(p, "control")
  /\ UNCHANGED <<diskVars, leaseVars, issue, cur, stray, owned, mode, gone>>

\* (A slip: an approve or resume is taken whatever the task is doing.)
CommandedAlways(t, task, verb) ==
  IF verb \in {"resume", "approve"} THEN Move(t, task, "pending", NoReason) ELSE task

\* applyCommand: what one authorized command makes of a task.
Commanded(t, task, verb) ==
  CASE verb = "retry" /\ Ended(task) ->
         Move(t, [task EXCEPT !.attempts = 0], "pending", NoReason)
    [] verb = "cancel" /\ task.status \in PREEMPTABLE -> Move(t, task, "cancelled", NoReason)
    [] verb = "cancel" /\ task.status = "running" -> [task EXCEPT !.cancelReq = TRUE]
    [] verb = "pause" /\ task.status \in {"pending", "waiting"} ->
         Move(t, task, "paused", NoReason)
    [] verb = "pause" /\ task.status = "running" -> [task EXCEPT !.pauseReq = TRUE]
    [] verb = "resume" /\ task.status = "paused" -> Move(t, task, "pending", NoReason)
    [] verb = "approve" /\ Waiting(task, "approval") -> Move(t, task, "pending", NoReason)
    [] OTHER -> task

\* (A slip: the cursor is not moved.)
NotSeen(task) == task

\* issueUpdatedAtSeen is moved past the command.
Seen(task) == [task EXCEPT !.handled = TRUE]

\* reconcileIssueState, one task: cancel it if its issue is closed; otherwise, if the issue
\* moved since this record last looked, read its comments and apply the command on it.  A
\* retry is about a finished run, so one posted before the task finished is passed over.
Control(p, t) ==
  /\ pc[p] = "control"
  /\ t \in todo[p]
  /\ LET task == mem[p][t]
         seen == Seen(task)
         verb == view[p][t].command
         next == IF ~view[p][t].open
                 THEN IF task.status \in PREEMPTABLE THEN Move(t, task, "cancelled", NoReason)
                                                     ELSE task
                 ELSE IF verb = "none" \/ task.handled THEN task
                 ELSE IF verb = "retry" /\ task.ended THEN seen
                 ELSE Commanded(t, seen, verb)
         retried == verb = "retry" /\ Ended(task) /\ next.status = "pending"
     IN /\ mem' = [mem EXCEPT ![p][t] = next]
        /\ delivered' = IF retried THEN [delivered EXCEPT ![t] = 0] ELSE delivered
        /\ deaths' = IF retried THEN [deaths EXCEPT ![t] = 0] ELSE deaths
  /\ todo' = [todo EXCEPT ![p] = @ \ {t}]
  /\ UNCHANGED <<diskVars, leaseVars, issue, pc, cur, stray, owned, view, mode, gone>>

ControlDone(p) ==
  /\ pc[p] = "control"
  /\ todo[p] = {}
  /\ todo' = [todo EXCEPT ![p] = {t \in Tasks : mem[p][t].status = "pr-open"}]
  /\ Goto(p, "revisit")
  /\ UNCHANGED <<diskVars, leaseVars, issue, cur, mem, stray, owned, view, mode, history>>

\* revisitSelfImprovePr: the pull request was merged (which closes the issue), failed its
\* CI, or is still open.
Revisit(p, t) ==
  /\ pc[p] = "revisit"
  /\ t \in todo[p]
  /\ \E to \in {"pr-open", "complete", "failed"} :
       /\ mem' = IF to = "pr-open" THEN mem
                 ELSE [mem EXCEPT ![p][t] = Move(t, @, to, NoReason)]
       /\ issue' = IF to = "complete" THEN [issue EXCEPT ![t].open = FALSE] ELSE issue
  /\ todo' = [todo EXCEPT ![p] = @ \ {t}]
  /\ UNCHANGED <<diskVars, leaseVars, pc, cur, stray, owned, view, mode, history>>
-----------------------------------------------------------------------------
(* claimAndRun. *)

\* The tasks whose completedAt may be 30 days back: they ended before this pulse.
LongEnded(p) == {t \in Archivable \ owned[p] : mem[p][t] = disk[t] /\ Ended(disk[t])}

\* The housekeeping of a pulse: archiveOldTasks writes the old tasks to the archive of their
\* month and drops them from tasksFile.tasks, which the last save writes.
TidyUp(p) ==
  \E old \in SUBSET LongEnded(p) :
    /\ gone' = gone \cup old
    /\ mem' = [mem EXCEPT ![p] = [t \in Tasks |-> IF t \in old THEN NoTask ELSE mem[p][t]]]

\* The runnable tasks are picked once, from memory; a drained pulse claims none.
BeginClaims(p) ==
  /\ pc[p] = "revisit"
  /\ todo[p] = {}
  /\ IF mode[p] = "drain"
     THEN Goto(p, "end") /\ TidyUp(p) /\ UNCHANGED todo
     ELSE /\ Goto(p, "claim")
          /\ todo' = [todo EXCEPT ![p] = {t \in Tasks : mem[p][t].status = "pending"}]
          /\ UNCHANGED <<mem, gone>>
  /\ UNCHANGED <<diskVars, leaseVars, issue, cur, stray, owned, view, mode, delivered, deaths>>

\* (A slip: a dependency that failed counts as done.)
DepStateLax(p, t) ==
  IF {Obj(p, d).status : d \in Deps[t]} \subseteq TERMINAL_STATUSES THEN "ready" ELSE "waiting"

\* dependencyState
DepState(p, t) ==
  LET statuses == {Obj(p, d).status : d \in Deps[t]} IN
  IF Absent \in statuses THEN "missing"
  ELSE IF DepFailed(statuses) THEN "failed"
  ELSE IF statuses \subseteq {"complete"} THEN "ready"
  ELSE "waiting"

\* The next task in the priority order, which is any.
Considers(p, t) ==
  /\ pc[p] = "claim"
  /\ t \in todo[p]
  /\ Cardinality(owned[p]) < MaxClaims
  /\ todo' = [todo EXCEPT ![p] = @ \ {t}]

\* A task whose dependencies are not complete is parked, or given up.
ParkOnDependency(p, t) ==
  /\ Considers(p, t)
  /\ DepState(p, t) # "ready"
  /\ PutObj(p, t, IF DepState(p, t) = "waiting"
                  THEN Move(t, Obj(p, t), "waiting", "dependency")
                  ELSE Move(t, Obj(p, t), "dead-lettered", NoReason))
  /\ UNCHANGED <<diskVars, leaseVars, issue, pc, cur, owned, view, mode, history>>

ClaimRefused(p, t) ==
  /\ Considers(p, t)
  /\ DepState(p, t) = "ready"
  /\ HeldByOther(p, t)
  /\ UNCHANGED <<diskVars, leaseVars, issue, pc, cur, mem, stray, owned, view, mode, history>>

Claim(p, t) ==
  /\ Considers(p, t)
  /\ DepState(p, t) = "ready"
  /\ ~HeldByOther(p, t)
  /\ lock' = [lock EXCEPT ![t] = [owner |-> p, live |-> TRUE]]
  /\ owned' = [owned EXCEPT ![p] = @ \cup {t}]
  /\ cur' = [cur EXCEPT ![p] = t]
  /\ PutObj(p, t, [Move(t, Obj(p, t), "running", NoReason) EXCEPT !.lease = p])
  /\ Goto(p, "claimed")
  /\ UNCHANGED <<diskVars, aged, issue, view, mode, history>>

\* Nothing left to claim, the claim limit, or a spent time or call budget.
StopClaims(p) ==
  /\ pc[p] = "claim"
  /\ todo' = [todo EXCEPT ![p] = {}]
  /\ Goto(p, "end")
  /\ TidyUp(p)
  /\ UNCHANGED <<diskVars, leaseVars, issue, cur, stray, owned, view, mode, delivered, deaths>>

\* persist(): the checkpoint is written, the lease renewed unless another owner's is live.
Persist(p) ==
  /\ pc[p] = "run"
  /\ ckpt' = ckpt \cup {cur[p]}
  /\ lock' = IF HeldByOther(p, cur[p]) THEN lock
             ELSE [lock EXCEPT ![cur[p]] = [owner |-> p, live |-> TRUE]]
  /\ UNCHANGED <<fileVars, aged, issue, pc, todo, cur, mem, stray, owned, view, mode, history>>

\* What a run leaves of the task: one of the outcomes, or, at a step boundary, what a
\* command recorded in the task object asks for.
RunResults(t, task) ==
  {Move(t, task, o, NoReason) : o \in Outcomes \ {"waiting"}}
  \cup {Move(t, task, "waiting", w) : w \in
           IF "waiting" \notin Outcomes THEN {}
           ELSE IF task.cancelReq \/ task.pauseReq THEN Waits \ {"pulse-budget"} ELSE Waits}
  \cup (IF task.cancelReq
        THEN {Move(t, [task EXCEPT !.cancelReq = FALSE], "cancelled", NoReason)}
        ELSE IF task.pauseReq
        THEN {Move(t, Move(t, [task EXCEPT !.pauseReq = FALSE], "waiting", "budget"),
                   "paused", NoReason)}
        ELSE {})

\* processTask returns and the lease is released.  Work that ended takes its checkpoint
\* along; a delivered result closes the issue.
EndRun(p) ==
  /\ pc[p] = "run"
  /\ LET t == cur[p] IN \E next \in RunResults(t, Obj(p, t)) :
       /\ PutObj(p, t, next)
       /\ ckpt' = IF Completes(next.status) THEN ckpt \ {t} ELSE ckpt \cup {t}
       /\ issue' = IF next.status = "complete" THEN [issue EXCEPT ![t].open = FALSE] ELSE issue
       /\ lock' = Released(p, {t})
       /\ delivered' = IF next.status \in {"complete", "failed"}
                       THEN [delivered EXCEPT ![t] = @ + 1] ELSE delivered
  /\ Goto(p, "ran")
  /\ UNCHANGED <<fileVars, aged, todo, cur, owned, view, mode, gone, deaths>>
-----------------------------------------------------------------------------
(* saveTasks, and the end of a pulse. *)

\* (A slip: the merge starts from our tasks and forgets the ones only the file has.)
OnlyKnownTheirs(p) ==
  {t \in Tasks : Present(disk[t]) /\ Present(mem[p][t]) /\ t \in changed[p] \ owned[p]}

\* mergeTasksByOwnership: the version on disk of a task that changed since p loaded, unless p
\* leased it, and of a task that p does not know.
TheirsWin(p) ==
  {t \in Tasks : /\ Present(disk[t])
                 /\ ~Present(mem[p][t]) \/ t \in changed[p] \ owned[p]}

\* (A slip: the last writer wins.)
NeverMerged(p) == {}

\* Merge only if the file is neither what p last read or wrote nor what it first loaded.
Theirs(p) == IF foreign[p] /\ changed[p] # {} THEN TheirsWin(p) ELSE {}

\* saveTasks, up to the merge.  A merge puts fresh objects into tasksFile.tasks, while the
\* loops of p go on with the old ones.  (Two reads of the file, taken together: one to tell
\* whether it is foreign, one to merge with.)
ReadFile(p) ==
  LET theirs == Theirs(p)
      now == [t \in Tasks |-> IF t \in theirs THEN disk[t] ELSE mem[p][t]]
  IN /\ pc[p] \in {"claimed", "ran", "end"}
     /\ save[p] = "none"
     /\ mem' = [mem EXCEPT ![p] = now]
     /\ stray' = [stray EXCEPT ![p] = [t \in Tasks |->
          IF t \in theirs /\ stray[p][t] = Attached THEN mem[p][t] ELSE stray[p][t]]]
     /\ save' = [save EXCEPT ![p] = IF now = disk THEN "same" ELSE "read"]
     /\ unseen' = [unseen EXCEPT ![p] = IF foreign[p] THEN {} ELSE @]
     /\ UNCHANGED <<disk, changed, foreign, ckpt, leaseVars, issue, pc, todo, cur, owned, view,
                    mode, history>>

\* The rename, after which p is at `next`: whatever the file is by now.  Nothing is written if
\* nothing differed when p read.  (A record that a late rename turns back into the one a third
\* pulse loaded counts for that one as changed.)
Save(p, next) ==
  LET now == IF save[p] = "read" THEN mem[p] ELSE disk
      written == {t \in Tasks : now[t] # disk[t]}
      open == {q \in Pulses : Active(q) /\ (q = p => next # "done")}
      saving == {q \in open \ {p} : save[q] \in {"read", "written"}}
  IN /\ save[p] \in {"read", "same"}
     /\ Goto(p, next)
     /\ disk' = now
     /\ changed' = [q \in Pulses |-> IF q \in open THEN changed[q] \cup written ELSE {}]
     /\ foreign' = [q \in Pulses |->
          q \in open /\ (foreign[q] \/ (save[p] = "read" /\ q # p))]
     /\ unseen' = [q \in Pulses |-> IF q \in saving THEN unseen[q] \cup written
                                   ELSE IF q \in open THEN unseen[q] ELSE {}]
     /\ save' = [save EXCEPT ![p] = IF @ = "read" /\ next # "done" THEN "written" ELSE "none"]
     /\ IF next = "done"
        THEN mem' = [mem EXCEPT ![p] = Nothing] /\ stray' = [stray EXCEPT ![p] = NoStray]
        ELSE UNCHANGED <<mem, stray>>

\* The end of saveTasks: what the file holds now is what p takes for its own.
Baseline(p) ==
  /\ save[p] = "written"
  /\ save' = [save EXCEPT ![p] = "none"]
  /\ foreign' = [foreign EXCEPT ![p] = FALSE]
  /\ UNCHANGED <<disk, changed, unseen, ckpt, leaseVars, issue, pc, todo, cur, mem, stray, owned,
                 view, mode, history>>

SaveClaim(p) ==
  /\ pc[p] = "claimed"
  /\ Save(p, "run")
  /\ UNCHANGED <<ckpt, leaseVars, issue, todo, cur, owned, view, mode, history>>

SaveRun(p) ==
  /\ pc[p] = "ran"
  /\ Save(p, "claim")
  /\ cur' = [cur EXCEPT ![p] = None]
  /\ UNCHANGED <<ckpt, leaseVars, issue, todo, owned, view, mode, history>>

\* The last save of every pulse, also of one that failed.
SaveEnd(p) ==
  /\ pc[p] = "end"
  /\ Save(p, "done")
  /\ owned' = [owned EXCEPT ![p] = {}]
  /\ view' = [view EXCEPT ![p] = [t \in Tasks |-> Closed]]
  /\ UNCHANGED <<ckpt, leaseVars, issue, todo, cur, mode, history>>

\* A pulse that dies in a run, or leaves the run by an exception, has spent an attempt.
Spent(p) ==
  deaths' = IF pc[p] \in {"run", "ran"} /\ deaths[cur[p]] < MaxAttempts
            THEN [deaths EXCEPT ![cur[p]] = @ + 1] ELSE deaths

\* GitHub or a provider throws: the rest of the pulse is skipped, its last save is not.  A
\* task that was running stays so in the file, and its lease is not released.
Throw(p) ==
  /\ pc[p] \in {"intake", "control", "revisit", "run"}
  /\ save[p] = "none"
  /\ Goto(p, "end")
  /\ todo' = [todo EXCEPT ![p] = {}]
  /\ cur' = [cur EXCEPT ![p] = None]
  /\ Spent(p)
  /\ UNCHANGED <<diskVars, leaseVars, issue, mem, stray, owned, view, mode, gone, delivered>>

\* The process is killed; only its files stay.
Crash(p) ==
  /\ p \in MayCrash
  /\ Active(p)
  /\ Goto(p, "dead")
  /\ todo' = [todo EXCEPT ![p] = {}]
  /\ cur' = [cur EXCEPT ![p] = None]
  /\ mem' = [mem EXCEPT ![p] = Nothing]
  /\ stray' = [stray EXCEPT ![p] = NoStray]
  /\ owned' = [owned EXCEPT ![p] = {}]
  /\ changed' = [changed EXCEPT ![p] = {}]
  /\ foreign' = [foreign EXCEPT ![p] = FALSE]
  /\ save' = [save EXCEPT ![p] = "none"]
  /\ unseen' = [unseen EXCEPT ![p] = {}]
  /\ view' = [view EXCEPT ![p] = [t \in Tasks |-> Closed]]
  /\ Spent(p)
  /\ UNCHANGED <<disk, ckpt, leaseVars, issue, mode, gone, delivered>>
-----------------------------------------------------------------------------
UserOrClock ==
  \E t \in Tasks :
    \/ \E verb \in Verbs : Post(t, verb)
    \/ CloseIssue(t)
    \/ LeaseRunsOut(t)
    \/ \E p \in Pulses : MirrorRunsOut(p, t)

\* A saveTasks that has renamed its file ends before anything else happens in its process.
PulseStep(p) ==
  \/ Baseline(p)
  \/ /\ save[p] # "written"
     /\ \/ Load(p) \/ SweepOrphans(p) \/ Intake(p) \/ ControlDone(p) \/ BeginClaims(p)
        \/ StopClaims(p) \/ Persist(p) \/ EndRun(p)
        \/ ReadFile(p) \/ SaveClaim(p) \/ SaveRun(p) \/ SaveEnd(p)
        \/ \E t \in Tasks :
             \/ Reconcile(p, t) \/ Control(p, t) \/ Revisit(p, t)
             \/ ParkOnDependency(p, t) \/ ClaimRefused(p, t) \/ Claim(p, t)

Next == UserOrClock \/ \E p \in Pulses : PulseStep(p) \/ Throw(p) \/ Crash(p)

Spec == Init /\ [][Next]_vars
-----------------------------------------------------------------------------
(***************************************************************************)
(* Properties                                                              *)
(***************************************************************************)

\* While no lease runs out under a working pulse, two pulses never work on one task at once,
\* overlapping or not: the claim's lease, and the sweep's refusal to touch a task whose owner
\* lives, see to it (pulse.js:566, reconcile.js:62-66).
OneRunner ==
  \A p, q \in Pulses :
    p # q /\ pc[p] \in {"claimed", "run"} /\ pc[q] \in {"claimed", "run"} => cur[p] # cur[q]

\* A task that ended comes back to life only by a retry that no pulse has handled before:
\* lifecycle.js:35, "Retry from a terminal state is a human action".  (While it is in the
\* file: ArchivedStaysDone is about the rest.)
RevivedOnlyByRetry ==
  [][\A t \in Tasks :
       Ended(disk[t]) /\ disk'[t].status \notin {disk[t].status, Absent}
         => issue[t].command = "retry" /\ ~disk[t].handled /\ disk'[t].handled]_vars

\* A task that has killed as many pulses as it has attempts is not run again, unless a user
\* retries it: the attempts the sweep counts (reconcile.js:67-80) are all the deaths there
\* were, although a crash may fall between the count and the save that records it.
AttemptCeiling ==
  \A p \in Pulses, t \in Tasks :
    deaths[t] >= MaxAttempts => ~(pc[p] = "run" /\ cur[p] = t)

\* Where pulses come one at a time, a result is delivered once for each time a user asks for
\* it, and at most once more for each pulse that died in a run: no command, wait, sweep or
\* retention alone runs a finished task again (lifecycle.js:35).  (Not so where pulses overlap:
\* one that listed a task as runnable before the other finished it runs it again.)
DeliveredOnce == \A t \in Tasks : delivered[t] <= 1 + deaths[t]

\* While a task runs, what it depends on is complete in the eyes of the pulse that runs it
\* (pulse.js:522-528): no sweep, command or intake takes a dependency back, none was missing
\* or failed, and no merge brings back an older record of one.
DependenciesFirst ==
  \A p \in Pulses : pc[p] = "run" => \A d \in Deps[cur[p]] : Obj(p, d).status = "complete"

\* p renames a version of tasks.json into place.
Renames(p) == save[p] = "read" /\ save'[p] # "read"

\* A task never leaves the file, whatever merges happen, except for the archive, and only when
\* it has ended: archive.js:6, "The archive holds the whole record, so nothing is lost".  The
\* merge protects what a save has read, however old the saver's copy: only a record that was
\* written between the read and the end of a save may be dropped by it (there is no lock).
NoTaskLost ==
  [][\A t \in Tasks :
       Present(disk[t]) /\ ~Present(disk'[t])
         => \/ t \in gone /\ Ended(disk[t])
            \/ \E p \in Pulses : Renames(p) /\ t \in unseen[p]]_vars

\* A task put away in the archive is not run again unasked: lifecycle.js:35, "Retry from a
\* terminal state is a human action".  (The code does not keep this: the issue of a failed
\* task stays open, and intake knows only the tasks in the file.)
ArchivedStaysDone ==
  \A p \in Pulses : pc[p] = "run" /\ cur[p] \in gone => issue[cur[p]].command = "retry"

\* A queued task is cancelled by a person only, who closes its issue or asks for it:
\* issueSync.js:244, "the originating issue was closed before this task ran".  (The code does
\* not keep this: a list of issues that cannot be read is an empty list.)
CancelledByAPerson ==
  [][\A t \in Tasks :
       disk[t].status \in PREEMPTABLE /\ disk'[t].status = "cancelled"
         => ~issue[t].open \/ issue[t].command = "cancel"]_vars

\* What a record says of a task's life; the rest is the comment cursor and what users asked.
Life(task) == <<task.status, task.waitReason, task.lease, task.attempts>>

\* While a pulse runs a task, the task's life is overwritten only by one that has leased it
\* too, however stale the others' copies are and whichever of the file's versions saveTasks
\* compares first (store.js:217-227); or by one whose save was under way when the record was
\* written, and that has not read it.
RunningRecordKept ==
  [][\A q \in Pulses, t \in Tasks :
       /\ pc[q] = "run" /\ cur[q] = t
       /\ disk[t].status = "running" /\ disk[t].lease = q
       /\ Life(disk'[t]) # Life(disk[t])
       => \E p \in Pulses \ {q} : Renames(p) /\ t \in owned[p] \cup unseen[p]]_vars

\* The same without the last exception: store.js:220, "That is what stops two overlapping pulses
\* from clobbering each other".  (The code does not keep this: nothing holds the file between the
\* read and the rename.)
NothingClobbered ==
  [][\A q \in Pulses, t \in Tasks :
       /\ pc[q] = "run" /\ cur[q] = t
       /\ disk[t].status = "running" /\ disk[t].lease = q
       /\ Life(disk'[t]) # Life(disk[t])
       => \E p \in Pulses \ {q} : Renames(p) /\ t \in owned[p]]_vars

\* A cancel recorded for a running task is in the task object its runner looks at between
\* steps: issueSync.js:316, "honoured at the next step boundary".
CancelReachesRunner ==
  \A p \in Pulses, t \in Tasks :
    pc[p] = "run" /\ cur[p] = t /\ disk[t].status = "running" /\ disk[t].cancelReq
      => Obj(p, t).cancelReq
=============================================================================
