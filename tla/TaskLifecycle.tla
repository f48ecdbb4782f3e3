--------------------------- MODULE TaskLifecycle ---------------------------
(***************************************************************************)
(* The task state machine of src/src/task/lifecycle.js: the statuses, the  *)
(* table of legal moves, and what transition() does to a task record.      *)
(* PulseQueue changes every task's status through Transition, as the       *)
(* engine does; TaskRun, which has no leases, keeps to the same table.     *)
(*                                                                         *)
(* Transition changes the fields that the queue's properties tell apart:   *)
(* status, waitReason and the lease mirror.  Of the timestamps only their  *)
(* order matters, and only to PulseQueue; error texts and the history are  *)
(* left out.                                                               *)
(***************************************************************************)

\* The reasons a task may wait for, and the absence of one.
WAIT_REASONS ==
  {"backoff", "dependency", "approval", "budget", "quota", "pulse-budget", "provider"}
NoReason == "none"

TERMINAL_STATUSES ==
  {"complete", "failed", "blocked", "cancelled", "expired", "dead-lettered"}

TASK_STATUSES ==
  {"pending", "running", "waiting", "paused", "pr-open"} \cup TERMINAL_STATUSES

\* From a status, the statuses a task may move to.
TRANSITIONS ==
  [from \in TASK_STATUSES |->
     CASE from = "pending" -> {"running", "waiting", "paused", "cancelled", "expired", "dead-lettered"}
       [] from = "running" -> TASK_STATUSES \ {"running", "paused"}
       [] from = "waiting" -> {"pending", "paused", "cancelled", "expired", "dead-lettered"}
       [] from = "paused"  -> {"pending", "cancelled", "expired"}
       [] from = "pr-open" -> {"complete", "failed", "cancelled"}
       [] OTHER            -> {"pending"}]

IsTerminal(status) == status \in TERMINAL_STATUSES

CanTransition(from, to) == to \in TRANSITIONS[from]

\* A closed issue and a cancel command take effect at once on these (issueSync.js).
PREEMPTABLE == {"pending", "waiting", "paused"}

\* Statuses whose entry stamps completedAt and drops the lease mirror.
Completes(to) == IsTerminal(to) \/ to = "pr-open"

\* A move to pending from here is a retry: it clears the previous life.
EndsALife(from) == from \notin {"waiting", "paused", "running"}

\* What transition() leaves in the record; `none` is the empty lease mirror.
\* Callers establish CanTransition(task.status, to): transition() throws otherwise.
Transition(task, to, why, none) ==
  [task EXCEPT
     !.status     = to,
     !.waitReason = IF to = "waiting" THEN why ELSE NoReason,
     !.lease      = IF Completes(to) \/ to = "pending" THEN none ELSE @]
=============================================================================
