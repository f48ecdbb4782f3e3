# TITAN-Runner in TLA+

TITAN-Runner takes tasks from GitHub issues and runs them in short, disposable
processes called *pulses*.  A pulse is started every quarter of an hour by a GitHub
workflow (or by hand, on any checkout), keeps everything it must remember in JSON files
under `state/`, and may be killed at any moment.  What has to be right is therefore not
in one function but between the steps of several processes: who may run a task, what a
killed pulse leaves behind, what the next one makes of it, and what has already been said
on GitHub.  Around it is a Cloudflare Worker with a
database, which starts pulses, runs schedules, sub-agent tasks and connectors, and is
itself a set of requests and one-minute ticks that overlap and die.  These modules model
both from their source, check them with TLC, and prove with TLAPS, for every value of the
constants, all the safety properties that the passing runs check, and some of the liveness.

Line numbers `x.js:n` are those of the file of that name under `src/src/` (the runner) or
`src/worker/src/` (the Worker).

## 1. The system

| Component | State | Operations | Talks to |
|---|---|---|---|
| Task lifecycle (`task/lifecycle.js`) | a task's status, wait reason, timestamps | `transition` | everything that changes a task |
| Leases (`task/leases.js`) | `state/leases/<task>.json`: owner, expiry | `acquire`, `renew`, `release`, `isExpired` | the pulse engine, reconciliation |
| Reconciliation (`task/reconcile.js`) | none of its own | one sweep over the queue at the start of a pulse | queue, leases, checkpoints |
| Pulse engine (`engine/pulse.js`) | the queue in memory, the tasks it has leased | load, sweep, intake, control, `claimAndRun`, `processTask`, saves | all of these |
| Task queue file (`state/store.js`) | `tasks.json`, checkpoints | `saveTasks` with its merge, `saveCheckpoint`, `deleteCheckpoint` | other pulses, through the files |
| Issue intake and control (`issueSync.js`) | a cursor per task (`issueUpdatedAtSeen`) | queue new issues, cancel closed ones, apply `/titan` commands | GitHub, lifecycle |
| Orchestration (`engine/orchestrate.js`, `orchestrator/scheduler.js`) | the checkpoint: phase, steps, verdict | plan, run steps, synthesize, verify, remediate | providers, tools, judge |
| Side-effect ledger (`engine/sideEffects.js`) | the keys of the effects that landed, in the checkpoint | `comment`, `closeIssue`, `once` | GitHub |
| Checkpointer (`engine/checkpointer.js`) | time of the last commit | `checkpoint`: commit, rebase, push | the remote repository |
| Policy engine (`policy/engine.js`) | approvals, in the task record | `decide` | delivery, tools |
| Self-improvement (`selfImprove.js`) | the task's pull request number | open a pull request, revisit it | GitHub |
| Planning (`orchestrator/decomposer.js`) | the plan, in the checkpoint | ask, validate, ask again, fall back | agents |
| Scheduler (`orchestrator/scheduler.js`, with `agents/`, `lib/semaphore.js`, `reliability/`) | the steps, their attempts, the pools' permits | dispatch, retry, fail over, tool rounds, drain, resume | agents, tools, checkpoint |
| Providers (`providers/`, `reliability/quota.js`) | health table, quota ledger | choose, call, fail over, self-test | network |
| State maintenance (`state/archive.js`, `state/prune.js`) | files and monthly archives | roll records | checkpointer, workflows |
| Event log (`observability/events.js`) | a file for each day | append, compact | everything that logs |
| Operations (`ops/`) | counts of calls | the usage report | the Worker |
| Reviewer gate, verification, tools, research | mostly none, or logs | text and I/O inside a step, reports | |
| Worker tick (`worker/src/tick.js`) | none of its own | once a minute: keeper, token, tasks, machines, schedules, notices, retention | all of the Worker |
| Worker keeper (`keeper.js`) | last heartbeat, dispatch and attempt | look, dispatch a pulse | GitHub |
| Worker callback token (`callback.js`) | token rows, one repo secret | issue, activate, retire, revoke | GitHub, workflow runs |
| Worker tasks and machines (`tasks.js`, `legacy.js`) | rows of `subagents` and of the machines | queue, dispatch, report, reap, cancel, retry | workflow runs |
| Worker schedules (`schedules.js`) | rows with their next run | select due rows, move, fire | tasks, notices |
| Worker connectors (`connectors/`) | connections, policies, approvals, hook nonces, events | call, ask, decide, sign in, route, receive posts | providers of tools, Telegram |
| Worker keys (`keys.js`) | repo secret, vault copy, row | save, remove, list, rotate | GitHub |
| Worker pages, sessions, OAuth server, health | sessions, caches | queries and rendering | the dashboard |
| Dashboard, benchmark, scripts, workflows | none | | |

What is hard in it:

* **Overlap.** The workflow's concurrency group keeps two scheduled pulses apart; nothing
  keeps a pulse on a laptop checkout, or one started by hand there, from overlapping
  another.  Leases and the merge in `saveTasks` are the defence.
* **Death.** A pulse is killed by its job's timeout, by an exception or by a lost machine.
  Its lease, its `running` task and its checkpoint stay; its memory does not.
* **GitHub first, disk second.** A comment lands before the ledger knows of it; a
  checkpoint is deleted before the task's status is saved.
* **Rate-limited durability.** On a GitHub runner only what has been pushed survives, and
  pushes are at most one in twenty seconds and may fail without an error.
* **Commands that arrive late.** A retry, cancel, pause or approval is a comment that some
  pulse reads, perhaps after the task has moved on.
* **Others on the branch.** The state is published by `git push` next to pushes of people
  and workflows; a refused push rebuilds its commit.
* **Abandoned calls.** A deadline ends the wait for a model, not the call, which goes on to
  hold its permit; counts of quota and breaker are read before a call and written after it.
* **A Worker without transactions.** A handler reads a row, awaits GitHub or a connector, and
  writes; ticks overlap, requests die between two statements, a post may reach GitHub though
  its answer is lost, and workflow runs report late, twice or never.

`PROJECT.json` lists all components with what is and is not modelled, and the hazards at
their lines.

## 2. The modules

| Module | Models | Correspondence |
|---|---|---|
| `TaskLifecycle` | `task/lifecycle.js` | the transition table and `transition()` as operators; no state |
| `ExclusiveRun` | nothing in the code: what leases are for | `runner[t]`; a run begins and ends, one at a time for each task |
| `Leases` | `LeaseManager` as the pulse uses it | `file` is the lease file with the time it has left, `work` the task inside `processTask`; one action per method, each of which is synchronous in the code; `over` are the pulses that an exception threw out of their claims (`Throw`), with their lease unreleased, and that live on |
| `LeasesProofs` | theorems about `Leases` | section 5 |
| `LeaseFiles` | the same methods as system calls of several processes | `Create`/`Fill` are the two halves of `writeFileSync(wx)`, `Look`/`Replace` the read and rename, `ReleaseRead`/`ReleaseUnlink` the read and unlink |
| `LeaseFilesProofs` | theorems about `LeaseFiles` | section 5 |
| `PulseQueue` | several pulses over one checkout | `disk` is `tasks.json`, `mem` the array `tasksFile.tasks` of a pulse, `stray` a task object that a merge has detached from it, `changed` and `foreign` what `saveTasks` compares to decide on a merge, `save` how far a pulse is in it: `ReadFile` reads and merges, the rename comes with `SaveClaim`, `SaveRun` and `SaveEnd`, and `Baseline` reads back what was written; `Load`, `Reconcile`, `SweepOrphans`, `Intake`, `Control`, `Revisit`, `BeginClaims`, `Claim`..., `EndRun`, `SaveClaim`, `SaveRun`, `SaveEnd` follow `runPulse` in order |
| `PulseQueueProofs`, `SerialPulseProofs` | theorems about `PulseQueue`: of pulses that overlap, and of pulses one after another | section 5 |
| `MCPulseQueue` | | dependency graphs and the symmetry for TLC |
| `IssueCommands` | `reconcileIssueState` with its clocks | `iComments` with their times, `iListed` the `updated_at` of the list call, the cursor in the record; the list, the comments and the save are three steps |
| `TaskRun` | one task through `processTask`, from claim to delivery | `task`, `cp` are in memory, `files` in the checkout, `durable` what the next process finds after a kill; every write the code makes between two awaits of GitHub, a provider or git is a step, and `Crash` may come between any two |
| `TaskRunProofs` | theorems about `TaskRun` | section 5 |
| `Checkpointer` | `Checkpointer.checkpoint` in git mode | trees for the branch, the commit, the base and the files on disk; `CommitState`, `PullRebase`, `ReapplyOnRemote`, `PushState` are its commands, `OtherPush` anybody else's |
| `Plans` | `decompose` and the planning phase | `ValidGraph` with `FindCycle` is the validation, over every small plan; a second question, the fallback, the park |
| `OrderedWork` | nothing in the code: what a task graph is for | `done`; a step is done after those it needs, and sent back with those that need it |
| `Scheduler` | `Scheduler.run` with the adapters' gate, `decideRetry` and the rounds of `orchestrate` | `st` is the steps' states, `listed` the candidate list of this run, `w` what `#runWithRetry` holds in its locals, `gate` the semaphores with their queues, where an abandoned call is a ghost; one `Pass` is one turn of the loop, the rest are the awaits of the steps |
| `SchedulerProofs` | theorems about `Scheduler` | section 5 |
| `MCScheduler` | | the graph and the pools for TLC |
| `ProviderCalls` | `ProviderRegistry.chat`, `HealthTracker`, `QuotaLedger` | a stretch between two awaits is an action: `Chat`, `GatewayEnds`, `Enter`, `Answer`; `SelfTest` is the script of that name |
| `RunRecords` | `rollRecords` for the run records | `fHere` and `fRepo` are the checkout and the branch, each with the months whose archive cannot be read; an archive is written in place (`ArchiveMonth`, `ArchiveWritten`), and only then are its files deleted |
| `EventLog` | `EventLog` of `observability/` | `eLines[d]` is a day's file; a line may be torn, a compaction stop between its two writes |
| `UsageReports` | `UsageReporter.flush` and `POST /ops/usage` | the two tries of one batch travel and run on their own; a statement of the handler is a step; `uGood` are the records of a try that the Worker did not reject |
| `EngineProofs` | theorems about `ProviderCalls`, `RunRecords`, `UsageReports`, `Checkpointer`, `EventLog`, `IssueCommands` and `Plans` | section 5 |
| `WorkerTasks` | `tasks.js` with its part of the tick and of the retention | `tRow` is the table, `tTick` a tick between its reads and writes, `tSent` and `tBusy` the runs |
| `Fleet` | the machines of `legacy.js` | the same for the requested machines |
| `CallbackToken` | `issueCallbackToken` and its callers | `kStatus` is the table, `kSecret` the repo secret, `kJob` where each issuer stands |
| `PulseKeeper` | `keeper.js` | the settings as bits that are recent or not, the tick's four steps, the pulses as the keeper sees them |
| `Schedules` | `tickSchedules` and the owner's requests | `sDue` are the due rows in the order of their time; a tick moves a row, then fires it |
| `Approvals` | one connection of the broker and its waiting calls | `aReq` is a request between its statements; calls, decisions, sign-in, disconnection, expiry; `RunAgain` is the second post of a call to a remote MCP server |
| `Notices` | `emitEvent` and the notification router | `nTick` is a tick with the hour it began in, the events and, read after them, the rule; `nLog` the table of deliveries |
| `Hooks` | the inbound hooks with the nonces' pruning | time in parts of the window, `hNonce` the table |
| `ProviderKeys` | the saving, removing, listing and rotating of a key | the three homes of a key and the requests between them |
| `WorkerProofs` | theorems about `Approvals`, `Notices`, `Hooks`, `ProviderKeys`, `WorkerTasks`, `Fleet`, `CallbackToken` and `PulseKeeper` | section 5 |
| `MCWorkerLive`, `MCParts` | the parts side by side, for TLC | below |

How they fit.  `Leases` refines `ExclusiveRun`.  `LeaseFiles` opens up one method call of
`Leases`; it shows how far the assumption of `Leases` (a method is atomic) holds between
processes, and where it does not.  `PulseQueue` uses the lease at the level of `Leases`,
with time as a choice, and takes the run of a task as one action with a set of outcomes;
`TaskRun` opens that action up for one task and pulses that do not overlap.  `PulseQueue`
and `TaskRun` share `TaskLifecycle`.

`Scheduler` opens the step of `TaskRun` (where steps finish, fail or park one at a time) for
one task graph, with the concurrency, the retries and the permits; it refines `OrderedWork`
under `done <- {s : st[s] = "complete"}`.  `Checkpointer` opens the choice `TaskRun` makes of
what is durable, and `IssueCommands` the one bit that `PulseQueue` has for the comment
cursor.  `Plans` yields the graphs that `Scheduler` takes as a constant: `PlanCanRun` is
what `Deps` has to satisfy for `RunEnds` and `NothingLeftBehind` to mean anything, and it is proved.

The parts of the Worker have tables of their own; what one hands to another (a schedule
puts a task in the queue, an approval emits an event) may come at any time in the other.
So the behaviours of the whole are those of the parts, shuffled, and a property of one part
holds of the whole if it holds while the others rest.  `MCWorkerLive` (what must happen)
and `MCParts` (what must not) are built on that: a variable `part`, fixed at the start,
says which part moves.  The parts of the engine in `MCParts` work on files of their own in
the same way.  A run of either is therefore as good as one run for each part.

Each module has, beside the operators of the code, one-line *slips*: the same operator with
a mistake that could be made in that code (a guard dropped, a reset forgotten, a limit off
by one).  They are not part of `Spec`.  Each property is known to fail under one of them
(`PROJECT.json`, `mutants`), so none holds by the shape of the model.

### Abstractions

* A task's text, type-specific output, history, events and metrics are left out.
* Time.  In `Leases` a lease holds the time it has left, so nothing grows.  Elsewhere a
  lease, a wake time or a TTL may run out whenever its guard allows; `SlowRuns = FALSE`
  says that a working pulse keeps its lease, which is what `Leases` shows under
  `RenewGap < TTL`.
* `PulseQueue`: one command on an issue, so a resume after a pause does not occur; authors,
  duplicates and priorities are left out; the next task of the priority order is any.  The
  list call either answers with the open issues or with none (`Listings`), as
  `listOpenTaskIssues` does when it fails.  An ended task may be archived by `TidyUp` once
  it is old, which it becomes in `Archivable` only.  A save is three steps, with other pulses in
  between: the read and the merge, the rename, and the read of what was written.  The two reads at
  its start (store.js:233, 238) are taken together; and a record that a late rename turns back
  into the very one that a third pulse had loaded counts for that pulse as changed, where the code
  would compare and find it the same.  A pulse id is used once, as in the code (it has a nonce), so the number of pulses
  bounds a behaviour.
* `TaskRun`: the Scheduler's concurrency and retries are one step finishing, failing or
  parking at a time; a gate verdict, a step's result, a judge's verdict and a pull
  request's fate are choices; only approvals that name a run are modelled, not
  `approve all`, nor a tool call that parks for an approval.  `ListFails` is FALSE in every
  run: when GitHub cannot list the comments, `#remoteHas` answers "not there"
  (sideEffects.js:95) and the comment is posted again, by design of that catch.
* `IssueCommands`: one issue, one trusted author, all clocks agree to the second, pulses do
  not overlap.
* `Checkpointer`: a file's content is a stamp; two changes of one file conflict.
* `Leases`: an exception anywhere in a pulse (`Throw`) ends its claims for good, as the `catch` of
  `runPulse` does; a pulse that throws outside a task leaves no lease.
* `Scheduler`: the candidate list of a run is any of `Listings`, the empty one included, since an
  adapter that throws lists nothing; the router may rank any candidate first; delays are interleavings; a verifier
  may send back any completed step.  A loop over the graph in one turn is one action, since nothing
  awaits in it.  The two loops that grow a set to a fixed point (`#propagateBlocked`,
  `remediationTargets`) are written as the least set closed under their step, which is what such a
  loop ends with, and needs no recursion.
* `ProviderCalls`: one count stands for the window of a minute and of a day; the length of a
  cooldown is any.  The verdict of the canary is fixed for a pulse.
* `Plans`: of a step its name and dependencies; every other reason to refuse a reply is one
  choice.
* `EventLog`, `RunRecords`, `UsageReports`: an event is a number, a record its age, a usage
  record its reporter and kind.  An archive whose rewriting was cut short cannot be read (a cut
  gzip file), so nothing is rolled into it any more.  Which records of a try the Worker rejects (for their
  fields, or their time by its clock) is any choice, made for each try.
* The archive of ended tasks (`PulseQueue.TidyUp`) goes through the same write as that of the run records;
  there it is one step, since nothing that is modelled reads it back.
* Worker: an age is a bit that time sets; a statement of SQL is atomic, the code between two
  is not; GitHub answers, refuses, or does something and its answer is lost.  Of the owner's
  requests each statement is a step where the handler reads first and writes later
  (`WorkerTasks`, `Approvals`, `ProviderKeys`) and one step elsewhere.
* `Approvals`: one connection, one action (`ActionKinds`: it signs in with OAuth or not, is personal or
  not, is the call of a remote MCP tool or not); what a call says is left out, and the MCP era that a
  connection keeps (its first call may always be a modern one).  `Notices`: one rule, whose quiet hours
  begin and end at any time; a tick judges by the time it began (tick.js:19, 35).
  `ProviderKeys`: one provider.  `CallbackToken`: the legacy mode of the first half hour is
  left out.

## 3. The runs

| Run | Module, configuration | Shows |
|---|---|---|
| `leases` | `Leases`, `MCLeases.cfg` | one worker per task; a live lease ends only with its task; a lease left behind by a dead or thrown pulse runs out; the protocol implements `ExclusiveRun` |
| `queue_serial` | `MCPulseQueue`, `MCPulseQueueSerial.cfg` | attempts bound the deaths; an ended task comes back only by a fresh retry; one delivery for each request, and at most one more for each death |
| `queue_overlap` | `MCPulseQueue`, `MCPulseQueueOverlap.cfg` | overlapping pulses never run one task at once and respect dependencies; however stale its copy, a save drops no task and overwrites no running one's record, unless the record was written while the save was under way |
| `run_local` | `TaskRun`, `MCTaskRunLocal.cfg` | the gate is asked once in a run, delivery only after approval, checkpoints match the task, and the task does not stay `running` |
| `run_git` | `TaskRun`, `MCTaskRunGit.cfg` | every comment and close of a run once, and in order, when unpushed files die with the job |
| `scheduler` | `MCScheduler`, `MCScheduler.cfg` | no step is done on an input that was made again since; no model is called again, in one execution of a step, after an answer its policy takes as final; the loop leaves nothing behind and ends; the task graph is done in order (`OrderedWork`) |
| `worker_live` | `MCWorkerLive`, `MCWorkerLive.cfg` | tasks, machines and due schedules settle whatever is lost; the callback token and the pulse come back after every failure |
| `parts` | `MCParts`, `MCParts.cfg` | fourteen promises of twelve parts, from "an approved call is taken once" to "a whole event is never lost", each named after what it says |
| `queue_archive`, `queue_list`, `run_twice`, `checkpoint_removals` | | violations: section 4 |

`parts` checks, by part: `ApprovedTakenOnce` (approvals), `RoutedWasTold` (notices), `PostedOnce`
(hooks), `KeptKeysWereWritten` (keys), `QuotaNearlyKept` and `RejectedKeyStaysOut` (provider
calls), `RunNeverLost` (run records), `PlanCanRun` (plans), `CountedOnce` (usage reports),
`RunsAskedFor` (issue commands), `PushKeepsBoth` (checkpointer), `EventsKeptInOrder` (event
log), `NoGhostLease` and `SomebodyWins` (lease files).

Bounds, and why they suffice for the cases the properties are about:

* `leases`: three pulses (an owner, a claimant, a sweeper), two tasks, a lease of three
  ticks with two between renewals: the smallest values that tell "just renewed", "due" and
  "expired" apart.  Any pulse may throw, at any time.  The theorems lift the bounds.
* `queue_serial`: three pulses one after another with two attempts, so the ceiling is
  reached with a pulse left to break it; one task with every kind of exit, the archive
  included.
* `queue_overlap`: two pulses and two tasks, the second depending on the first, with a
  retry on each: each pulse can be behind the other about either task, and between the read
  and the rename of a save of it; the first may be archived while the second waits for it.
  Runs end complete or failed; the steps of a save multiply the states (4.0 million), and other
  ends differ for the file only in the status they leave.
* `run_local`: two run ids, two attempts, one park, one remediation, a plan and one step:
  a resume, a second run and a death at every write in between; pulses that are quiet and
  then not, policies that ask and do not.
* `run_git`: two runs with lost pushes; the steps are reduced to the plan, since the
  properties there are about the effects after it.
* `scheduler`: a chain of three (so that sending back the first passes through the second)
  and a step of its own for the `freebuff` pool; two models in two pools of one permit, so
  that steps queue; two failure classes, one that goes to the next model at once and one that
  repeats; three attempts; one tool call; one remediation; and candidate lists of all models, of
  one and of none.
* `worker_live`: tasks: one that mirrors an issue and one that does not, two posted runs, three
  rows put in the queue.  Machines: two, with two ticks that overlap.  Token: four names, since
  three may be in the table while a fourth is issued; one fault, one forced rotation beside the
  tick.  Keeper: two overlapping ticks, three losses.  Schedules: the built-in and another, two
  ticks, a limit of one row so that one must wait for the other.
* `parts`: two requests for each handler (an overlap) and a third participant where one can
  be overtaken twice (lease files, event log); two channels, two events with one title;
  three steps in a plan (the smallest cycle that is not between neighbours); four posts of
  time around a window; two jobs and three changes of two files; four run records over two
  months with one that always stays; limits (`MaxPending`, `PerProvider`,
  `RouteBatch`) of one, so that they are reached; for usage reports one pulse (its rows are its own) with
  three kinds of call and a batch of two, so that a batch leaves one out and may be rejected in part.

`CHECK_DEADLOCK FALSE` wherever the pulses, requests or faults of a behaviour are used up, or
the task has ended: such a system does stop.  `Leases` and `Scheduler` never stop and are
checked for deadlock.

Fairness.

* `Leases`: the clock ticks, and a working pulse renews when it must; without the clock no
  lease would run out, and a pulse that never persisted would stop the model's clock.
* `TaskRun`: weak fairness of the pulses' steps as a whole: the workflow's cron and the
  Worker's keeper start pulses for ever, and every call a pulse makes has a timeout.
* `Scheduler`: the event loop gets to every pass, timer and permit that is due.  Models are
  not assumed to answer: the deadline of a step is what is fair (`withTimeout`), and it covers
  the wait for a permit.  Tools return, since each has a timeout of its own.
* `worker_live`: time passes, for each task and machine, and the platform's cron starts a tick every minute which goes on
  unless it dies.  Runs are not assumed to report (`WorkerTasks`, `Fleet`): the reaper and the
  deadlines are what is fair.  Faults are bounded in number, not in time: after the last one
  the token has to come back, which is what "heals" means.
* No fairness is assumed of GitHub, of users, of pushes or of crashes: `NeverStuckRunning`
  holds although every pulse may be killed.  It is checked with a durable checkout; with
  pushes that all fail (`Git`), the attempts that were counted are lost as well, and the
  task is reclaimed again and again.

## 4. Where the code and its documents part

The first four are runs of the list.  For the others the configuration or the change of one is
named with which TLC finds the trace; the properties stay as definitions of the modules.

| Statement | Shown by | What happens |
|---|---|---|
| a landed comment "is never repeated, even after a crash" (docs/RUNTIME.md:169-170) | run `run_twice`, `ResultOnce` | the checkpoint is deleted before the task is saved; the next pulse starts a new run, with new markers |
| "Retry from a terminal state is a human action" (lifecycle.js:35) | run `queue_archive`, `ArchivedStaysDone` | a failed task is archived after thirty days; its issue is open, and the intake, which knows tasks by `tasks.json` alone, makes a new one of it |
| "the originating issue was closed before this task ran" (issueSync.js:244) | run `queue_list`, `CancelledByAPerson` | `listOpenTaskIssues` answers `[]` when GitHub fails; every waiting task is then cancelled, and stays so |
| "Deletions this pulse made on purpose ... stage our removals explicitly" (checkpointer.js:133-137) | run `checkpoint_removals`, `RemovalsArePushed` | the removals are committed already when `git ls-files --deleted` looks for them; a rebuilt commit brings the files back |
| "two pulses racing on the same checkout cannot both win" (leases.js:10-12) | `MCLeaseFilesRace.cfg`, `OneWinner` | a lease file is read between its exclusive create and its content, or an expired lease is replaced twice; both acquires return true |
| "overlapping pulses cannot double-run" (docs/runner-upgrade/REPORT.md:125) | `MCPulseQueueDouble.cfg`, `DeliveredOnce` | the runnable list is older than the lease: a pulse claims and delivers what another has delivered and released |
| "a killed job loses at most one step" (.github/workflows/titan-pulse.yml:88-89) | `MCTaskRunGitLoss.cfg`, `LosesOneStep` | steps that finish within the checkpointer's interval are not pushed, and none of the checkpoints is forced |
| "it never leaves a red PR open" (selfImprove.js:24-25) | `MCTaskRunPrNumber.cfg`, `PrOpenKnowsItsPr` | the ledger knows that a pull request exists, but its number died with the process |
| "The ledger still records the key" (sideEffects.js:37-38) | `MCTaskRunMuted.cfg`, `SuppressedStaysSuppressed` | `#suppress` records nothing; a later pulse posts the comment |
| "a command posted between filing and the first pulse is still examined once" (issueSync.js:171-172) | `MCIssueCommandsMissed.cfg`, `NoCommandMissed` | comments that cannot be listed are none (`[]`), and the cursor moves on all the same |
| "That is what stops two overlapping pulses from clobbering each other" (state/store.js:220) | `MCPulseQueueTorn.cfg`, `NothingClobbered` | nothing holds the file between the read (store.js:233, 238) and the rename (store.js:202): what another pulse saved in between, a claim or a new task, is written over |
| "until every task is terminal (complete, failed, blocked, cancelled) or the drain hook says stop" (scheduler.js:157-158) | `MCScheduler.cfg`, with `~drain => st[s] # "pending"` for each step in `NothingLeftBehind` | if the pools list no model, what is ready fails (`NO_CANDIDATE`), nothing is under way, and the loop is left (scheduler.js:292) with the dependents pending; the run counts as drained, and the next pulse blocks them |
| "so a run is never lost" (state/prune.js:6; "nothing is lost", state/archive.js:6) | `MCParts.cfg` with `RunNeverLostAtAll` for `RunNeverLost` | archive.js:48 rewrites the month's archive in place: cut short, what was in it, whose files are deleted, is gone, and `readArchive` throws from then on |
| the batch is counted as sent (`this.sent += batch.length`, ops/usageReporter.js:86) | `MCParts.cfg`, `SentIsCounted` | the Worker answers 2xx if one record is valid, and lists the rejected ones (ops.js:182-193, 234), which the reporter does not look at |
| "An approved call runs once" (worker connectors/broker.js:529) | `MCParts.cfg` with `aRow[a].again = 0` in `ApprovedTakenOnce` | a remote MCP server that answers 5xx, or without a result, is taken for a legacy one, and `tools/call` is posted again (mcpClient.js:132, 159) |
| "longer than the workflow's 10-minute hard kill" (leases.js:25) | `MCLeases.cfg` with `RenewGap = 4`, `MutualExclusion` | the pulse passes five minutes (pulse.js:234) and renews only at a persist; a longer step loses its lease |
| "honoured at the next step boundary" (issueSync.js:316) | `MCPulseQueueDouble.cfg` with `Verbs = {"cancel"}`, `CancelReachesRunner` | a cancel read by an overlapping pulse is on another task object than the runner's |
| "issue closed before the task ran" (issueSync.js:244) | `MCTaskRunTwice.cfg`, `CancelledBeforeItRan` | it ran, delivered and closed the issue; its pulse died before the save |
| "a run that still fails is failed" (docs/RUNTIME.md:167-168) | `MCTaskRunTwice.cfg`, `FailedRunStaysFailed` | a fail verdict is not persisted and is judged anew on resume, after the failure was reported |
| the same | `MCTaskRunPrNumber.cfg`, `FailedRunOpensNoPr` | the self-improvement branch (pulse.js:825) comes before the look at the result |
| events are "totally ordered even across pulses" (observability/events.js:8-12) | `MCParts.cfg` with `Overlapping = TRUE`, `EventsKeptInOrder` | the sequence number is read once, at a pulse's first event; two pulses of one checkout give the same numbers |
| "a 429 holds the model until the reset" (worker ops.js:211) | `MCParts.cfg`, `LimitsNoted` | the first try is cut short after its insert; the second finds its rows there and notes no limit |
| what others changed is kept (checkpointer.js:13-19) | `MCParts.cfg`, `OthersChangesStay` | a rebuilt commit takes every file on disk, an older copy of a file another has updated included |
| "Cancels a task that is still queued so it is not dispatched" (worker tasks.js:83) | `MCWorkerLive.cfg`, `CancelledNotSent` | the tick has read the row before the cancel and posts it after |

Seen on the way, and not stated as properties:

* `pulse.pausedByOwner` is written and read nowhere.  `cancel()` and `retryTask()` of the Scheduler
  have no caller outside the tests.  The attempts of a step that was in flight are restored and said to
  "count toward the ceiling" (scheduler.js:201-202), but the loop counts from zero (scheduler.js:527).
* A cancel comment that is read twice (the cursor is the time of the list call) cancels a task that
  was retried in between.  A retry leaves `cancelRequested` and `pauseRequested` of the earlier
  life on the task (issueSync.js:304).  Comments beyond the first hundred are not read.
* Approvals are counted and then inserted, so two requests may exceed `MAX_PENDING`; an approval
  whose decider dies after the claim stays `approved` for ever.
* Two overlapping ticks may fire a schedule twice; one that dies after it moved a row loses that
  turn (schedules.js:343 moves first, by intention).
* A TTL or deadline ends "anything not yet finished" (reconcile.js:48), a task that another pulse
  runs under a live lease included: with `Expirable = {t1}` in `MCPulseQueueOverlap.cfg`, TLC finds a
  `RunningRecordKept` that fails.
* An exception out of `processTask` skips `leases.release` (pulse.js:582-584, no `finally`): the task is
  free only when the lease runs out (`LeftLeaseRunsOut`), while the pulse goes on to save and push.
* An event that is emitted just after quiet hours is told to nobody if the tick that reads it began in
  them (tick.js:19, notifyRouter.js:118): it is marked routed all the same (`nMuted` in `Notices`).
* A usage report of more than two hundred records is cut to two hundred, and the rest is dropped.
* The health table's "Auth failures never self-heal" (health.js:298) holds once no call is under way
  (`RejectedKeyStaysOut`): a late good answer overwrites the verdict.
* Review files are cut to thirty (reviewer/store.js:27), although the maintenance keeps sixty days of them
  (state/maintenance.js:23) before it archives what is left.

## 5. The proofs

Eight modules prove 46 theorems, for all sets of tasks, pulses, steps, models, requests, files and
so on, and all limits, under the named assumptions of the modules (each is as weak as the code
allows: limits are positive, `None` is none of the others, `Deps` relates tasks).  A theorem
either states a property of a run (`Spec => []P`, or the action property itself), a part of one that is
a conjunction, the types, or what an algorithm computes.
What it needs beyond the assumptions is an `ASSUME` of the theorem and is in the last column.

| Module | Theorem | States | Needs |
|---|---|---|---|
| `LeasesProofs` | `TypeCorrect` | `TypeOK` | |
| | `LeaseHeld` | `WorkerHoldsLease` | `RenewGap < TTL` |
| | `Exclusion` | `MutualExclusion` | `RenewGap < TTL` |
| | `NoLeftovers` | `OwnsOnlyItsWork` | |
| | `LeaseKept` | `LiveLeaseKept` | |
| | `Refinement` | `ImplementsExclusiveRun` | `RenewGap < TTL` |
| `LeaseFilesProofs` | `TypeCorrect` | `TypeOK` | |
| | `NoGhosts` | `NoGhostLease` | |
| | `NotAllRefused` | `SomebodyWins` | there is a process |
| `PulseQueueProofs` | `TypeCorrect` | `TypeOK` | |
| | `OneRunnerAtATime` | `OneRunner` | `~SlowRuns` |
| | `DependenciesComplete` | `DependenciesFirst` | |
| | `NothingIsLost` | `NoTaskLost` | |
| | `RecordIsKept` | `RunningRecordKept` | `~SlowRuns`, `Expirable = {}` |
| `SerialPulseProofs` | `DeathsAreBounded` | `AttemptCeiling` | `Serialized` |
| | `ResultsAreBounded` | `DeliveredOnce` | `Serialized` |
| | `OnlyARetryRevives` | `RevivedOnlyByRetry` | `Serialized` |
| `TaskRunProofs` | `GateIsAskedOnce` | `GateOnce` | |
| | `NoCommentTwice` | `KeyOnce` | `~ListFails` |
| | `DeliveredWithApproval` | `ApprovedFirst` | |
| | `CheckpointGoesWithTask` | `CheckpointMatchesTask` | |
| | `ResultBeforeClose` | `ClosedAfterResult` | |
| `SchedulerProofs` | `TypeCorrect` | `TypeOK` | |
| | `InputsAreFresh` | `FreshInputs` | |
| | `RefusedNotCalledAgain` | `NotCalledAgain` | |
| | `NothingIsLeftBehind` | `NothingLeftBehind` | an acyclic graph |
| | `PermitsAreExact` | `PermitsExact` | |
| | `Refinement` | `InOrder` | |
| `EngineProofs` | `QuotaIsNearlyKept` | `QuotaNearlyKept` | |
| | `RefusedKeysStayOut` | `RejectedKeyStaysOut` | |
| | `NoRunIsLost` | `RunNeverLost` | |
| | `UsageCountedOnce` | `CountedOnce` | |
| | `PushesKeepBoth` | `PushKeepsBoth` | |
| | `EventsAreKept` | `EventsKeptInOrder` | pulses one at a time, `MaxTorn < LookBack` |
| | `RunsAreAskedFor` | `RunsAskedFor` | |
| | `PlansCanRun` | `PlanCanRun` | |
| | `FindCycleIsExact` | `findCycle` finds a cycle if and only if there is one | |
| `WorkerProofs` | `ApprovalsTypeCorrect` | `ApprovalsTypeOK` | |
| | `ApprovedCallTakenOnce` | `ApprovedTakenOnce` | |
| | `RoutedEventsWereTold` | `RoutedWasTold` | |
| | `OneTaskForAPost` | `PostedOnce` | |
| | `KeysWereWritten` | `KeptKeysWereWritten` | |
| | `SentTasksSettle` | `TasksSettle`, of `WorkSettles` | `TasksGuards`, `ClocksRun` |
| | `MachinesSettle` | `VmsSettle`, of `WorkSettles` | `FleetGuards` |
| | `SecretHeals` | `CallbackHeals`, of `WorkerHeals` | `TickFairness`, `TokenGuards`, `QuietInTheEnd`, always again a new token |
| | `PulseComesBack` | `PulseKept`, of `WorkerHeals` | `KeeperFairness`, `KeeperGuards`, `TicksInTurn`, `MaxPulses > 0` |

### The hypotheses

None of those of a safety property is there only for the prover: without it the property fails, and TLC
has a trace of it.

* `RenewGap < TTL`, `~SlowRuns`: the same condition at two levels; no lease runs out under a pulse that
  works.  It is necessary: a step may take longer than a lease (section 4).
* `Expirable = {}`: the sweep ends a task whose TTL has passed even if another pulse runs it (section 4).
* `Serialized`: pulses run one after another, as the workflow's concurrency group has them.  Overlapping
  pulses break `DeliveredOnce` (section 4); the property says nothing of them.
* `~ListFails`: GitHub lists the comments when it is asked.  When it cannot, the code posts again
  (`KeyOnce` in `MCTaskRunLocal.cfg` with `ListFails = TRUE`).
* An acyclic graph: that the decomposer lets no other through is `PlansCanRun`.
* `MaxTorn < LookBack`: `#ensureSeq` reads the last lines of a file only, so as many torn lines in a row
  hide its last number (`EventsKeptInOrder` in `MCParts.cfg` with `LookBack = 2`); in the code it takes five
  pulses killed within an append, one after the other.  Pulses one at a time: section 4.

Those of the theorems on liveness:

* `FleetGuards`, `TasksGuards`, `TokenGuards`, `KeeperGuards` say when the fair actions are enabled, which
  follows from their guards, but not for the prover, to which `ENABLED A` is a formula it knows nothing of.
  TLC finds them true in every state of `MCWorkerLive.cfg` (as its `INVARIANTS`).
* `ClocksRun`: the clock of a task is set back finitely often.  `MaxSent` and `MaxLives` see to it in the run; without
  a bound a task may be sent, lost and marked again for ever, so the hypothesis is needed.
* `QuietInTheEnd`, `TicksInTurn`: in the end no call fails and nobody dies any more, and the owner, or an overlapping
  tick, does not interfere.  In the run `MaxFaults`, `MaxForced` and `MaxMisses` bound the losses; ticks go on
  overlapping there, so the run shows more than `PulseComesBack`, on a small instance.
* "Always again a new token" (`[]<>TokenLeft`): 32 random bytes have not been used before, or are forgotten.

### The arguments

Hardly any of the properties is inductive.  What has to be added, and why:

**Leases.**  Nothing in "no two pulses work on one task" keeps a claim away from a task whose lease
has run out.  `WorkerHoldsLease` does: the lease file of a worked-on task names its worker, and the
time left on it plus the time since the worker's last renewal is exactly `TTL`.  With
`RenewGap < TTL` the time left is then positive (`WorkersAreProtected`), so every claim, renewal,
sweep or release of another pulse takes the refused branch.  Exclusion follows because one file
has one owner.  `NoLeftovers` and `LeaseKept` need no condition: however slow a pulse, it owns no
lease but that of its task while it claims, one at most once it has died or thrown, and a running lease
is only removed by its owner.  For the refinement,
`Runner(t)` is the one pulse that works on `t`; each action begins a run, ends one or changes nothing.

**Lease files.**  `GInv` adds that only a process of this checkout has a live lease, since what was
on disk before has expired.  A read that ends in "not mine" saw another owner in the same step, and a
write makes the writer a holder, so no process leaves its own live lease behind.  A claim is
refused by the holder of a live lease, and by `NoGhostLease` that one is not itself refused: so not
all are.  That two may hold at once (`OneWinner` fails) does not matter to this.

**Queue, overlapping pulses.**  `FrameOK`, `CurrentOK` and `RecordsOK` are the types with what they
leave out (a pulse has a current task exactly while it works on one).  `HoldsLease` is
`WorkerHoldsLease` again.  `LoopOK` says what the records in `todo` have in common at each point of
a pulse, which no merge takes back as they are its own objects (`stray` included): from it
`DependenciesFirst`.  `KnownOrMerged`: a task of the file that a pulse does not have is one its next
save will merge or one it archived; so no save drops one.  Between the read and the rename of a save these two hold but for the tasks that were
written meanwhile (`unseen`), which are the exception in `NoTaskLost` and `RunningRecordKept`, and no
wider: a record is in it only from a rename of another pulse to the next read.  `RunningRecordKept` takes
`IdsAreFresh` (no record bears the id of a pulse that has not claimed its task),
`NotClaimedTwice`, and `StaleIsSeen`: of a task that another one runs, a pulse has the record of the
file, or its next save takes that one.

**Queue, one pulse after another.**  `SoloOK`: nothing has to be merged.  `CountsOK` relates the record
in memory, the record in the file, the deaths and the results of each task (`Tally`), for each stage
of the pulse: the deaths are in the attempts, the last one perhaps only as a status `running` with
nobody at work, which the next sweep counts; and every result but the last was followed by a death.
`SettledOK`: of a task that ended in the file, the record in memory has ended the same way, or was taken
up by a retry that the file does not know of; so what a save revives was revived by that retry.

**Run of a task.**  `RunsOK`: a run that has yet to begin has left no trace, and the first pulse of
a run has none until its comment; a stored checkpoint is of a run that has begun and has the verdict of its gate.
From it `GateOnce` and `KeyOnce`: a key is in the ledger, or on GitHub where `#remoteHas` finds it, or
nowhere.  `ApprovalsOK`: every copy of the task quotes what users answered, for the run they
answered about.  `LedgersOK` and `ClosingOK`: a ledger knows only of what was done, and what a
pulse that closes the issue has behind it.  `MatchOK`: the file says `running` until the pulse
saves the task, and by then the checkpoint is the one its new status needs; which holds of `files`
and of `durable`, hence after any lost push.

**Scheduler.**  `WorkOK` is about the locals of `#runWithRetry`: no more calls of this model, or changes
of model, than attempts; the models ahead have not failed at this step, the current one not for good.
`OrderOK`: whatever was dispatched has all it depends on, built on its latest outputs; a blocked step
has a dead dependency; no version is ahead of the round.  It is kept by a remediation because what is
sent back is closed under "built on" (`DownstreamIsClosed`), and by a pass because what is blocked
is exactly the closure of the dead (`BlockedIsExact`).  In an acyclic graph a pass that leaves the
loop with candidates listed then leaves no step that could run: take a pending one with no pending
dependency.  With none listed, that one fails for want of a candidate, and what is left waits for such a step.  `InOrder`
is the refinement of `OrderedWork`: an answer adds one step whose needs are done
(`CompleteInOrder`), a remediation takes back a closed set, and the rest changes nothing.
`GatesOK`: every step in a gate is there once, waits in a call of its pool, and nobody queues
while a permit is free, with any number of ghosts in the queue.

**Records of the engine.**  `CallsInv`: a provider that a call is at is no longer ahead of it, so one
call adds one to a full window at most.  `RecordsInv`: what is to be deleted is in the
archive of the same checkout, or in what is being written there, which has all that the write took away
until it ends.
`UsageInv`: what the Worker found valid in a try is in the ledger and nothing else, and a reporter that
believes its batch sent has the answer to its last try.
`GitInv`: of a file the pulse wrote, its disk has the last content, which nobody else has yet; of any
other, disk and HEAD agree.  `LogInv`: in each file the last line that can be read is within
`eTorn` lines of the end and has the highest number; so the number that `#ensureSeq` finds is at
least as high (`NextIsAbove`), and a summary that was written holds all events of the file to be removed.

**Commands on an issue.**  `Earned` says of a task's record, on disk and in the pulse, what its runs so
far were asked by: while it is queued or runs, one request more than runs that ended; once it has
ended, as many, of the requests up to its end alone.  So a retry that revives it is one more, however often it
was read before.  `CommandsInv` has it of both copies.  The loop over the comments is a recursive
function; that it is defined (`LoopIsDefined`) and what it leaves (`CommentsAreEarned`) are proved by its
least counterexample (`Least`, from the well-foundedness of `<`), since an induction theorem cannot be instantiated.

**Plans.**  The search of `findCycle` is a recursive function through nested loops, so it has first to be
shown that it has a value: two functions that agree on all visits with fewer than `n` steps ahead agree, after
one unfolding, on those with `n` (`RecursionEnds`, `WalkIsDefined`, `WalkIsOnly`).  Then `Sound`: while no cycle was
met, what is done has all it needs done, and in any set of it there is a step that waits for no other of the set; so a
graph that passes can be run.  Conversely (`VisitsQuiet`), where no step under way is waited for by the next one
(`WaitedFor`), the visit raises no alarm; so a graph that can be run passes.  `PlanCanRun` is kept through
the correction, the fallback and the park.

**Worker.**  `CallsOK`: a call that may still run is one that was approved and did not run, and only
one request carries it; one that may be sent again is a call to a remote MCP server that was sent once.  `TickOK`: a tick that has an event read a rule that names each channel
the event is owed to, and such a channel is still to do or has been told, unless the tick began in quiet
hours; then what it marks is in `nMuted`.  `HooksInv`: who has the
nonce, or a task, has spent the post; its copies meet the nonce or a signature too old, since a nonce
is kept longer than a signature lasts.  `KeysInv`: a request past the write to GitHub, or reading
the vault, carries a key that GitHub took.

**Worker, what must happen.**  A row is at work, then old, then no longer at work; each stage lasts until a fair
action ends it, and nothing leads back (`TaskRowsKept`, `FleetRowsKept`: no report makes an old row young but the start of
a run).  For the token: as long as the secret is not accepted, an issue under way goes on to its end (`TickAlone`)
and the next one, due since there is no active token or once the newest is old (`OldEnough`, `TokenOrder`), begins and
writes one.  For the keeper: as long as no pulse waits or has run, heartbeat, dispatch and failure only get old
(`KeeperAlone`), so the tick dispatches.  These are finitely many stages, which the temporal prover can put together.

Much of the work is in lemmas that say what one operator leaves (`ReconciledKeeps`, `OnwardMoves`,
`AppendedIsALine`, `AcquiredIsOK`, `BlockedIsExact`, ...), which are cited by name.

### Only model-checked

* `LeftLeaseRunsOut`, `NeverStuckRunning`, `RunEnds`, and `DueGetsItsTurn` of `WorkSettles`: liveness by a count that
  goes down (the time left, the attempts, the steps, the rows ahead), an induction within temporal logic that is
  out of the prover's reach here.
* `TasksSettle`, `VmsSettle`, `CallbackHeals` and `PulseKept` without the hypotheses above, hence `WorkSettles` and
  `WorkerHeals` as they stand.
* The type invariants of the parts of the engine and the Worker, except as far as the invariants
  above contain them.  (They are not in the lists of the runs, nor is `PermitsExact`; put in the place of a run's
  properties, they hold on all of its states.)

## 6. Not modelled

Less than a tenth of the repository's lines keeps state that several actors change, or has steps
whose order matters, and that is where the modules are.  The rest, with the reason:

* **The dashboard** (pages, components, fixtures, styles): a web client of the Worker's API.  It keeps
  no state of the system; what it asks of the Worker is in the Worker's modules as a request.
* **Generated and declarative code**: the connectors' manifests and the generated catalogue, the
  capability registry, prompt templates, the state schema's field lists.  Data, without steps.
* **Text processing**: the command parser, redaction, the extraction of JSON from model output, the
  policy's patterns, failure classification, verification checks, report and digest rendering, the
  cron parser.  Each is a function of its input without shared state; a model would repeat it
  character by character.  What they decide is a choice in the modules (`Unfit`, `Classes`, verdicts).
* **Pure I/O**: HTTP clients, model discovery, tools, the browser and shell agents, the chat page's
  streaming.  Their answers are choices, with loss, delay and failure.
* **Cryptography and sessions**: vault sealing, signatures, password hashing, OAuth code exchange.  The
  modules have what is accepted or refused (`Hooks`, `CallbackToken`), not how.
* **Reports beside the queue**: benchmark, research digests, ops checks, health pages, metrics: read and
  render.
* **Of modelled components**: `approve all` and approvals of a tool within a step; duplicate detection
  and priorities of issues; repair of a damaged state file; the daily brief's text; the legacy mode
  of the callback token.  `PROJECT.json` says for each component what is left out.

## 7. Plan

Proofs:

1. The type invariants of `CallbackToken`, `Schedules`, `WorkerTasks`, `Fleet` and `PulseKeeper` with their bounds
   (their proofs have what the liveness needs of them).
2. The steps of `PulseQueue` as steps of an abstract queue in which every request is delivered at most once
   for each death, without overlap.

Model, after that: `approve all` and tool approvals in `TaskRun`; the repair of a damaged `tasks.json`.
