----------------------------- MODULE Scheduler -----------------------------
(***************************************************************************)
(* The execution of one task graph: which steps are dispatched when, the   *)
(* attempts of a step and what its failures lead to, the permits of the    *)
(* agent pools, and the runs that a park, a spent budget, a crash or a     *)
(* failed verification makes of it.                                        *)
(*   src/src/orchestrator/scheduler.js, src/src/engine/orchestrate.js,     *)
(*   src/src/reliability/{retryPolicy,loopDetector,outputRepair}.js,       *)
(*   src/src/agents/AgentAdapter.js, src/src/lib/semaphore.js              *)
(*                                                                         *)
(* Which model answers what is the models' choice.  The router's scores    *)
(* are left out: any candidate may rank first.  A delay is an interleaving.*)
(* `queued' is no state of its own (it lasts no turn of the event loop),   *)
(* and nothing in src/src calls cancel() or retryTask().  The checkpoint   *)
(* is written with every settled step, so what the next pulse restores is  *)
(* a function of the states (a checkout that is lost is TaskRun's).        *)
(***************************************************************************)
EXTENDS Naturals, FiniteSets, Sequences

CONSTANTS
  Steps, Deps,       \* the graph: Deps[s], the steps s depends on
  Complexity,        \* Complexity[s]: rank of estimatedComplexity
  Models, PoolOf,    \* the models and the pool of each
  Listings,          \* the candidate lists a run may get: an adapter that throws lists nothing
  Freebuff,          \* the pool kept for the most complex step of a dispatch round
  Cap,               \* Cap[p]: maxConcurrency of pool p
  Classes,           \* the failure classes that occur
  Calls,             \* the tool calls (tool and arguments) a model may ask for
  MaxAttempts, MaxToolCalls, ToolLoopRepeats,
  MaxRemediations,
  Ghost              \* a call that nobody waits for any more

Pools == {PoolOf[m] : m \in Models}

ASSUME GraphAssumption ==
  /\ IsFiniteSet(Steps) /\ Steps # {} /\ Deps \in [Steps -> SUBSET Steps]
  /\ Complexity \in [Steps -> Nat] /\ Ghost \notin Steps
ASSUME PoolAssumption ==
  /\ DOMAIN PoolOf = Models /\ Listings \subseteq SUBSET Models
  /\ DOMAIN Cap = Pools /\ \A p \in Pools : Cap[p] \in Nat \ {0}
ASSUME LimitAssumption ==
  /\ {MaxAttempts, MaxToolCalls, ToolLoopRepeats} \subseteq Nat \ {0} /\ MaxRemediations \in Nat

VARIABLES
  run,     \* the run: at a pass of the dispatch loop, waiting for a step, over, or how it ended
  drain,   \* shouldDrain(): the pulse has no time left to start anything
  listed,  \* candidateModels: what the pools listed at the start of Scheduler.run()
  st,      \* the steps; "parked" is `failed' with error.park
  w,       \* w[s]: what #runWithRetry holds while s runs
  gate,    \* gate[p]: permits of pool p held by steps and by abandoned calls, and its queue
  round,   \* cp.remediations
  ver      \* ver[s]: the round in which the output of s was made

vars == <<run, drain, listed, st, w, gate, round, ver>>
-----------------------------------------------------------------------------
(* reliability/: the policy of each failure class. *)

Row(same, next, honor, stop) == [sameMax |-> same, nextMax |-> next, honorRetryAfter |-> honor, giveUp |-> stop]

POLICY ==
  [transient |-> Row(1, 2, FALSE, FALSE), rate_limited |-> Row(1, 2, TRUE, FALSE),
   provider_down |-> Row(0, 1, TRUE, FALSE), timeout |-> Row(0, 2, FALSE, FALSE),
   malformed_output |-> Row(2, 1, FALSE, FALSE), tool_error |-> Row(1, 0, FALSE, FALSE),
   budget_exhausted |-> Row(0, 1, FALSE, FALSE), permanent |-> Row(0, 2, FALSE, FALSE),
   policy_blocked |-> Row(0, 0, FALSE, TRUE), poisoned |-> Row(0, 0, FALSE, TRUE),
   cancelled |-> Row(0, 0, FALSE, TRUE)]

ASSUME ClassAssumption == Classes \subseteq DOMAIN POLICY

PARKABLE == {"rate_limited", "provider_down", "budget_exhausted"}

\* (A slip: one more call of a model than its row allows.)
AgainOnceMore(cls, r, long) ==
  /\ r.same <= POLICY[cls].sameMax + 1
  /\ ~(POLICY[cls].honorRetryAfter /\ long)

\* decideRetry(): r counts the attempt that just failed; `long' is a Retry-After above the inline cap.
Again(cls, r, long) ==
  /\ r.same <= POLICY[cls].sameMax
  /\ ~(POLICY[cls].honorRetryAfter /\ long)

Decision(cls, r, long) ==
  LET stop == IF cls \in PARKABLE THEN "park" ELSE "give-up" IN
  IF POLICY[cls].giveUp THEN "give-up"
  ELSE IF r.used >= MaxAttempts THEN stop
  ELSE IF Again(cls, r, long) THEN "retry-same"
  ELSE IF r.left # {} /\ r.hops < POLICY[cls].nextMax THEN "retry-next"
  ELSE stop
-----------------------------------------------------------------------------
(* lib/semaphore.js: the permits of a pool.  A call whose deadline passed stays behind as a ghost, *)
(* in its place in the queue or with its permit, until the adapter is done with it.                *)

Free == [in |-> {}, ghosts |-> 0, q |-> <<>>]
Held(g) == Cardinality(g.in) + g.ghosts

\* acquire()
Acquired(g, p, s) ==
  IF Held(g) < Cap[p] THEN [g EXCEPT !.in = @ \cup {s}] ELSE [g EXCEPT !.q = Append(@, s)]

\* release(), once the permit's holder is out of g: it goes straight to the head of the queue.
HandedOn(g) ==
  IF g.q = <<>> THEN g
  ELSE IF Head(g.q) = Ghost THEN [g EXCEPT !.q = Tail(@), !.ghosts = @ + 1]
  ELSE [g EXCEPT !.q = Tail(@), !.in = @ \cup {Head(g.q)}]

Left(g, s) == HandedOn([g EXCEPT !.in = @ \ {s}])

\* The deadline of the call that s waits for has passed.
Abandoned(g, s) ==
  IF s \in g.in THEN [g EXCEPT !.in = @ \ {s}, !.ghosts = @ + 1]
  ELSE [g EXCEPT !.q = [i \in DOMAIN @ |-> IF @[i] = s THEN Ghost ELSE @[i]]]
-----------------------------------------------------------------------------
SettledStates == {"complete", "failed", "parked", "blocked"}
Dead == {"failed", "parked", "blocked"}
At(s, where) == st[s] = "running" /\ w[s].at = where
Calling(s) == At(s, "call")
HasPermit(s) == s \in gate[PoolOf[w[s].cur]].in

Idle == [at |-> "off"]
Fresh(m, left) == [at |-> "start", cur |-> m, left |-> left, same |-> 0, used |-> 0, hops |-> 0,
                   seen |-> {}, asked |-> [c \in Calls |-> 0]]
Working == [at : {"start", "call", "tool", "sleep"}, cur : Models, left : SUBSET Models,
            same : 0..MaxAttempts - 1, used : 0..MaxAttempts - 1, hops : 0..MaxAttempts - 1,
            seen : SUBSET (Models \X (Classes \cup {"timeout"})), asked : [Calls -> 0..ToolLoopRepeats]]
Gate == [in : SUBSET Steps, ghosts : Nat, q : Seq(Steps \cup {Ghost})]

TypeOK ==
  /\ run \in {"pass", "wait", "over", "drained", "parked", "verify", "failed", "done", "killed"}
  /\ drain \in BOOLEAN /\ listed \in SUBSET Models
  /\ st \in [Steps -> {"pending", "running"} \cup SettledStates]
  /\ w \in [Steps -> Working \cup {Idle}] /\ \A s \in Steps : st[s] = "running" <=> w[s] # Idle
  /\ gate \in [Pools -> Gate]
  /\ round \in 0..MaxRemediations /\ ver \in [Steps -> 0..MaxRemediations]

Init ==
  /\ run = "pass" /\ drain = FALSE /\ listed \in Listings
  /\ st = [s \in Steps |-> "pending"] /\ w = [s \in Steps |-> Idle]
  /\ gate = [p \in Pools |-> Free]
  /\ round = 0 /\ ver = [s \in Steps |-> 0]
-----------------------------------------------------------------------------
(* The dispatch loop. *)

\* (A slip: only the steps right behind a failed one.)
BlockedNext == {s \in Steps : st[s] = "pending" /\ \E d \in Deps[s] : st[d] \in {"failed", "parked"}}

Hopeless(U) == {s \in Steps : st[s] = "pending" /\ \E d \in Deps[s] : st[d] \in Dead \/ d \in U}

\* #propagateBlocked(): the pending steps that a failed step makes hopeless, to a fixed point.
Blocked == {s \in Steps : \A U \in SUBSET Steps : Hopeless(U) \subseteq U => s \in U}

\* (A slip: a dependency only has to be on its way.)
ReadyEarly == {s \in Steps : st[s] = "pending" /\ \A d \in Deps[s] : st[d] # "pending"}

\* #readyTasks()
Ready == {s \in Steps : st[s] = "pending" /\ \A d \in Deps[s] : st[d] = "complete"}

\* Freebuff may be used by one of the most complex steps of the round only.
Candidates(s, reserved) == IF s = reserved THEN listed ELSE {m \in listed : PoolOf[m] # Freebuff}

\* One pass of #loop(): block, dispatch what is ready unless the budget is spent, then wait or leave.
\* A step without a candidate fails (NO_CANDIDATE); if nothing is started or under way, the loop is
\* left without blocking what depends on it.
Pass ==
  /\ run = "pass"
  /\ LET ready == IF drain THEN {} ELSE Ready
         blocked == Blocked IN
     \E reserved \in {s \in ready : \A t \in ready : Complexity[t] <= Complexity[s]} \cup {Ghost} :
       LET started == {s \in ready : Candidates(s, reserved) # {}} IN
       /\ reserved = Ghost <=> ready = {}
       /\ st' = [s \in Steps |->
                   CASE s \in blocked -> "blocked"
                     [] s \in started -> "running"
                     [] s \in ready \ started -> "failed"
                     [] OTHER -> st[s]]
       /\ \E first \in [started -> Models] :
            /\ \A s \in started : first[s] \in Candidates(s, reserved)
            /\ w' = [s \in Steps |->
                       IF s \in started THEN Fresh(first[s], Candidates(s, reserved) \ {first[s]}) ELSE w[s]]
       /\ run' = IF started = {} /\ \A s \in Steps : st[s] # "running" THEN "over" ELSE "wait"
  /\ UNCHANGED <<drain, listed, gate, round, ver>>

\* The clock reaches the point after which shouldDrain() says stop.
Drain == run \in {"pass", "wait", "verify"} /\ ~drain /\ drain' = TRUE
         /\ UNCHANGED <<run, listed, st, w, gate, round, ver>>
-----------------------------------------------------------------------------
(* One step: #runWithRetry(). *)

Update(s, r) == w' = [w EXCEPT ![s] = r]

\* The promise of s settles, and the loop that waits for it goes on.
Settle(s, state) ==
  /\ st' = [st EXCEPT ![s] = state]
  /\ Update(s, Idle)
  /\ ver' = IF state = "complete" THEN [ver EXCEPT ![s] = round] ELSE ver
  /\ run' = "pass"
  /\ UNCHANGED <<drain, listed, round>>

Continue(s, r) == Update(s, r) /\ UNCHANGED <<run, drain, listed, st, round, ver>>

\* execute(): the call enters the gate of its pool.
Enter(s) ==
  /\ At(s, "start")
  /\ LET p == PoolOf[w[s].cur] IN gate' = [gate EXCEPT ![p] = Acquired(@, p, s)]
  /\ Continue(s, [w[s] EXCEPT !.at = "call"])

\* An attempt failed: poisoned, or what decideRetry() says.  Two failures of a model are the same
\* only if they are of one class, and may be then.
Fail(s, cls) ==
  LET r == [w[s] EXCEPT !.used = @ + 1, !.same = @ + 1, !.seen = @ \cup {<<w[s].cur, cls>>}] IN
  \/ /\ <<r.cur, cls>> \in w[s].seen
     /\ cls \notin PARKABLE \cup {"malformed_output"}
     /\ Settle(s, "failed")
  \/ \E long \in BOOLEAN :
       LET d == Decision(cls, r, long) IN
       \/ d = "retry-same" /\ Continue(s, [r EXCEPT !.at = "sleep"])
       \/ d = "retry-next" /\ \E m \in r.left :
            Continue(s, [r EXCEPT !.at = "start", !.cur = m, !.left = @ \ {m}, !.same = 0, !.hops = @ + 1])
       \/ d = "park" /\ Settle(s, "parked")
       \/ d = "give-up" /\ Settle(s, "failed")

Release(s) == LET p == PoolOf[w[s].cur] IN gate' = [gate EXCEPT ![p] = Left(@, s)]

\* The model gives a usable answer.
Answer(s) == Calling(s) /\ HasPermit(s) /\ Release(s) /\ Settle(s, "complete")

\* It fails, or gives an answer that validateSubtaskOutput() refuses.
Refuse(s) == Calling(s) /\ HasPermit(s) /\ Release(s) /\ \E cls \in Classes : Fail(s, cls)

\* (A slip: the clock of a call starts when it gets its permit.)
DeadlineAtTheModel(s) ==
  /\ Calling(s) /\ HasPermit(s)
  /\ LET p == PoolOf[w[s].cur] IN gate' = [gate EXCEPT ![p] = Abandoned(@, s)]
  /\ Fail(s, "timeout")

\* #executeWithDeadline(): time is up, for the model or in the queue for it.
Deadline(s) ==
  /\ Calling(s)
  /\ LET p == PoolOf[w[s].cur] IN gate' = [gate EXCEPT ![p] = Abandoned(@, s)]
  /\ Fail(s, "timeout")

\* The adapter is done with a call nobody waits for any more.
GhostEnds(p) ==
  /\ gate[p].ghosts > 0
  /\ gate' = [gate EXCEPT ![p] = HandedOn([gate[p] EXCEPT !.ghosts = @ - 1])]
  /\ UNCHANGED <<run, drain, listed, st, w, round, ver>>

Total(f) == Cardinality({x \in Calls \X (1..ToolLoopRepeats) : x[2] <= f[x[1]]})

\* The model asks for a tool instead: the same call too often, or too many of them, is poison.
AskTool(s, c) ==
  /\ Calling(s) /\ HasPermit(s) /\ Release(s)
  /\ LET asked == [w[s].asked EXCEPT ![c] = @ + 1] IN
     IF asked[c] >= ToolLoopRepeats \/ Total(asked) > MaxToolCalls THEN Settle(s, "failed")
     ELSE Continue(s, [w[s] EXCEPT !.at = "tool", !.asked = asked])

\* invoke() returns within its own time limit, with a result or an error for the transcript...
ToolReturns(s) ==
  /\ At(s, "tool")
  /\ Continue(s, [w[s] EXCEPT !.at = "start"]) /\ UNCHANGED gate

\* ...or the call needs an approval, and the step parks.
ToolNeedsApproval(s) == At(s, "tool") /\ Settle(s, "parked") /\ UNCHANGED gate

\* The backoff before a retry of the same model is over.
Wake(s) ==
  /\ At(s, "sleep")
  /\ Continue(s, [w[s] EXCEPT !.at = "start"]) /\ UNCHANGED gate
-----------------------------------------------------------------------------
(* What becomes of the run: runOrchestration(), and the pulses after it. *)

\* resumeFrom: a step that is settled for good is restored, any other one starts over.
Restored(s) == IF st[s] \in {"complete", "failed"} THEN st[s] ELSE "pending"

\* The end of Scheduler.run() and what is made of it.
End ==
  /\ run = "over"
  /\ run' = CASE \E s \in Steps : st[s] = "pending" -> "drained"
              [] (\A s \in Steps : st[s] # "pending") /\ (\E s \in Steps : st[s] = "parked") -> "parked"
              [] (\A s \in Steps : st[s] \notin {"pending", "parked"})
                   /\ (\E s \in Steps : st[s] \in {"failed", "blocked"}) -> "failed"
              [] OTHER -> "verify"
  /\ UNCHANGED <<drain, listed, st, w, gate, round, ver>>

Verified == run = "verify" /\ run' = "done" /\ UNCHANGED <<drain, listed, st, w, gate, round, ver>>

\* (A slip: only the steps an issue names go back.)
OnlyNamed(T) == T

BuiltOn(U) == {s \in Steps : Deps[s] \cap U # {}}

\* remediationTargets(): the steps an issue names and all that was built on them.
Downstream(T) == {s \in Steps : \A U \in SUBSET Steps : T \cup BuiltOn(U) \subseteq U => s \in U}

\* The verdict is fail: the steps it is about are done again, or the task has failed.
Rejected ==
  /\ run = "verify"
  /\ IF round < MaxRemediations /\ ~drain
     THEN /\ \E T \in (SUBSET Steps) \ {{}} :
               st' = [s \in Steps |-> IF s \in Downstream(T) THEN "pending" ELSE st[s]]
          /\ round' = round + 1 /\ run' = "pass" /\ listed' \in Listings
     ELSE run' = "failed" /\ UNCHANGED <<st, listed, round>>
  /\ UNCHANGED <<drain, w, gate, ver>>

\* The process dies; what it had not settled is lost with it.
Crash ==
  /\ run \in {"pass", "wait", "over", "verify"}
  /\ run' = "killed"
  /\ st' = [s \in Steps |-> IF st[s] = "running" THEN "pending" ELSE st[s]]
  /\ w' = [s \in Steps |-> Idle] /\ gate' = [p \in Pools |-> Free]
  /\ UNCHANGED <<drain, listed, round, ver>>

\* A later pulse resumes the task from its checkpoint.
Resume ==
  /\ run \in {"drained", "parked", "killed"}
  /\ run' = "pass" /\ drain' = FALSE /\ listed' \in Listings
  /\ st' = [s \in Steps |-> Restored(s)] /\ gate' = [p \in Pools |-> Free]
  /\ UNCHANGED <<w, round, ver>>

Finished == run \in {"failed", "done"} /\ UNCHANGED vars

Step(s) == Enter(s) \/ Answer(s) \/ Refuse(s) \/ Deadline(s) \/ (\E c \in Calls : AskTool(s, c))
           \/ ToolReturns(s) \/ ToolNeedsApproval(s) \/ Wake(s)

Next ==
  \/ Pass \/ Drain \/ End \/ Verified \/ Rejected \/ Crash \/ Resume \/ Finished
  \/ \E s \in Steps : Step(s)
  \/ \E p \in Pools : GhostEnds(p)

\* The event loop gets to every pass, timer and answer that is due.  Models may answer or not:
\* the deadline is what is fair.
Fairness ==
  /\ WF_vars(Pass) /\ WF_vars(End)
  /\ \A s \in Steps : WF_vars(Enter(s)) /\ WF_vars(Deadline(s)) /\ WF_vars(Wake(s))
                      /\ WF_vars(ToolReturns(s) \/ ToolNeedsApproval(s))

Spec == Init /\ [][Next]_vars /\ Fairness
-----------------------------------------------------------------------------
(* #buildTaskContext() gives a step the outputs of the steps it depends on, and remediationTargets() *)
(* sends back what was built on an output that is made again: whatever runs or is done has been      *)
(* given the latest outputs, through any number of resumes and rounds.                               *)
FreshInputs ==
  \A s \in Steps : \A d \in Deps[s] :
    /\ st[s] \in {"running", "complete"} => st[d] = "complete"
    /\ st[s] = "complete" => ver[s] >= ver[d]

(* retryPolicy.js: no model is called again for a step it has answered with a permanent error or let *)
(* run into the deadline, in whatever order answers, deadlines, tool rounds and retries come.        *)
NotCalledAgain ==
  \A s \in Steps : \A cls \in {"permanent", "timeout", "budget_exhausted", "provider_down"} :
    st[s] = "running" => <<w[s].cur, cls>> \notin w[s].seen

(* The loop of the scheduler leaves a run only when nothing is in flight.  A step is left pending    *)
(* because the time is up, or because the pools listed no model at all: then what was ready has      *)
(* failed for want of one, and only what waits for such a step is left.  Every other step that       *)
(* depends on a failed one is blocked, and no other is.                                              *)
NothingLeftBehind ==
  run = "over" =>
    \A s \in Steps :
      /\ st[s] \in SettledStates \cup {"pending"}
      /\ st[s] = "pending" =>
           \/ drain /\ \A d \in Deps[s] : st[d] \notin Dead
           \/ ~drain /\ listed = {} /\ \E d \in Deps[s] : st[d] \in {"failed", "pending"}
      /\ st[s] # "pending" => (st[s] = "blocked" <=> \E d \in Deps[s] : st[d] \in Dead)

(* lib/semaphore.js: never more calls than a pool's cap, and nobody queues while a permit is free,   *)
(* with calls that are given up in the queue or at the model.                                        *)
PermitsExact ==
  \A p \in Pools : Held(gate[p]) <= Cap[p] /\ (gate[p].q # <<>> => Held(gate[p]) = Cap[p])

(* The scheduler with its retries, parks, crashes and rounds does a task graph in order.             *)
Order == INSTANCE OrderedWork WITH Work <- Steps, Needs <- Deps, done <- {s \in Steps : st[s] = "complete"}
InOrder == Order!Spec

(* Whatever models, pools and tools do, the dispatch loop comes to an end: the deadline covers the   *)
(* wait for a permit as well as the call.                                                            *)
RunEnds == run \in {"pass", "wait"} ~> run \notin {"pass", "wait"}
============================================================================
