--------------------------- MODULE SchedulerProofs ---------------------------
(***************************************************************************)
(* Theorems about Scheduler, for any task graph, models, pools and limits. *)
(*                                                                         *)
(* A step is settled, or goes on with another record of its attempts       *)
(* (StepsMove).  What the graph looks like after that, after a pass of the *)
(* dispatch loop, a crash, a resume or a round of remediation follows from *)
(* the states alone.                                                       *)
(***************************************************************************)
EXTENDS Scheduler, FiniteSetTheorems, SequenceTheorems, TLAPS

\* The failures after which a model is not called again for a step.
Once == {"permanent", "timeout", "budget_exhausted", "provider_down"}

\* What #runWithRetry holds: no more calls of this model, or changes of model, than attempts;
\* the models ahead have not failed, and this one not for good.
WorkOK(r) ==
  /\ r \in Working
  /\ r.same <= r.used /\ r.hops <= r.used
  /\ r.cur \notin r.left
  /\ \A m \in r.left : \A cls \in Classes \cup {"timeout"} : <<m, cls>> \notin r.seen
  /\ \A cls \in Once : <<r.cur, cls>> \notin r.seen

\* The variables but the gates keep their types, and nothing runs once the loop has been left.
StateOK ==
  /\ run \in {"pass", "wait", "over", "drained", "parked", "verify", "failed", "done", "killed"}
  /\ drain \in BOOLEAN /\ listed \in SUBSET Models
  /\ st \in [Steps -> {"pending", "running"} \cup SettledStates]
  /\ round \in 0..MaxRemediations /\ ver \in [Steps -> 0..MaxRemediations]
  /\ w \in [Steps -> Working \cup {Idle}]
  /\ \A s \in Steps : st[s] = "running" => WorkOK(w[s]) /\ run \in {"pass", "wait"}
  /\ \A s \in Steps : st[s] # "running" => w[s] = Idle

\* #runWithRetry's record of a step that runs is not the empty one.
LEMMA IdleIsNotWorking == Idle \notin Working
<1> SUFFICES ASSUME Idle \in Working PROVE FALSE
  OBVIOUS
<1>1. Idle.at \in {"start", "call", "tool", "sleep"}
  BY DEF Working
<1> QED BY <1>1 DEF Idle

\* retryPolicy.js: the rows of the classes in Once allow no second call of the model.
LEMMA OnceMeansOnce == \A cls \in Once : POLICY[cls].sameMax = 0
  BY DEF Once, POLICY, Row

\* decideRetry() goes on with an attempt to spare only, with the same model within its row, and
\* with another one if there is one.
LEMMA DecisionAllows ==
  ASSUME NEW cls, NEW r, r.used \in Nat, NEW long \in BOOLEAN,
         Decision(cls, r, long) \in {"retry-same", "retry-next"}
  PROVE  /\ r.used < MaxAttempts
         /\ Decision(cls, r, long) = "retry-same" => r.same <= POLICY[cls].sameMax
  BY LimitAssumption DEF Decision, Again

\* A step is settled, or goes on with a good record.
Moves(s) ==
  \/ \E state \in {"complete", "failed", "parked"} : Settle(s, state)
  \/ \E r : WorkOK(r) /\ Continue(s, r)

\* A record whose attempt has just failed: its counts have not been compared yet.
Failed == [at : {"start", "call", "tool", "sleep"}, cur : Models, left : SUBSET Models,
           same : Nat, used : Nat, hops : 0..MaxAttempts - 1,
           seen : SUBSET (Models \X (Classes \cup {"timeout"})), asked : [Calls -> 0..ToolLoopRepeats]]

Counted(x, y) == [x EXCEPT !.used = @ + 1, !.same = @ + 1, !.seen = @ \cup {<<x.cur, y>>}]

\* #runWithRetry counts a failed attempt and goes on with the same model or with another one.
LEMMA CountedAttempt ==
  ASSUME NEW x \in Working, NEW y \in Classes \cup {"timeout"},
         NEW r, r = Counted(x, y)
  PROVE  /\ r \in Failed
         /\ r.same = x.same + 1 /\ r.used = x.used + 1 /\ r.hops = x.hops
         /\ r.cur = x.cur /\ r.left = x.left /\ r.seen = x.seen \cup {<<x.cur, y>>}
<1>1. x.seen \cup {<<x.cur, y>>} \in SUBSET (Models \X (Classes \cup {"timeout"}))
  BY DEF Working
<1>2. x.used + 1 \in Nat /\ x.same + 1 \in Nat
  BY LimitAssumption DEF Working
<1> QED BY <1>1, <1>2 DEF Working, Failed, Counted

\* However an attempt fails, its step is settled or goes on with a model that may be called.
LEMMA FailMoves ==
  ASSUME NEW s \in Steps, WorkOK(w[s]), NEW cls \in Classes \cup {"timeout"}, Fail(s, cls)
  PROVE  Moves(s)
<1>0. PICK r : r = Counted(w[s], cls)
  OBVIOUS
<1>1. CASE Settle(s, "failed") \/ Settle(s, "parked")
  BY <1>1 DEF Moves
<1>2. w[s] \in Working
  BY DEF WorkOK
<1>3. /\ r \in Failed
      /\ r.same = w[s].same + 1 /\ r.used = w[s].used + 1 /\ r.hops = w[s].hops
      /\ r.cur = w[s].cur /\ r.left = w[s].left /\ r.seen = w[s].seen \cup {<<w[s].cur, cls>>}
  BY <1>0, <1>2, CountedAttempt
<1>6. /\ w[s].same \in Nat /\ w[s].used \in Nat /\ w[s].hops \in Nat
      /\ w[s].same <= w[s].used /\ w[s].hops <= w[s].used
  BY DEF WorkOK, Working
<1>7. r.used \in Nat
  BY <1>3 DEF Failed
<1>8. ASSUME NEW long \in BOOLEAN, Decision(cls, r, long) \in {"retry-same", "retry-next"}
      PROVE  /\ r.used < MaxAttempts
             /\ Decision(cls, r, long) = "retry-same" => r.same <= POLICY[cls].sameMax
  BY <1>7, <1>8, DecisionAllows
<1>4. ASSUME NEW long \in BOOLEAN, Decision(cls, r, long) = "retry-same",
             Continue(s, [r EXCEPT !.at = "sleep"])
      PROVE  Moves(s)
  <2>1. r.used < MaxAttempts /\ r.same <= POLICY[cls].sameMax
    BY <1>4, <1>8
  <2>2. cls \notin Once
    BY <1>3, <2>1, OnceMeansOnce DEF WorkOK, Working
  <2>3. [r EXCEPT !.at = "sleep"] \in Working
    <3>1. r.same \in 0..MaxAttempts - 1 /\ r.used \in 0..MaxAttempts - 1 /\ r.hops \in 0..MaxAttempts - 1
      BY <1>3, <1>6, <2>1, LimitAssumption
    <3> QED BY <1>3, <3>1 DEF Working, Failed
  <2>4. WorkOK([r EXCEPT !.at = "sleep"])
    <3>1. \A m \in r.left : \A c \in Classes \cup {"timeout"} : <<m, c>> \notin r.seen
      BY <1>3 DEF WorkOK
    <3>2. r.cur \notin r.left /\ r.same <= r.used /\ r.hops <= r.used
      BY <1>3, <1>6 DEF WorkOK
    <3>3. \A c \in Once : <<r.cur, c>> \notin r.seen
      BY <1>3, <2>2 DEF WorkOK
    <3>4. /\ [r EXCEPT !.at = "sleep"].same = r.same /\ [r EXCEPT !.at = "sleep"].used = r.used
          /\ [r EXCEPT !.at = "sleep"].hops = r.hops /\ [r EXCEPT !.at = "sleep"].cur = r.cur
          /\ [r EXCEPT !.at = "sleep"].left = r.left /\ [r EXCEPT !.at = "sleep"].seen = r.seen
      BY <1>3 DEF Failed
    <3> QED BY <2>3, <3>1, <3>2, <3>3, <3>4 DEF WorkOK
  <2> QED BY <1>4, <2>4 DEF Moves
<1>5. ASSUME NEW long \in BOOLEAN, Decision(cls, r, long) = "retry-next", NEW m \in r.left,
             Continue(s, [r EXCEPT !.at = "start", !.cur = m, !.left = @ \ {m}, !.same = 0, !.hops = @ + 1])
      PROVE  Moves(s)
  <2> DEFINE n == [r EXCEPT !.at = "start", !.cur = m, !.left = @ \ {m}, !.same = 0, !.hops = @ + 1]
  <2>1. r.used < MaxAttempts
    BY <1>5, <1>8
  <2>2. n \in Working
    <3>1. r.used \in 0..MaxAttempts - 1 /\ r.hops + 1 \in 0..MaxAttempts - 1 /\ 0 \in 0..MaxAttempts - 1
      BY <1>3, <1>6, <2>1, LimitAssumption
    <3> QED BY <1>3, <1>5, <3>1 DEF Working, Failed
  <2>3. /\ n.same = 0 /\ n.used = r.used /\ n.hops = r.hops + 1
        /\ n.cur = m /\ n.left = r.left \ {m} /\ n.seen = r.seen
    BY <1>3 DEF Failed
  <2>4. \A x \in r.left : \A c \in Classes \cup {"timeout"} : <<x, c>> \notin r.seen
    BY <1>3 DEF WorkOK
  <2>5. \A c \in Once : <<m, c>> \notin r.seen
    <3>1. \A c : <<m, c>> \in r.seen => c \in Classes \cup {"timeout"}
      BY <1>3 DEF WorkOK, Working
    <3> QED BY <2>4, <3>1
  <2>6. n.same <= n.used /\ n.hops <= n.used
    BY <1>3, <2>3 DEF WorkOK, Working
  <2> HIDE DEF n
  <2>7. WorkOK(n)
    BY <2>2, <2>3, <2>4, <2>5, <2>6 DEF WorkOK
  <2> QED BY <1>5, <2>7 DEF Moves, n
<1> QED BY <1>0, <1>1, <1>4, <1>5 DEF Fail, Counted

\* The record of a step that goes on to another place of #runWithRetry is as good as it was.
LEMMA Elsewhere ==
  ASSUME NEW r, WorkOK(r), NEW where \in {"start", "call", "tool", "sleep"}
  PROVE  WorkOK([r EXCEPT !.at = where])
<1>1. [r EXCEPT !.at = where] \in Working
  BY DEF WorkOK, Working
<1>2. /\ [r EXCEPT !.at = where].same = r.same /\ [r EXCEPT !.at = where].used = r.used
      /\ [r EXCEPT !.at = where].hops = r.hops /\ [r EXCEPT !.at = where].cur = r.cur
      /\ [r EXCEPT !.at = where].left = r.left /\ [r EXCEPT !.at = where].seen = r.seen
  BY DEF WorkOK, Working
<1> QED BY <1>1, <1>2 DEF WorkOK

\* The same of a step that has asked for a tool and waits for it.
LEMMA Asked ==
  ASSUME NEW r, WorkOK(r), NEW c \in Calls, r.asked[c] + 1 < ToolLoopRepeats
  PROVE  WorkOK([r EXCEPT !.at = "tool", !.asked = [r.asked EXCEPT ![c] = @ + 1]])
<1>1. [r.asked EXCEPT ![c] = @ + 1] \in [Calls -> 0..ToolLoopRepeats]
  BY LimitAssumption DEF WorkOK, Working
<1> DEFINE n == [r EXCEPT !.at = "tool", !.asked = [r.asked EXCEPT ![c] = @ + 1]]
<1>2. n \in Working
  BY <1>1 DEF WorkOK, Working
<1>3. /\ n.same = r.same /\ n.used = r.used /\ n.hops = r.hops /\ n.cur = r.cur
      /\ n.left = r.left /\ n.seen = r.seen
  BY <1>1 DEF WorkOK, Working
<1> HIDE DEF n
<1>4. WorkOK(n)
  BY <1>2, <1>3 DEF WorkOK
<1> QED BY <1>4 DEF n

\* Every step of #runWithRetry settles a running step, or goes on with it.
LEMMA StepsMove ==
  ASSUME StateOK, NEW s \in Steps, Step(s)
  PROVE  st[s] = "running" /\ Moves(s)
<1>1. st[s] = "running" /\ WorkOK(w[s])
  BY DEF StateOK, Step, Enter, Answer, Refuse, Deadline, AskTool, ToolReturns, ToolNeedsApproval, Wake, At, Calling
<1>2. CASE Enter(s)
  <2>1. WorkOK([w[s] EXCEPT !.at = "call"])
    BY <1>1, Elsewhere
  <2>2. Continue(s, [w[s] EXCEPT !.at = "call"])
    BY <1>2 DEF Enter
  <2> QED BY <1>1, <2>1, <2>2 DEF Moves
<1>3. CASE Answer(s) \/ ToolNeedsApproval(s)
  BY <1>1, <1>3 DEF Answer, ToolNeedsApproval, Moves
<1>4. CASE Refuse(s)
  <2>1. PICK cls \in Classes : Fail(s, cls)
    BY <1>4 DEF Refuse
  <2> QED BY <1>1, <2>1, FailMoves
<1>5. CASE Deadline(s)
  <2>1. Fail(s, "timeout")
    BY <1>5 DEF Deadline
  <2> QED BY <1>1, <2>1, FailMoves
<1>6. ASSUME NEW c \in Calls, AskTool(s, c)
      PROVE  Moves(s)
  <2>1. CASE Settle(s, "failed")
    BY <2>1 DEF Moves
  <2>2. CASE /\ ~([w[s].asked EXCEPT ![c] = @ + 1][c] >= ToolLoopRepeats)
             /\ Continue(s, [w[s] EXCEPT !.at = "tool", !.asked = [w[s].asked EXCEPT ![c] = @ + 1]])
    <3>1. w[s].asked[c] + 1 < ToolLoopRepeats
      BY <1>1, <2>2, LimitAssumption DEF WorkOK, Working
    <3>2. WorkOK([w[s] EXCEPT !.at = "tool", !.asked = [w[s].asked EXCEPT ![c] = @ + 1]])
      BY <1>1, <3>1, Asked
    <3> QED BY <2>2, <3>2 DEF Moves
  <2> QED BY <1>6, <2>1, <2>2 DEF AskTool
<1>7. CASE ToolReturns(s) \/ Wake(s)
  BY <1>1, <1>7, Elsewhere DEF ToolReturns, Wake, Moves
<1> QED BY <1>1, <1>2, <1>3, <1>4, <1>5, <1>6, <1>7 DEF Step
-----------------------------------------------------------------------------
(* The dispatch loop and what becomes of the run. *)

\* #propagateBlocked(): a fixed point, and every member has a reason.
LEMMA BlockedIsExact ==
  /\ Blocked \subseteq Steps /\ \A s \in Blocked : st[s] = "pending"
  /\ \A s \in Steps : s \in Blocked <=> s \in Hopeless(Blocked)
<1>1. Hopeless(Blocked) \subseteq Blocked
  <2> SUFFICES ASSUME NEW s \in Hopeless(Blocked), NEW U \in SUBSET Steps, Hopeless(U) \subseteq U
               PROVE  s \in U
    BY DEF Blocked, Hopeless
  <2>1. Blocked \subseteq U
    BY DEF Blocked
  <2> QED BY <2>1 DEF Hopeless
<1>2. Blocked \subseteq Hopeless(Blocked)
  <2>1. Hopeless(Hopeless(Blocked)) \subseteq Hopeless(Blocked)
    BY <1>1 DEF Hopeless
  <2>2. Hopeless(Blocked) \in SUBSET Steps
    BY DEF Hopeless
  <2> QED BY <2>1, <2>2 DEF Blocked
<1> QED BY <1>1, <1>2 DEF Hopeless

\* remediationTargets(): the steps of T and, with any step, all that was built on it.
LEMMA DownstreamIsClosed ==
  ASSUME NEW T \in SUBSET Steps
  PROVE  /\ Downstream(T) \subseteq Steps /\ T \subseteq Downstream(T)
         /\ \A s \in Steps : Deps[s] \cap Downstream(T) # {} => s \in Downstream(T)
<1>1. Downstream(T) \subseteq Steps /\ T \subseteq Downstream(T)
  BY DEF Downstream
<1>2. ASSUME NEW s \in Steps, NEW d \in Deps[s] \cap Downstream(T)
      PROVE  s \in Downstream(T)
  <2> SUFFICES ASSUME NEW U \in SUBSET Steps, T \cup BuiltOn(U) \subseteq U
               PROVE  s \in U
    BY DEF Downstream
  <2>1. d \in U
    BY <1>2 DEF Downstream
  <2> QED BY <1>2, <2>1 DEF BuiltOn
<1> QED BY <1>1, <1>2
-----------------------------------------------------------------------------
(* What a pass of the dispatch loop does to the steps. *)

Dispatchable == IF drain THEN {} ELSE Ready

\* Blocked steps are blocked, started ones run, ready ones without a model fail; if anything
\* is ready, and there are models, something is started; and the loop is left if nothing is under way.
Dispatched(started) ==
  /\ started \subseteq Dispatchable /\ (started = {} => Dispatchable = {} \/ listed = {})
  /\ st' = [s \in Steps |->
              CASE s \in Blocked -> "blocked"
                [] s \in started -> "running"
                [] s \in Dispatchable \ started -> "failed"
                [] OTHER -> st[s]]
  /\ w' \in [Steps -> Working \cup {Idle}]
  /\ \A s \in started : WorkOK(w'[s])
  /\ \A s \in Steps \ started : w'[s] = w[s]
  /\ run' = IF started = {} /\ \A s \in Steps : st[s] # "running" THEN "over" ELSE "wait"

\* A new record of #runWithRetry.
LEMMA FreshIsOK ==
  ASSUME NEW m \in Models, NEW left \in SUBSET Models
  PROVE  WorkOK(Fresh(m, left \ {m}))
<1>1. 0 \in 0..MaxAttempts - 1 /\ [c \in Calls |-> 0] \in [Calls -> 0..ToolLoopRepeats]
  BY LimitAssumption
<1>2. Fresh(m, left \ {m}) \in Working
  BY <1>1 DEF Fresh, Working
<1>3. /\ Fresh(m, left \ {m}).same = 0 /\ Fresh(m, left \ {m}).used = 0 /\ Fresh(m, left \ {m}).hops = 0
      /\ Fresh(m, left \ {m}).cur = m /\ Fresh(m, left \ {m}).left = left \ {m}
      /\ Fresh(m, left \ {m}).seen = {}
  BY DEF Fresh
<1> QED BY <1>2, <1>3 DEF WorkOK

\* The body of Pass for one choice of the step that may use Freebuff.
Begun(reserved, started) ==
  /\ st' = [s \in Steps |->
              CASE s \in Blocked -> "blocked"
                [] s \in started -> "running"
                [] s \in Dispatchable \ started -> "failed"
                [] OTHER -> st[s]]
  /\ \E first \in [started -> Models] :
       /\ \A s \in started : first[s] \in Candidates(s, reserved)
       /\ w' = [s \in Steps |->
                  IF s \in started THEN Fresh(first[s], Candidates(s, reserved) \ {first[s]}) ELSE w[s]]
  /\ run' = IF started = {} /\ \A s \in Steps : st[s] # "running" THEN "over" ELSE "wait"

\* #loop(): the most complex of the ready steps may have any of the models.
LEMMA PassDispatches ==
  ASSUME StateOK, Pass
  PROVE  \E started : Dispatched(started)
<1>1. PICK reserved \in {s \in Dispatchable : \A t \in Dispatchable : Complexity[t] <= Complexity[s]} \cup {Ghost} :
        /\ reserved = Ghost <=> Dispatchable = {}
        /\ Begun(reserved, {s \in Dispatchable : Candidates(s, reserved) # {}})
  BY DEF Pass, Dispatchable, Begun
<1>2. PICK started : /\ started = {s \in Dispatchable : Candidates(s, reserved) # {}}
                     /\ Begun(reserved, started)
  BY <1>1
<1>3. PICK first \in [started -> Models] :
        /\ \A s \in started : first[s] \in Candidates(s, reserved)
        /\ w' = [s \in Steps |->
                   IF s \in started THEN Fresh(first[s], Candidates(s, reserved) \ {first[s]}) ELSE w[s]]
  BY <1>2 DEF Begun
<1>4. started \subseteq Dispatchable /\ started \subseteq Steps
  BY <1>2 DEF Dispatchable, Ready
<1>5. started = {} => Dispatchable = {} \/ listed = {}
  <2> SUFFICES ASSUME Dispatchable # {}, listed # {} PROVE started # {}
    OBVIOUS
  <2>1. reserved \in Dispatchable
    BY <1>1
  <2>2. Candidates(reserved, reserved) # {}
    BY DEF Candidates
  <2> QED BY <1>2, <2>1, <2>2
<1>6. ASSUME NEW s \in started
      PROVE  WorkOK(w'[s])
  <2>1. first[s] \in Models /\ Candidates(s, reserved) \in SUBSET Models
    BY <1>3, <1>6 DEF Candidates, StateOK
  <2>2. w'[s] = Fresh(first[s], Candidates(s, reserved) \ {first[s]})
    BY <1>3, <1>4
  <2> QED BY <2>1, <2>2, FreshIsOK
<1>7. \A s \in Steps \ started : w'[s] = w[s]
  BY <1>3
<1>8. w' \in [Steps -> Working \cup {Idle}]
  <2>1. \A s \in Steps : w'[s] \in Working \cup {Idle}
    BY <1>6, <1>7 DEF StateOK, WorkOK
  <2>2. w' = [s \in Steps |-> w'[s]]
    BY <1>3
  <2> QED BY <2>1, <2>2
<1>9. Dispatched(started)
  BY <1>2, <1>4, <1>5, <1>6, <1>7, <1>8 DEF Dispatched, Begun
<1> QED BY <1>9

\* What a pass makes of one step.
LEMMA DispatchedSteps ==
  ASSUME StateOK, NEW started, Dispatched(started), NEW s \in Steps
  PROVE  /\ started \subseteq Steps /\ Dispatchable \subseteq Ready
         /\ st'[s] = "running" <=> s \in started \/ st[s] = "running"
         /\ st'[s] = "complete" <=> st[s] = "complete"
         /\ st'[s] = "parked" <=> st[s] = "parked"
         /\ st'[s] = "failed" <=> st[s] = "failed" \/ s \in Dispatchable \ started
         /\ st'[s] = "blocked" <=> st[s] = "blocked" \/ s \in Blocked
         /\ st'[s] = "pending" <=> st[s] = "pending" /\ s \notin Blocked /\ s \notin Dispatchable
<1>1. started \subseteq Dispatchable /\ Dispatchable \subseteq Ready /\ Ready \subseteq Steps
  BY DEF Dispatched, Dispatchable, Ready
<1>2. Ready \cap Blocked = {}
  <2> SUFFICES ASSUME NEW t \in Ready, t \in Blocked PROVE FALSE
    OBVIOUS
  <2>1. PICK d \in Deps[t] : st[d] \in Dead \/ d \in Blocked
    BY BlockedIsExact DEF Hopeless
  <2>2. st[d] = "complete"
    BY DEF Ready
  <2> QED BY <2>1, <2>2, BlockedIsExact DEF Dead
<1>3. /\ s \in Blocked => st[s] = "pending"
      /\ s \in Ready => st[s] = "pending"
      /\ st[s] \in {"pending", "running", "complete", "failed", "parked", "blocked"}
  BY BlockedIsExact DEF Ready, StateOK, SettledStates
<1>4. st'[s] = CASE s \in Blocked -> "blocked"
                 [] s \in started -> "running"
                 [] s \in Dispatchable \ started -> "failed"
                 [] OTHER -> st[s]
  BY DEF Dispatched
<1>5. CASE s \in Blocked
  BY <1>1, <1>2, <1>3, <1>4, <1>5
<1>6. CASE s \notin Blocked /\ s \in started
  BY <1>1, <1>2, <1>3, <1>4, <1>6
<1>7. CASE s \notin Blocked /\ s \notin started /\ s \in Dispatchable
  BY <1>1, <1>2, <1>3, <1>4, <1>7
<1>8. CASE s \notin Blocked /\ s \notin started /\ s \notin Dispatchable
  BY <1>1, <1>2, <1>3, <1>4, <1>8
<1> QED BY <1>5, <1>6, <1>7, <1>8
-----------------------------------------------------------------------------
\* #dispatch: a step that settles leaves no record of its attempts, and the loop goes on.
LEMMA SettleKeepsState ==
  ASSUME StateOK, NEW s \in Steps, st[s] = "running", NEW state \in {"complete", "failed", "parked"},
         Settle(s, state)
  PROVE  StateOK'
<1>1. /\ run' = "pass" /\ drain' = drain /\ listed' = listed /\ round' = round
      /\ st' = [st EXCEPT ![s] = state] /\ w' = [w EXCEPT ![s] = Idle]
      /\ ver' = IF state = "complete" THEN [ver EXCEPT ![s] = round] ELSE ver
  BY DEF Settle, Update
<1>2. st' \in [Steps -> {"pending", "running"} \cup SettledStates]
  BY <1>1 DEF StateOK, SettledStates
<1>3. w' \in [Steps -> Working \cup {Idle}] /\ ver' \in [Steps -> 0..MaxRemediations]
  BY <1>1 DEF StateOK
<1>4. \A t \in Steps : st'[t] = "running" => WorkOK(w'[t])
  BY <1>1 DEF StateOK
<1>5. \A t \in Steps : st'[t] # "running" => w'[t] = Idle
  BY <1>1 DEF StateOK
<1> QED BY <1>1, <1>2, <1>3, <1>4, <1>5 DEF StateOK

\* #runWithRetry goes on with a good record.
LEMMA ContinueKeepsState ==
  ASSUME StateOK, NEW s \in Steps, st[s] = "running", NEW r, WorkOK(r), Continue(s, r)
  PROVE  StateOK'
<1>1. /\ run' = run /\ drain' = drain /\ listed' = listed /\ round' = round /\ st' = st /\ ver' = ver
      /\ w' = [w EXCEPT ![s] = r]
  BY DEF Continue, Update
<1>2. w' \in [Steps -> Working \cup {Idle}]
  BY <1>1 DEF StateOK, WorkOK
<1>3. \A t \in Steps : st[t] = "running" => WorkOK(w'[t])
  BY <1>1 DEF StateOK
<1>4. \A t \in Steps : st[t] # "running" => w'[t] = Idle
  BY <1>1 DEF StateOK
<1> QED BY <1>1, <1>2, <1>3, <1>4 DEF StateOK

\* #loop(): what is started has a record, and the loop is left only when nothing is under way.
LEMMA PassKeepsState ==
  ASSUME StateOK, Pass
  PROVE  StateOK'
<1>1. PICK started : Dispatched(started)
  BY PassDispatches
<1>2. drain' = drain /\ listed' = listed /\ round' = round /\ ver' = ver
  BY DEF Pass
<1>3. st' \in [Steps -> {"pending", "running"} \cup SettledStates]
  <2>1. \A s \in Steps : st'[s] \in {"pending", "running"} \cup SettledStates
    BY <1>1 DEF Dispatched, StateOK, SettledStates
  <2>2. st' = [s \in Steps |-> st'[s]]
    BY <1>1 DEF Dispatched
  <2> QED BY <2>1, <2>2
<1>4. w' \in [Steps -> Working \cup {Idle}]
  BY <1>1 DEF Dispatched
<1>5. ASSUME NEW s \in Steps, st'[s] = "running"
      PROVE  WorkOK(w'[s]) /\ run' \in {"pass", "wait"}
  <2>1. s \in started \/ st[s] = "running"
    BY <1>1, <1>5, DispatchedSteps
  <2>2. run' \in {"pass", "wait"}
    BY <1>1, <2>1 DEF Dispatched
  <2>3. CASE s \in started
    BY <1>1, <2>2, <2>3 DEF Dispatched
  <2>4. CASE s \notin started
    BY <1>1, <2>1, <2>2, <2>4 DEF Dispatched, StateOK
  <2> QED BY <2>3, <2>4
<1>6. ASSUME NEW s \in Steps, st'[s] # "running"
      PROVE  w'[s] = Idle
  <2>1. s \notin started /\ st[s] # "running"
    BY <1>1, <1>6, DispatchedSteps
  <2> QED BY <1>1, <2>1 DEF Dispatched, StateOK
<1>7. run' \in {"over", "wait"}
  BY <1>1 DEF Dispatched
<1> QED BY <1>2, <1>3, <1>4, <1>5, <1>6, <1>7 DEF StateOK

\* Every action keeps StateOK: an end, a crash or a resume finds or leaves nothing running.
LEMMA StateIsKept == StateOK /\ [Next]_vars => StateOK'
<1> SUFFICES ASSUME StateOK, [Next]_vars PROVE StateOK'
  OBVIOUS
<1>1. CASE Pass
  BY <1>1, PassKeepsState
<1>2. CASE Drain
  BY <1>2 DEF Drain, StateOK
<1>3. CASE End
  BY <1>3 DEF End, StateOK
<1>4. CASE Verified
  BY <1>4 DEF Verified, StateOK
<1>5. CASE Rejected
  <2>1. \A s \in Steps : st[s] # "running"
    BY <1>5 DEF Rejected, StateOK
  <2>2. CASE run' = "failed" /\ UNCHANGED <<st, listed, round>>
    BY <1>5, <2>1, <2>2 DEF Rejected, StateOK
  <2>3. ASSUME round < MaxRemediations, NEW T \in SUBSET Steps,
               st' = [s \in Steps |-> IF s \in Downstream(T) THEN "pending" ELSE st[s]],
               round' = round + 1, run' = "pass", listed' \in Listings
        PROVE  StateOK'
    <3>1. st' \in [Steps -> {"pending", "running"} \cup SettledStates] /\ \A s \in Steps : st'[s] # "running"
      BY <2>1, <2>3 DEF StateOK
    <3>2. round' \in 0..MaxRemediations
      BY <2>3, LimitAssumption DEF StateOK
    <3>3. listed' \in SUBSET Models
      BY <2>3, PoolAssumption
    <3> QED BY <1>5, <2>1, <2>3, <3>1, <3>2, <3>3 DEF Rejected, StateOK
  <2> QED BY <1>5, <2>2, <2>3 DEF Rejected
<1>6. CASE Crash
  <2>1. st' \in [Steps -> {"pending", "running"} \cup SettledStates] /\ \A s \in Steps : st'[s] # "running"
    BY <1>6 DEF Crash, StateOK
  <2>2. w' \in [Steps -> Working \cup {Idle}] /\ \A s \in Steps : w'[s] = Idle
    BY <1>6 DEF Crash
  <2> QED BY <1>6, <2>1, <2>2 DEF Crash, StateOK
<1>7. CASE Resume
  <2>1. \A s \in Steps : st[s] # "running"
    BY <1>7 DEF Resume, StateOK
  <2>2. st' \in [Steps -> {"pending", "running"} \cup SettledStates] /\ \A s \in Steps : st'[s] # "running"
    BY <1>7, <2>1 DEF Resume, Restored, StateOK, SettledStates
  <2>3. listed' \in SUBSET Models
    BY <1>7, PoolAssumption DEF Resume
  <2> QED BY <1>7, <2>1, <2>2, <2>3 DEF Resume, StateOK
<1>8. ASSUME NEW s \in Steps, Step(s)
      PROVE  StateOK'
  BY <1>8, StepsMove, SettleKeepsState, ContinueKeepsState DEF Moves
<1>9. CASE UNCHANGED <<run, drain, listed, st, w, round, ver>>
  BY <1>9 DEF StateOK
<1> QED BY <1>1, <1>2, <1>3, <1>4, <1>5, <1>6, <1>7, <1>8, <1>9 DEF Next, GhostEnds, Finished, vars

\* It holds at the start.
LEMMA StateAtTheStart == Init => StateOK
<1> SUFFICES ASSUME Init PROVE StateOK
  OBVIOUS
<1>1. 0 \in 0..MaxRemediations
  BY LimitAssumption
<1>2. round \in 0..MaxRemediations /\ ver \in [Steps -> 0..MaxRemediations]
  BY <1>1 DEF Init
<1>3. /\ st \in [Steps -> {"pending", "running"} \cup SettledStates] /\ w \in [Steps -> Working \cup {Idle}]
      /\ \A s \in Steps : st[s] = "pending" /\ w[s] = Idle
  BY DEF Init
<1>4. listed \in SUBSET Models
  BY PoolAssumption DEF Init
<1> QED BY <1>2, <1>3, <1>4 DEF Init, StateOK
-----------------------------------------------------------------------------
\* What the states of the steps say about each other: a step that was dispatched has all it
\* depends on, and built on its latest outputs; a blocked one depends on one that failed.
OrderOK ==
  /\ \A s \in Steps : \A d \in Deps[s] :
       /\ st[s] \in {"running", "complete", "failed", "parked"} => st[d] = "complete"
       /\ st[s] = "complete" => ver[s] >= ver[d]
  /\ \A s \in Steps : st[s] = "blocked" => \E d \in Deps[s] : st[d] \in Dead
  /\ \A s \in Steps : ver[s] <= round

\* Deps names steps.
LEMMA DepsAreSteps == \A s \in Steps : Deps[s] \in SUBSET Steps
  BY GraphAssumption

\* The promise of a step settles: nothing that depends on it has been dispatched before.
LEMMA SettleKeepsOrder ==
  ASSUME StateOK, OrderOK, NEW s \in Steps, st[s] = "running",
         NEW state \in {"complete", "failed", "parked"}, Settle(s, state)
  PROVE  OrderOK'
<1>1. /\ round' = round /\ st'[s] = state /\ \A t \in Steps \ {s} : st'[t] = st[t]
      /\ \A t \in Steps \ {s} : ver'[t] = ver[t]
      /\ state = "complete" => ver'[s] = round
      /\ state # "complete" => ver'[s] = ver[s]
  BY DEF Settle, StateOK
<1>2. ASSUME NEW t \in Steps, NEW d \in Deps[t]
      PROVE  /\ st'[t] \in {"running", "complete", "failed", "parked"} => st'[d] = "complete"
             /\ st'[t] = "complete" => ver'[t] >= ver'[d]
  <2>1. d \in Steps
    BY <1>2, DepsAreSteps
  <2>2. CASE t = s
    <3>1. st[d] = "complete" /\ d # s
      BY <1>2, <2>2 DEF OrderOK
    <3> QED BY <1>1, <2>1, <2>2, <3>1 DEF OrderOK
  <2>3. CASE t # s /\ d = s
    BY <1>1, <1>2, <2>3 DEF OrderOK
  <2>4. CASE t # s /\ d # s
    BY <1>1, <1>2, <2>1, <2>4 DEF OrderOK
  <2> QED BY <2>2, <2>3, <2>4
<1>3. ASSUME NEW t \in Steps, st'[t] = "blocked"
      PROVE  \E d \in Deps[t] : st'[d] \in Dead
  <2>1. t # s /\ st[t] = "blocked"
    BY <1>1, <1>3
  <2>2. PICK d \in Deps[t] : st[d] \in Dead
    BY <2>1 DEF OrderOK
  <2>3. d \in Steps /\ d # s
    BY <2>2, DepsAreSteps DEF Dead
  <2> QED BY <1>1, <2>2, <2>3
<1>4. \A t \in Steps : ver'[t] <= round'
  <2>1. round <= round
    BY LimitAssumption DEF StateOK
  <2> QED BY <1>1, <2>1 DEF OrderOK
<1> QED BY <1>2, <1>3, <1>4 DEF OrderOK

\* #loop(): only what has its dependencies is dispatched, and nothing settled is touched.
LEMMA PassKeepsOrder ==
  ASSUME StateOK, OrderOK, Pass
  PROVE  OrderOK'
<1>1. PICK started : Dispatched(started)
  BY PassDispatches
<1>2. round' = round /\ ver' = ver
  BY DEF Pass
<1>3. ASSUME NEW t \in Steps, NEW d \in Deps[t]
      PROVE  /\ st'[t] \in {"running", "complete", "failed", "parked"} => st'[d] = "complete"
             /\ st'[t] = "complete" => ver'[t] >= ver'[d]
  <2>1. d \in Steps
    BY <1>3, DepsAreSteps
  <2>2. t \in Dispatchable => st[d] = "complete"
    BY <1>3 DEF Dispatchable, Ready
  <2>3. started \subseteq Dispatchable
    BY <1>1 DEF Dispatched
  <2>4. st'[t] \in {"running", "complete", "failed", "parked"}
          => t \in Dispatchable \/ st[t] \in {"running", "complete", "failed", "parked"}
    BY <1>1, <2>3, DispatchedSteps
  <2>5. st'[d] = "complete" <=> st[d] = "complete"
    BY <1>1, <2>1, DispatchedSteps
  <2>6. st'[t] = "complete" <=> st[t] = "complete"
    BY <1>1, DispatchedSteps
  <2> QED BY <1>2, <1>3, <2>2, <2>4, <2>5, <2>6 DEF OrderOK
<1>4. ASSUME NEW t \in Steps, st'[t] = "blocked"
      PROVE  \E d \in Deps[t] : st'[d] \in Dead
  <2>1. PICK d \in Deps[t] : st[d] \in Dead \/ d \in Blocked
    <3>1. CASE st[t] = "blocked"
      BY <3>1 DEF OrderOK
    <3>2. CASE t \in Blocked
      BY <3>2, BlockedIsExact DEF Hopeless
    <3> QED BY <1>1, <1>4, <3>1, <3>2, DispatchedSteps
  <2>2. d \in Steps
    BY <2>1, DepsAreSteps
  <2>3. st'[d] \in Dead
    BY <1>1, <2>1, <2>2, DispatchedSteps DEF Dead
  <2> QED BY <2>1, <2>3
<1> QED BY <1>2, <1>3, <1>4 DEF OrderOK

\* remediationTargets(): what goes back takes along all that was built on it.
LEMMA RejectedKeepsOrder ==
  ASSUME StateOK, OrderOK, Rejected
  PROVE  OrderOK'
<1>1. CASE UNCHANGED <<st, listed, round>>
  BY <1>1 DEF Rejected, OrderOK
<1>2. ASSUME NEW T \in SUBSET Steps, round' = round + 1,
             st' = [s \in Steps |-> IF s \in Downstream(T) THEN "pending" ELSE st[s]]
      PROVE  OrderOK'
  <2>1. ver' = ver
    BY DEF Rejected
  <2>2. ASSUME NEW t \in Steps, st'[t] # "pending", NEW d \in Deps[t]
        PROVE  st'[t] = st[t] /\ st'[d] = st[d] /\ d \in Steps
    <3>1. t \notin Downstream(T) /\ d \in Steps
      BY <1>2, <2>2, DepsAreSteps
    <3>2. d \notin Downstream(T)
      BY <2>2, <3>1, DownstreamIsClosed
    <3> QED BY <1>2, <3>1, <3>2
  <2>3. ASSUME NEW t \in Steps, NEW d \in Deps[t]
        PROVE  /\ st'[t] \in {"running", "complete", "failed", "parked"} => st'[d] = "complete"
               /\ st'[t] = "complete" => ver'[t] >= ver'[d]
    BY <2>1, <2>2, <2>3 DEF OrderOK
  <2>4. ASSUME NEW t \in Steps, st'[t] = "blocked"
        PROVE  \E d \in Deps[t] : st'[d] \in Dead
    <3>1. st[t] = "blocked"
      BY <1>2, <2>4
    <3>2. PICK d \in Deps[t] : st[d] \in Dead
      BY <3>1 DEF OrderOK
    <3> QED BY <2>2, <2>4, <3>2
  <2>5. \A t \in Steps : ver'[t] <= round'
    BY <1>2, <2>1, LimitAssumption DEF OrderOK, StateOK
  <2> QED BY <2>3, <2>4, <2>5 DEF OrderOK
<1> QED BY <1>1, <1>2 DEF Rejected

\* Every action keeps OrderOK: a resume restores what is complete or has failed, and the steps that
\* were parked or blocked start over.
LEMMA OrderIsKept == StateOK /\ OrderOK /\ [Next]_vars => OrderOK'
<1> SUFFICES ASSUME StateOK, OrderOK, [Next]_vars PROVE OrderOK'
  OBVIOUS
<1>1. CASE Pass
  BY <1>1, PassKeepsOrder
<1>2. CASE UNCHANGED <<st, round, ver>>
  BY <1>2 DEF OrderOK
<1>3. CASE Drain \/ End \/ Verified \/ Finished \/ \E p \in Pools : GhostEnds(p)
  BY <1>2, <1>3 DEF Drain, End, Verified, Finished, GhostEnds, vars
<1>4. CASE Rejected
  BY <1>4, RejectedKeepsOrder
<1>5. CASE Crash
  <2>1. round' = round /\ ver' = ver /\ \A s \in Steps : st'[s] = IF st[s] = "running" THEN "pending" ELSE st[s]
    BY <1>5 DEF Crash
  <2>2. ASSUME NEW t \in Steps, NEW d \in Deps[t]
        PROVE  d \in Steps /\ (st[d] = "complete" => st'[d] = "complete") /\ (st[d] \in Dead => st'[d] \in Dead)
    BY <2>1, <2>2, DepsAreSteps DEF Dead
  <2> QED BY <2>1, <2>2 DEF OrderOK
<1>6. CASE Resume
  <2>1. /\ round' = round /\ ver' = ver
        /\ \A s \in Steps : st'[s] = IF st[s] \in {"complete", "failed"} THEN st[s] ELSE "pending"
    BY <1>6 DEF Resume, Restored
  <2>2. ASSUME NEW t \in Steps, NEW d \in Deps[t]
        PROVE  d \in Steps /\ (st[d] = "complete" => st'[d] = "complete")
    BY <2>1, <2>2, DepsAreSteps
  <2>3. \A t \in Steps : st'[t] # "blocked"
    BY <2>1
  <2> QED BY <2>1, <2>2, <2>3 DEF OrderOK
<1>7. ASSUME NEW s \in Steps, Step(s)
      PROVE  OrderOK'
  <2>1. CASE \E r : Continue(s, r)
    BY <1>2, <2>1 DEF Continue
  <2> QED BY <1>7, <2>1, StepsMove, SettleKeepsOrder DEF Moves
<1>8. CASE UNCHANGED vars
  BY <1>2, <1>8 DEF vars
<1> QED BY <1>1, <1>3, <1>4, <1>5, <1>6, <1>7, <1>8 DEF Next

\* It holds at the start, when nothing has been dispatched.
LEMMA OrderAtTheStart == Init => OrderOK
  BY LimitAssumption, DepsAreSteps DEF Init, OrderOK

StepsInv == StateOK /\ OrderOK

\* StateOK and OrderOK always hold.
LEMMA StepsInvHolds == Spec => []StepsInv
<1>1. Init => StepsInv
  BY StateAtTheStart, OrderAtTheStart DEF StepsInv
<1>2. StepsInv /\ [Next]_vars => StepsInv'
  BY StateIsKept, OrderIsKept DEF StepsInv
<1> QED BY <1>1, <1>2, PTL DEF Spec

\* #buildTaskContext() and remediationTargets(): for any graph, and through any number of crashes,
\* resumes and rounds, what runs or is done has been given the latest outputs of what it depends on.
THEOREM InputsAreFresh == Spec => []FreshInputs
<1>1. StepsInv => FreshInputs
  BY DEF StepsInv, OrderOK, FreshInputs
<1> QED BY <1>1, StepsInvHolds, PTL

\* decideRetry(): for any models, classes and limits, a model that refused a step for good or let it
\* run into the deadline is not called for it again, wherever the step has been in between.
THEOREM RefusedNotCalledAgain == Spec => []NotCalledAgain
<1>1. StepsInv => NotCalledAgain
  BY DEF StepsInv, StateOK, WorkOK, Once, NotCalledAgain
<1> QED BY <1>1, StepsInvHolds, PTL
-----------------------------------------------------------------------------
\* The graphs that the decomposer lets through (Plans): no steps that wait for each other.
Acyclic == \A T \in SUBSET Steps : T # {} => \E s \in T : Deps[s] \cap T = {}

\* A pass that leaves the loop has nothing under way, nothing ready but what no model could be
\* found for, and blocks what is hopeless at its start.
LEMMA LeavingLeavesNothing ==
  ASSUME Acyclic, StateOK, OrderOK, Pass, run' = "over"
  PROVE  NothingLeftBehind'
<1>1. PICK started : Dispatched(started)
  BY PassDispatches
<1>2. started = {} /\ (Dispatchable = {} \/ listed = {}) /\ \A s \in Steps : st[s] # "running"
  BY <1>1 DEF Dispatched
<1>3. OrderOK' /\ StateOK'
  BY PassKeepsOrder, PassKeepsState
<1>4. drain' = drain /\ listed' = listed
  BY DEF Pass
<1>5. ASSUME NEW s \in Steps, st'[s] = "pending"
      PROVE  /\ st[s] = "pending" /\ s \notin Blocked /\ s \notin Dispatchable
             /\ \A d \in Deps[s] : d \in Steps /\ st[d] \notin Dead /\ d \notin Blocked
  <2>1. st[s] = "pending" /\ s \notin Blocked /\ s \notin Dispatchable
    BY <1>1, <1>5, DispatchedSteps
  <2> QED BY <2>1, DepsAreSteps, BlockedIsExact DEF Hopeless
<1>6. ASSUME NEW s \in Steps, st'[s] = "pending", drain
      PROVE  \A d \in Deps[s] : st'[d] \notin Dead
  <2>1. Dispatchable = {}
    BY <1>6 DEF Dispatchable
  <2>2. ASSUME NEW d \in Deps[s]
        PROVE  st'[d] \notin Dead
    <3>1. d \in Steps /\ st[d] \notin Dead /\ d \notin Blocked
      BY <1>5, <1>6, <2>2
    <3> QED BY <1>1, <1>2, <2>1, <3>1, DispatchedSteps DEF Dead
  <2> QED BY <2>2
<1>7. ASSUME NEW s \in Steps, st'[s] = "pending", ~drain
      PROVE  listed = {} /\ \E d \in Deps[s] : st'[d] \in {"failed", "pending"}
  <2>1. ASSUME NEW t \in Steps, st[t] = "pending", t \notin Blocked, t \notin Ready
        PROVE  \E d \in Deps[t] : d \in Steps /\ st[d] = "pending" /\ d \notin Blocked
    <3>1. PICK d \in Deps[t] : st[d] # "complete"
      BY <2>1 DEF Ready
    <3>2. d \in Steps /\ st[d] \notin Dead /\ d \notin Blocked
      BY <2>1, <3>1, DepsAreSteps, BlockedIsExact DEF Hopeless
    <3> QED BY <1>2, <3>1, <3>2 DEF StateOK, SettledStates, Dead
  <2>2. Dispatchable = Ready /\ s \notin Ready
    BY <1>5, <1>7 DEF Dispatchable
  <2>3. ASSUME Ready = {} PROVE FALSE
    <3> DEFINE T == {t \in Steps : st[t] = "pending" /\ t \notin Blocked}
    <3>1. s \in T /\ T \in SUBSET Steps
      BY <1>5, <1>7
    <3>2. PICK t \in T : Deps[t] \cap T = {}
      BY <3>1 DEF Acyclic
    <3> QED BY <2>1, <2>3, <3>2
  <2>4. PICK d \in Deps[s] : d \in Steps /\ st[d] = "pending" /\ d \notin Blocked
    BY <1>5, <1>7, <2>1, <2>2
  <2>5. st'[d] \in {"failed", "pending"}
    BY <1>1, <1>2, <2>4, DispatchedSteps
  <2> QED BY <1>2, <2>2, <2>3, <2>4, <2>5
<1>8. ASSUME NEW s \in Steps
      PROVE  /\ st'[s] \in SettledStates \cup {"pending"}
             /\ st'[s] # "pending" => (st'[s] = "blocked" <=> \E d \in Deps[s] : st'[d] \in Dead)
  <2>1. st'[s] \in {"pending"} \cup SettledStates
    BY <1>3 DEF StateOK
  <2>2. ASSUME NEW d \in Deps[s], st'[d] \in Dead
        PROVE  st'[s] \notin {"complete", "failed", "parked"}
    BY <1>3, <2>2 DEF OrderOK, Dead
  <2> QED BY <1>3, <2>1, <2>2 DEF OrderOK, SettledStates
<1> QED BY <1>4, <1>6, <1>7, <1>8 DEF NothingLeftBehind

\* Other actions than a pass do not bring the run to its end, and none is left to run at the end
\* but what leaves it.
LEMMA OverIsLeft ==
  ASSUME StateOK, [Next]_vars, ~Pass, run' = "over"
  PROVE  run = "over" /\ st' = st /\ drain' = drain /\ listed' = listed
<1>1. CASE \E s \in Steps : Step(s)
  <2>1. PICK s \in Steps : Step(s)
    BY <1>1
  <2>2. st[s] = "running" /\ Moves(s)
    BY <2>1, StepsMove
  <2>3. run \in {"pass", "wait"}
    BY <2>2 DEF StateOK
  <2> QED BY <2>2, <2>3 DEF Moves, Settle, Continue
<1>2. CASE Drain \/ End \/ Verified \/ Rejected \/ Crash \/ Resume \/ Finished
  BY <1>2 DEF Drain, End, Verified, Rejected, Crash, Resume, Finished, vars
<1>3. CASE UNCHANGED vars \/ \E p \in Pools : GhostEnds(p)
  BY <1>3 DEF GhostEnds, vars
<1> QED BY <1>1, <1>2, <1>3 DEF Next

\* #loop(): for any graph without a cycle and any list of candidates, the loop is left only when no
\* step can run any more, the time is up, or there was no model for what was ready; then only what
\* waits for that is left, and what else depends on a failed step is blocked.
THEOREM NothingIsLeftBehind == ASSUME Acyclic PROVE Spec => []NothingLeftBehind
<1>1. Init => NothingLeftBehind
  BY DEF Init, NothingLeftBehind
<1>2. StepsInv /\ NothingLeftBehind /\ [Next]_vars => NothingLeftBehind'
  <2> SUFFICES ASSUME StepsInv, NothingLeftBehind, [Next]_vars, run' = "over"
               PROVE  NothingLeftBehind'
    BY DEF NothingLeftBehind
  <2>1. CASE Pass
    BY <2>1, LeavingLeavesNothing DEF StepsInv
  <2>2. CASE ~Pass
    BY <2>2, OverIsLeft DEF StepsInv, NothingLeftBehind
  <2> QED BY <2>1, <2>2
<1> QED BY <1>1, <1>2, StepsInvHolds, PTL DEF Spec
-----------------------------------------------------------------------------
(* The refinement of OrderedWork. *)

Complete == {s \in Steps : st[s] = "complete"}

\* Only an answer completes a step, and only a round of remediation takes one back.
LEMMA CompleteInOrder ==
  ASSUME StepsInv, [Next]_vars
  PROVE  \/ Complete' = Complete
         \/ \E s \in Steps : Deps[s] \subseteq Complete /\ Complete' = Complete \cup {s}
         \/ \E T \in SUBSET Steps : Order!Closed(T) /\ Complete' = Complete \ T
<1>1. CASE UNCHANGED st
  BY <1>1 DEF Complete
<1>2. CASE Pass
  <2>1. PICK started : Dispatched(started)
    BY <1>2, PassDispatches DEF StepsInv
  <2> QED BY <2>1, DispatchedSteps DEF Complete, StepsInv
<1>3. CASE Drain \/ End \/ Verified \/ Finished \/ UNCHANGED vars \/ \E p \in Pools : GhostEnds(p)
  BY <1>1, <1>3 DEF Drain, End, Verified, Finished, GhostEnds, vars
<1>4. CASE Rejected
  <2>1. ASSUME NEW T \in SUBSET Steps,
               st' = [s \in Steps |-> IF s \in Downstream(T) THEN "pending" ELSE st[s]]
        PROVE  Order!Closed(Downstream(T)) /\ Complete' = Complete \ Downstream(T)
                 /\ Downstream(T) \in SUBSET Steps
    BY <2>1, DownstreamIsClosed DEF Complete, Order!Closed
  <2> QED BY <1>1, <1>4, <2>1 DEF Rejected
<1>5. CASE Crash \/ Resume
  BY <1>5 DEF Crash, Resume, Restored, Complete
<1>6. ASSUME NEW s \in Steps, Step(s)
      PROVE  Complete' = Complete \/ (Deps[s] \subseteq Complete /\ Complete' = Complete \cup {s})
  <2>1. st[s] = "running" /\ Moves(s)
    BY <1>6, StepsMove DEF StepsInv
  <2>2. CASE \E r : Continue(s, r)
    BY <1>1, <2>2 DEF Continue, Complete
  <2>3. ASSUME NEW state \in {"complete", "failed", "parked"}, Settle(s, state)
        PROVE  Complete' = Complete \/ (Deps[s] \subseteq Complete /\ Complete' = Complete \cup {s})
    <3>1. st'[s] = state /\ \A t \in Steps \ {s} : st'[t] = st[t]
      BY <2>3 DEF Settle, StepsInv, StateOK
    <3>2. Deps[s] \subseteq Complete
      BY <2>1, DepsAreSteps DEF StepsInv, OrderOK, Complete
    <3>3. state = "complete" => Complete' = Complete \cup {s}
      BY <3>1 DEF Complete
    <3>4. state # "complete" => Complete' = Complete
      BY <2>1, <3>1 DEF Complete
    <3> QED BY <3>2, <3>3, <3>4
  <2> QED BY <2>1, <2>2, <2>3 DEF Moves
<1> QED BY <1>2, <1>3, <1>4, <1>5, <1>6 DEF Next

\* scheduler.js and remediationTargets(): for any graph, models and limits, the scheduler with its
\* retries, parks, crashes and rounds does the steps in the order that OrderedWork allows.
THEOREM Refinement == Spec => InOrder
<1>1. Init => Order!Init
  BY DEF Init, Order!Init
<1>2. StepsInv /\ [Next]_vars => [Order!Next]_{s \in Steps : st[s] = "complete"}
  <2> SUFFICES ASSUME StepsInv, [Next]_vars
               PROVE  [Order!Next]_{s \in Steps : st[s] = "complete"}
    OBVIOUS
  <2> QED BY CompleteInOrder DEF Complete, Order!Next, Order!Finish, Order!SendBack
<1> QED BY <1>1, <1>2, StepsInvHolds, PTL DEF Spec, InOrder, Order!Spec
-----------------------------------------------------------------------------
(* lib/semaphore.js: the permits of one pool. *)

Queued(g, s) == \E i \in 1..Len(g.q) : g.q[i] = s
InGate(g, s) == s \in g.in \/ Queued(g, s)

\* No step is in the gate twice; free is how many permits of cap nobody holds at the moment.
Distinct(g) ==
  /\ g \in Gate
  /\ \A s \in g.in : ~Queued(g, s)
  /\ \A i, j \in 1..Len(g.q) : i # j /\ g.q[i] = g.q[j] => g.q[i] = Ghost

GateOK(g, cap) ==
  /\ Distinct(g)
  /\ Held(g) <= cap /\ (g.q # <<>> => Held(g) = cap)

\* Who holds a permit is counted as often as it comes and goes.
LEMMA Holders ==
  ASSUME NEW g \in Gate, NEW s \in Steps
  PROVE  /\ Cardinality(g.in) \in Nat
         /\ s \notin g.in => Cardinality(g.in \cup {s}) = Cardinality(g.in) + 1
         /\ s \in g.in => Cardinality(g.in \ {s}) = Cardinality(g.in) - 1
<1>1. IsFiniteSet(g.in)
  BY GraphAssumption, FS_Subset DEF Gate
<1> QED BY <1>1, FS_CardinalityType, FS_AddElement, FS_RemoveElement

\* What the moves of a holder and of a call that is given up make of the number of permits held.
LEMMA HeldChanges ==
  ASSUME NEW g \in Gate, NEW h \in Gate
  PROVE  /\ Held(g) \in Nat
         /\ h.in = g.in /\ h.ghosts = g.ghosts => Held(h) = Held(g)
         /\ h.in = g.in /\ h.ghosts = g.ghosts + 1 => Held(h) = Held(g) + 1
         /\ h.in = g.in /\ h.ghosts = g.ghosts - 1 => Held(h) = Held(g) - 1
         /\ \A s \in Steps \ g.in : h.in = g.in \cup {s} /\ h.ghosts = g.ghosts => Held(h) = Held(g) + 1
         /\ \A s \in Steps \cap g.in : h.in = g.in \ {s} /\ h.ghosts = g.ghosts => Held(h) = Held(g) - 1
         /\ \A s \in Steps \cap g.in : h.in = g.in \ {s} /\ h.ghosts = g.ghosts + 1 => Held(h) = Held(g)
<1>1. PICK c \in Nat : c = Cardinality(g.in)
  BY Holders, GraphAssumption
<1>2. PICK n \in Nat : n = g.ghosts
  BY DEF Gate
<1>3. Held(g) = c + n
  BY <1>1, <1>2 DEF Held
<1>4. /\ \A s \in Steps \ g.in : h.in = g.in \cup {s} => Cardinality(h.in) = c + 1
      /\ \A s \in Steps \cap g.in : h.in = g.in \ {s} => Cardinality(h.in) = c - 1
      /\ h.in = g.in => Cardinality(h.in) = c
  BY <1>1, Holders
<1>5. Held(h) = Cardinality(h.in) + h.ghosts
  BY DEF Held
<1> QED BY <1>1, <1>2, <1>3, <1>4, <1>5

\* acquire(): a call that is not in the gate enters it, with a permit or at the end of the queue.
LEMMA AcquiredIsOK ==
  ASSUME NEW p, Cap[p] \in Nat, NEW g, GateOK(g, Cap[p]), NEW s \in Steps, ~InGate(g, s)
  PROVE  /\ GateOK(Acquired(g, p, s), Cap[p])
         /\ \A t : InGate(Acquired(g, p, s), t) => InGate(g, t) \/ t = s
<1> USE DEF GateOK, Distinct, InGate, Queued
<1>1. CASE Held(g) < Cap[p]
  <2>1. PICK h : h = [g EXCEPT !.in = @ \cup {s}]
    OBVIOUS
  <2>2. h \in Gate /\ h.in = g.in \cup {s} /\ h.q = g.q /\ h.ghosts = g.ghosts
    BY <2>1 DEF Gate
  <2>3. g.q = <<>> /\ Held(h) = Held(g) + 1 /\ Held(g) \in Nat
    BY <1>1, <2>2, HeldChanges
  <2>4. h.q = <<>> /\ Len(h.q) = 0
    BY <2>2, <2>3
  <2> QED BY <1>1, <2>1, <2>2, <2>3, <2>4 DEF Acquired
<1>2. CASE ~(Held(g) < Cap[p])
  <2>1. PICK h : h = [g EXCEPT !.q = Append(@, s)]
    OBVIOUS
  <2>2. h \in Gate /\ h.in = g.in /\ h.q = Append(g.q, s) /\ h.ghosts = g.ghosts
    <3>1. g.q \in Seq(Steps \cup {Ghost}) /\ s \in Steps \cup {Ghost}
      BY DEF Gate
    <3>2. Append(g.q, s) \in Seq(Steps \cup {Ghost})
      BY <3>1, AppendProperties
    <3> QED BY <2>1, <3>2 DEF Gate
  <2>3. Held(h) = Held(g) /\ Held(g) = Cap[p]
    BY <1>2, <2>2, HeldChanges
  <2>4. /\ Len(h.q) = Len(g.q) + 1 /\ h.q[Len(h.q)] = s
        /\ \A i \in 1..Len(g.q) : h.q[i] = g.q[i]
    BY <2>2 DEF Gate
  <2>5. Len(g.q) \in Nat
    BY DEF Gate
  <2> HIDE DEF GateOK, Distinct, InGate, Queued
  <2>6. \A t : Queued(h, t) <=> Queued(g, t) \/ t = s
    <3>1. 1..Len(h.q) = 1..Len(g.q) \cup {Len(h.q)}
      BY <2>4, <2>5
    <3> QED BY <2>4, <3>1 DEF Queued
  <2>7. Distinct(h)
    <3>1. \A t \in h.in : ~Queued(h, t)
      BY <2>2, <2>6 DEF GateOK, Distinct, InGate
    <3>2. ASSUME NEW i \in 1..Len(h.q), NEW j \in 1..Len(h.q), i < j, h.q[i] = h.q[j]
          PROVE  h.q[i] = Ghost
      <4>1. i \in 1..Len(g.q) /\ (j \in 1..Len(g.q) \/ j = Len(h.q))
        BY <2>4, <2>5, <3>2
      <4>2. CASE j = Len(h.q)
        BY <2>4, <3>2, <4>1, <4>2 DEF InGate, Queued
      <4>3. CASE j \in 1..Len(g.q)
        BY <2>4, <3>2, <4>1, <4>3 DEF GateOK, Distinct
      <4> QED BY <4>1, <4>2, <4>3
    <3>3. \A i, j \in 1..Len(h.q) : i # j => i < j \/ j < i
      BY <2>4, <2>5
    <3> QED BY <2>2, <3>1, <3>2, <3>3 DEF Distinct
  <2>8. Acquired(g, p, s) = h
    BY <1>2, <2>1 DEF Acquired
  <2> QED BY <2>2, <2>3, <2>6, <2>7, <2>8 DEF GateOK, InGate
<1> QED BY <1>1, <1>2

\* release(): a permit that has just come free goes to the head of the queue, if there is one.
LEMMA HandedOnIsOK ==
  ASSUME NEW cap \in Nat, NEW g, Distinct(g), Held(g) + 1 <= cap, g.q # <<>> => Held(g) + 1 = cap
  PROVE  /\ GateOK(HandedOn(g), cap)
         /\ \A t : InGate(HandedOn(g), t) => InGate(g, t)
<1>0. g \in Gate /\ Held(g) \in Nat /\ g.q \in Seq(Steps \cup {Ghost})
  BY HeldChanges DEF Distinct, Gate
<1>1. CASE g.q = <<>>
  BY <1>0, <1>1 DEF HandedOn, GateOK
<1>2. CASE g.q # <<>>
  <2>1. PICK h : h = HandedOn(g)
    OBVIOUS
  <2>2. /\ Len(g.q) \in Nat \ {0} /\ Head(g.q) = g.q[1] /\ Tail(g.q) \in Seq(Steps \cup {Ghost})
        /\ Len(Tail(g.q)) = Len(g.q) - 1
        /\ \A i \in 1..Len(g.q) - 1 : Tail(g.q)[i] = g.q[i + 1]
    BY <1>0, <1>2
  <2>3. h \in Gate /\ h.q = Tail(g.q) /\ Held(h) = Held(g) + 1
          /\ h.in \subseteq g.in \cup {g.q[1]} /\ (Head(g.q) = Ghost => h.in = g.in)
    <3>1. CASE Head(g.q) = Ghost
      <4>1. h = [g EXCEPT !.q = Tail(@), !.ghosts = @ + 1]
        BY <1>2, <2>1, <3>1 DEF HandedOn
      <4>2. h \in Gate /\ h.q = Tail(g.q) /\ h.in = g.in /\ h.ghosts = g.ghosts + 1
        <5>1. g.ghosts + 1 \in Nat
          BY <1>0 DEF Gate
        <5>2. PICK n : n = g.ghosts + 1
          OBVIOUS
        <5>3. h = [g EXCEPT !.q = Tail(@), !.ghosts = n]
          BY <4>1, <5>2
        <5> QED BY <1>0, <2>2, <5>1, <5>2, <5>3 DEF Gate
      <4> QED BY <1>0, <3>1, <4>2, HeldChanges
    <3>2. CASE Head(g.q) # Ghost
      <4>1. h = [g EXCEPT !.q = Tail(@), !.in = @ \cup {Head(g.q)}]
        BY <1>2, <2>1, <3>2 DEF HandedOn
      <4>2. Head(g.q) \in Steps
        BY <1>0, <2>2, <3>2
      <4>3. h \in Gate /\ h.q = Tail(g.q) /\ h.in = g.in \cup {Head(g.q)} /\ h.ghosts = g.ghosts
        BY <1>0, <2>2, <4>1, <4>2 DEF Gate
      <4>4. Head(g.q) \notin g.in
        BY <2>2 DEF Distinct, Queued
      <4> QED BY <1>0, <2>2, <3>2, <4>2, <4>3, <4>4, HeldChanges
    <3> QED BY <3>1, <3>2
  <2>4. /\ Len(h.q) = Len(g.q) - 1
        /\ \A i \in 1..Len(h.q) : i + 1 \in 1..Len(g.q) /\ h.q[i] = g.q[i + 1]
    BY <2>2, <2>3
  <2>5. \A t : Queued(h, t) => Queued(g, t)
    BY <2>4 DEF Queued
  <2>6. Distinct(h)
    <3>1. ASSUME NEW t \in h.in, NEW i \in 1..Len(h.q), h.q[i] = t
          PROVE  FALSE
      <4>1. Queued(g, t) /\ t \in Steps
        BY <2>3, <2>5, <3>1 DEF Queued, Gate
      <4>2. t = g.q[1] /\ t \notin g.in /\ Head(g.q) # Ghost
        BY <2>2, <2>3, <3>1, <4>1 DEF Distinct
      <4>3. i + 1 \in 1..Len(g.q) /\ 1 \in 1..Len(g.q) /\ i + 1 # 1 /\ g.q[i + 1] = g.q[1]
        BY <2>2, <2>4, <3>1, <4>2
      <4> QED BY <2>2, <4>2, <4>3 DEF Distinct
    <3>2. ASSUME NEW i \in 1..Len(h.q), NEW j \in 1..Len(h.q), i # j, h.q[i] = h.q[j]
          PROVE  h.q[i] = Ghost
      <4>1. i + 1 \in 1..Len(g.q) /\ j + 1 \in 1..Len(g.q) /\ i + 1 # j + 1 /\ g.q[i + 1] = g.q[j + 1]
        BY <2>4, <3>2
      <4> QED BY <2>4, <4>1 DEF Distinct
    <3> QED BY <2>3, <3>1, <3>2 DEF Distinct, Queued
  <2>7. \A t : InGate(h, t) => InGate(g, t)
    BY <2>2, <2>3, <2>5 DEF InGate, Queued
  <2> QED BY <1>2, <2>1, <2>3, <2>6, <2>7 DEF GateOK
<1> QED BY <1>1, <1>2

\* A holder gives its permit back, to the queue if there is one.
LEMMA LeftIsOK ==
  ASSUME NEW cap \in Nat, NEW g, GateOK(g, cap), NEW s \in Steps, s \in g.in
  PROVE  /\ GateOK(Left(g, s), cap)
         /\ \A t : InGate(Left(g, s), t) => InGate(g, t) /\ t # s
<1>1. PICK h : h = [g EXCEPT !.in = @ \ {s}]
  OBVIOUS
<1>2. h \in Gate /\ h.in = g.in \ {s} /\ h.q = g.q /\ h.ghosts = g.ghosts
  BY <1>1 DEF GateOK, Distinct, Gate
<1>3. Held(h) = Held(g) - 1 /\ Held(g) \in Nat
  BY <1>2, HeldChanges DEF GateOK, Distinct
<1>4. Distinct(h) /\ \A t : InGate(h, t) => InGate(g, t) /\ t # s
  BY <1>2 DEF GateOK, Distinct, InGate, Queued
<1>5. Held(h) + 1 <= cap /\ (h.q # <<>> => Held(h) + 1 = cap)
  BY <1>2, <1>3 DEF GateOK
<1>6. GateOK(HandedOn(h), cap) /\ \A t : InGate(HandedOn(h), t) => InGate(h, t)
  BY <1>4, <1>5, HandedOnIsOK
<1> QED BY <1>1, <1>4, <1>6 DEF Left

\* A call that is given up stays, with its permit or in its place in the queue, as nobody's.
LEMMA AbandonedIsOK ==
  ASSUME NEW cap \in Nat, NEW g, GateOK(g, cap), NEW s \in Steps
  PROVE  /\ GateOK(Abandoned(g, s), cap)
         /\ \A t \in Steps : InGate(Abandoned(g, s), t) => InGate(g, t) /\ t # s
<1>0. g \in Gate /\ g.q \in Seq(Steps \cup {Ghost}) /\ Len(g.q) \in Nat /\ DOMAIN g.q = 1..Len(g.q)
  BY DEF GateOK, Distinct, Gate
<1>1. CASE s \in g.in
  <2>1. PICK n \in Nat : n = g.ghosts + 1
    BY <1>0 DEF Gate
  <2>2. PICK h : h = [g EXCEPT !.in = @ \ {s}, !.ghosts = n]
    OBVIOUS
  <2>3. h \in Gate /\ h.in = g.in \ {s} /\ h.q = g.q /\ h.ghosts = g.ghosts + 1
    BY <1>0, <2>1, <2>2 DEF Gate
  <2>4. Held(h) = Held(g)
    BY <1>0, <1>1, <2>3, HeldChanges
  <2>5. Distinct(h) /\ \A t : InGate(h, t) => InGate(g, t) /\ t # s
    BY <1>1, <2>3 DEF GateOK, Distinct, InGate, Queued
  <2>6. Abandoned(g, s) = h
    BY <1>1, <2>1, <2>2 DEF Abandoned
  <2> QED BY <2>3, <2>4, <2>5, <2>6 DEF GateOK
<1>2. CASE s \notin g.in
  <2>1. PICK q : q = [i \in 1..Len(g.q) |-> IF g.q[i] = s THEN Ghost ELSE g.q[i]]
    OBVIOUS
  <2>2. q \in Seq(Steps \cup {Ghost}) /\ Len(q) = Len(g.q)
    <3>1. \A i \in 1..Len(g.q) : g.q[i] \in Steps \cup {Ghost}
      BY <1>0
    <3>2. q \in [1..Len(g.q) -> Steps \cup {Ghost}]
      BY <2>1, <3>1
    <3> QED BY <1>0, <3>2
  <2>3. PICK h : h = [g EXCEPT !.q = q]
    OBVIOUS
  <2>4. h \in Gate /\ h.in = g.in /\ h.q = q /\ h.ghosts = g.ghosts
    BY <1>0, <2>2, <2>3 DEF Gate
  <2>5. Held(h) = Held(g)
    BY <1>0, <2>4, HeldChanges
  <2>6. \A i \in 1..Len(q) : /\ i \in 1..Len(g.q) /\ q[i] # s
                             /\ q[i] # Ghost => q[i] = g.q[i]
    BY <2>1, <2>2, GraphAssumption
  <2>7. \A t \in Steps : InGate(h, t) => InGate(g, t) /\ t # s
    BY <1>2, <2>4, <2>6, GraphAssumption DEF InGate, Queued
  <2>8. Distinct(h)
    <3>1. \A t \in h.in : ~Queued(h, t)
      BY <1>0, <2>4, <2>6, GraphAssumption DEF GateOK, Distinct, Queued, Gate
    <3>2. \A i, j \in 1..Len(q) : i # j /\ q[i] = q[j] => q[i] = Ghost
      BY <2>6 DEF GateOK, Distinct
    <3> QED BY <2>4, <3>1, <3>2 DEF Distinct
  <2>9. h.q = <<>> <=> g.q = <<>>
    BY <1>0, <2>2, <2>4
  <2>10. Abandoned(g, s) = h
    BY <1>0, <1>2, <2>1, <2>3 DEF Abandoned
  <2> QED BY <2>4, <2>5, <2>7, <2>8, <2>9, <2>10 DEF GateOK
<1> QED BY <1>1, <1>2

\* The adapter is done with a call that was given up: the permit goes on.
LEMMA GhostEndsIsOK ==
  ASSUME NEW cap \in Nat, NEW g, GateOK(g, cap), g.ghosts > 0, NEW h, h = [g EXCEPT !.ghosts = @ - 1]
  PROVE  GateOK(HandedOn(h), cap) /\ \A t : InGate(HandedOn(h), t) => InGate(g, t)
<1>1. PICK n \in Nat : n = g.ghosts - 1
  BY DEF GateOK, Distinct, Gate
<1>2. h \in Gate /\ h.in = g.in /\ h.q = g.q /\ h.ghosts = g.ghosts - 1
  <2>1. h = [g EXCEPT !.ghosts = n]
    BY <1>1
  <2> QED BY <1>1, <2>1 DEF GateOK, Distinct, Gate
<1>3. Held(h) = Held(g) - 1 /\ Held(g) \in Nat
  BY <1>2, HeldChanges DEF GateOK, Distinct
<1>4. Distinct(h) /\ \A t : InGate(h, t) => InGate(g, t)
  BY <1>2 DEF GateOK, Distinct, InGate, Queued
<1>5. Held(h) + 1 <= cap /\ (h.q # <<>> => Held(h) + 1 = cap)
  BY <1>2, <1>3 DEF GateOK
<1> QED BY <1>4, <1>5, HandedOnIsOK
-----------------------------------------------------------------------------
\* Every gate is in order, and the steps in it are those that wait in a call of its pool.
GatesOK ==
  /\ gate \in [Pools -> Gate]
  /\ \A p \in Pools : GateOK(gate[p], Cap[p])
  /\ \A p \in Pools : \A s \in Steps : InGate(gate[p], s) => At(s, "call") /\ p = PoolOf[w[s].cur]

\* An empty gate.
LEMMA FreeIsOK ==
  ASSUME NEW cap \in Nat
  PROVE  GateOK(Free, cap) /\ \A s : ~InGate(Free, s)
<1>1. Free.in = {} /\ Free.ghosts = 0 /\ Free.q = <<>> /\ Free \in Gate /\ Len(<<>>) = 0
  BY DEF Free, Gate
<1>2. Held(Free) = 0
  BY <1>1, FS_EmptySet DEF Held
<1>3. Distinct(Free) /\ \A s : ~InGate(Free, s)
  BY <1>1 DEF Distinct, InGate, Queued
<1> QED BY <1>1, <1>2, <1>3 DEF GateOK

\* A pool has a positive number of permits, and a model has a pool.
LEMMA PoolsAreCapped ==
  /\ \A p \in Pools : Cap[p] \in Nat
  /\ \A m \in Models : PoolOf[m] \in Pools
  BY PoolAssumption DEF Pools

\* One gate changes, and one step: the step is not left in the gate unless it waits in a call of it.
LEMMA OneGate ==
  ASSUME GatesOK, NEW s \in Steps, NEW p \in Pools, NEW h,
         \A t \in Steps \ {s} : st'[t] = st[t] /\ w'[t] = w[t],
         gate' = [gate EXCEPT ![p] = h], GateOK(h, Cap[p]),
         \A t \in Steps : InGate(h, t) => InGate(gate[p], t) \/ t = s,
         \A r \in Pools \ {p} : ~InGate(gate[r], s),
         InGate(h, s) => st'[s] = "running" /\ w'[s].at = "call" /\ p = PoolOf[w'[s].cur]
  PROVE  GatesOK'
<1>1. gate' \in [Pools -> Gate] /\ gate'[p] = h /\ \A r \in Pools \ {p} : gate'[r] = gate[r]
  BY DEF GatesOK, GateOK, Distinct
<1>2. ASSUME NEW r \in Pools, NEW t \in Steps, InGate(gate'[r], t)
      PROVE  st'[t] = "running" /\ w'[t].at = "call" /\ r = PoolOf[w'[t].cur]
  <2>1. CASE t = s
    BY <1>1, <1>2, <2>1
  <2>2. CASE t # s
    BY <1>1, <1>2, <2>2 DEF GatesOK, At
  <2> QED BY <2>1, <2>2
<1>3. \A r \in Pools : GateOK(gate'[r], Cap[r])
  BY <1>1 DEF GatesOK
<1> QED BY <1>1, <1>2, <1>3 DEF GatesOK, At

\* A step that settles or goes on leaves the others alone.
LEMMA OthersStay ==
  ASSUME StateOK, NEW s \in Steps, Moves(s)
  PROVE  \A t \in Steps \ {s} : st'[t] = st[t] /\ w'[t] = w[t]
<1>1. ASSUME NEW state, Settle(s, state)
      PROVE  \A t \in Steps \ {s} : st'[t] = st[t] /\ w'[t] = w[t]
  BY <1>1 DEF Settle, Update, StateOK
<1>2. ASSUME NEW r, Continue(s, r)
      PROVE  \A t \in Steps \ {s} : st'[t] = st[t] /\ w'[t] = w[t]
  BY <1>2 DEF Continue, Update, StateOK
<1> QED BY <1>1, <1>2 DEF Moves

\* execute(), an answer, a refusal, a deadline, a tool call or the end of a pause: a step enters the
\* gate of its pool, leaves it or is given up there, and is not in a gate when it moves elsewhere.
LEMMA StepsKeepGates ==
  ASSUME StateOK, GatesOK, NEW s \in Steps, Step(s)
  PROVE  GatesOK'
<1>1. /\ st[s] = "running" /\ Moves(s) /\ WorkOK(w[s])
      /\ \A t \in Steps \ {s} : st'[t] = st[t] /\ w'[t] = w[t]
  BY StepsMove, OthersStay DEF StateOK
<1>2. PICK p \in Pools : p = PoolOf[w[s].cur]
  BY <1>1, PoolsAreCapped DEF WorkOK, Working
<1>3. /\ Cap[p] \in Nat /\ GateOK(gate[p], Cap[p]) /\ gate \in [Pools -> Gate]
      /\ \A r \in Pools \ {p} : ~InGate(gate[r], s)
  BY <1>2, PoolsAreCapped DEF GatesOK
<1>4. CASE Enter(s)
  <2>1. /\ gate' = [gate EXCEPT ![p] = Acquired(gate[p], p, s)]
        /\ w' = [w EXCEPT ![s] = [w[s] EXCEPT !.at = "call"]] /\ st' = st
    BY <1>2, <1>4 DEF Enter, Continue, Update
  <2>2. w'[s].at = "call" /\ w'[s].cur = w[s].cur
    BY <1>1, <2>1 DEF StateOK, WorkOK, Working
  <2>3. ~InGate(gate[p], s)
    BY <1>4 DEF GatesOK, Enter, At
  <2>4. /\ GateOK(Acquired(gate[p], p, s), Cap[p])
        /\ \A t : InGate(Acquired(gate[p], p, s), t) => InGate(gate[p], t) \/ t = s
    BY <1>3, <2>3, AcquiredIsOK
  <2> QED BY <1>1, <1>2, <1>3, <2>1, <2>2, <2>4, OneGate
<1>5. CASE Answer(s) \/ Refuse(s) \/ \E c \in Calls : AskTool(s, c)
  <2>1. s \in gate[p].in /\ gate' = [gate EXCEPT ![p] = Left(gate[p], s)]
    BY <1>2, <1>5 DEF Answer, Refuse, AskTool, HasPermit, Release
  <2>2. /\ GateOK(Left(gate[p], s), Cap[p])
        /\ \A t : InGate(Left(gate[p], s), t) => InGate(gate[p], t) /\ t # s
    BY <1>3, <2>1, LeftIsOK
  <2> QED BY <1>1, <1>3, <2>1, <2>2, OneGate
<1>6. CASE Deadline(s)
  <2>1. gate' = [gate EXCEPT ![p] = Abandoned(gate[p], s)]
    BY <1>2, <1>6 DEF Deadline
  <2>2. /\ GateOK(Abandoned(gate[p], s), Cap[p])
        /\ \A t \in Steps : InGate(Abandoned(gate[p], s), t) => InGate(gate[p], t) /\ t # s
    BY <1>3, AbandonedIsOK
  <2> QED BY <1>1, <1>3, <2>1, <2>2, OneGate
<1>7. CASE ToolReturns(s) \/ ToolNeedsApproval(s) \/ Wake(s)
  <2>1. gate' = gate /\ ~At(s, "call")
    BY <1>7 DEF ToolReturns, ToolNeedsApproval, Wake, At
  <2>2. \A r \in Pools : ~InGate(gate[r], s)
    BY <2>1 DEF GatesOK
  <2>3. \A t \in Steps, r \in Pools : InGate(gate[r], t) => t # s
    BY <2>2
  <2> QED BY <1>1, <2>1, <2>3 DEF GatesOK, At
<1> QED BY <1>4, <1>5, <1>6, <1>7 DEF Step

\* Every action keeps the gates in order: a new run starts with new ones.
LEMMA GatesAreKept == StateOK /\ GatesOK /\ [Next]_vars => GatesOK'
<1> SUFFICES ASSUME StateOK, GatesOK, [Next]_vars PROVE GatesOK'
  OBVIOUS
<1>1. CASE gate' = [p \in Pools |-> Free]
  BY <1>1, FreeIsOK, PoolsAreCapped DEF GatesOK, GateOK, Distinct
<1>2. CASE gate' = gate /\ \A s \in Steps : st[s] = "running" => st'[s] = "running" /\ w'[s] = w[s]
  BY <1>2 DEF GatesOK, At
<1>3. CASE Pass
  <2>1. PICK started : Dispatched(started)
    BY <1>3, PassDispatches
  <2>2. ASSUME NEW s \in Steps, st[s] = "running"
        PROVE  st'[s] = "running" /\ w'[s] = w[s]
    <3>1. s \notin started
      BY <2>1, <2>2 DEF Dispatched, Dispatchable, Ready
    <3> QED BY <2>1, <2>2, <3>1, DispatchedSteps DEF Dispatched
  <2> QED BY <1>2, <1>3, <2>2 DEF Pass
<1>4. CASE Drain \/ End \/ Verified \/ Finished \/ UNCHANGED vars
  BY <1>2, <1>4 DEF Drain, End, Verified, Finished, vars
<1>5. CASE Rejected
  BY <1>2, <1>5 DEF Rejected, StateOK
<1>6. CASE Crash \/ Resume
  BY <1>1, <1>6 DEF Crash, Resume
<1>7. ASSUME NEW s \in Steps, Step(s)
      PROVE  GatesOK'
  BY <1>7, StepsKeepGates
<1>8. ASSUME NEW p \in Pools, GhostEnds(p)
      PROVE  GatesOK'
  <2>1. PICK h : h = [gate[p] EXCEPT !.ghosts = @ - 1]
    OBVIOUS
  <2>2. gate' = [gate EXCEPT ![p] = HandedOn(h)] /\ st' = st /\ w' = w /\ gate[p].ghosts > 0
    <3>1. gate' = [gate EXCEPT ![p] = HandedOn([gate[p] EXCEPT !.ghosts = @ - 1])]
      BY <1>8 DEF GhostEnds
    <3> QED BY <1>8, <2>1, <3>1 DEF GhostEnds
  <2>3. GateOK(gate[p], Cap[p]) /\ Cap[p] \in Nat
    BY PoolsAreCapped DEF GatesOK
  <2>4. GateOK(HandedOn(h), Cap[p]) /\ \A t : InGate(HandedOn(h), t) => InGate(gate[p], t)
    BY <2>1, <2>2, <2>3, GhostEndsIsOK
  <2>5. gate' \in [Pools -> Gate] /\ gate'[p] = HandedOn(h) /\ \A r \in Pools \ {p} : gate'[r] = gate[r]
    BY <2>2, <2>4 DEF GatesOK, GateOK, Distinct
  <2> QED BY <2>2, <2>4, <2>5 DEF GatesOK, At
<1> QED BY <1>3, <1>4, <1>5, <1>6, <1>7, <1>8 DEF Next

\* The gates are always in order.
LEMMA GatesHold == Spec => []GatesOK
<1>1. Init => GatesOK
  BY FreeIsOK, PoolsAreCapped DEF Init, GatesOK, GateOK, Distinct
<1>2. StepsInv /\ GatesOK /\ [Next]_vars => GatesOK'
  BY GatesAreKept DEF StepsInv
<1> QED BY <1>1, <1>2, StepsInvHolds, PTL DEF Spec

\* lib/semaphore.js: for any pools, caps, steps and deadlines, no pool has more calls than permits,
\* and nobody queues while a permit is free.
THEOREM PermitsAreExact == Spec => []PermitsExact
<1>1. GatesOK => PermitsExact
  BY DEF GatesOK, GateOK, PermitsExact
<1> QED BY <1>1, GatesHold, PTL

\* Every variable of the scheduler keeps its type, for any graph, models, classes and limits.
THEOREM TypeCorrect == Spec => []TypeOK
<1>1. StepsInv /\ GatesOK => TypeOK
  <2> SUFFICES ASSUME StepsInv, GatesOK PROVE TypeOK
    OBVIOUS
  <2>1. ASSUME NEW s \in Steps
        PROVE  st[s] = "running" <=> w[s] # Idle
    BY IdleIsNotWorking DEF StepsInv, StateOK, WorkOK
  <2> QED BY <2>1 DEF StepsInv, StateOK, GatesOK, TypeOK
<1> QED BY <1>1, StepsInvHolds, GatesHold, PTL
=============================================================================
