-------------------------- MODULE PulseQueueProofs --------------------------
(***************************************************************************)
(* Proofs about PulseQueue, for any tasks, pulses, dependencies and limits *)
(* that its assumptions allow.                                             *)
(***************************************************************************)
EXTENDS PulseQueue, TLAPS

(***************************************************************************)
(* The frame of a pulse: everything but the task records.                  *)
(***************************************************************************)

\* The types of all variables but disk, mem and stray; whose lease is live is known.
FrameOK ==
  /\ ckpt \subseteq Tasks
  /\ lock \in [Tasks -> [owner : Pulses \cup {None}, live : BOOLEAN]]
  /\ \A t \in Tasks : lock[t].live => lock[t].owner \in Pulses
  /\ aged \subseteq Pulses \X Tasks
  /\ issue \in [Tasks -> Issue]
  /\ pc \in [Pulses -> PC]
  /\ todo \in [Pulses -> SUBSET Tasks]
  /\ cur \in [Pulses -> Tasks \cup {None}]
  /\ owned \in [Pulses -> SUBSET Tasks]
  /\ changed \in [Pulses -> SUBSET Tasks]
  /\ foreign \in [Pulses -> BOOLEAN]
  /\ save \in [Pulses -> SavePhases]
  /\ unseen \in [Pulses -> SUBSET Tasks]
  /\ view \in [Pulses -> [Tasks -> Issue]]
  /\ mode \in [Pulses -> {"go", "drain", "kill"}]
  /\ gone \subseteq Tasks
  /\ delivered \in [Tasks -> Nat]
  /\ deaths \in [Tasks -> 0..MaxAttempts]

\* A pulse has a current task exactly while it works on one, and has leased it.
CurrentOK ==
  \A p \in Pulses :
    /\ pc[p] \in {"claimed", "run", "ran"} <=> cur[p] # None
    /\ cur[p] # None => cur[p] \in owned[p] /\ cur[p] \notin todo[p]

\* The limits are numbers: a task may be attempted at least once (task.maxAttempts).
LEMMA LimitsAreNumbers == MaxAttempts \in Nat /\ MaxAttempts >= 1 /\ MaxClaims \in Nat
  BY LimitsAssumption

\* The frame keeps its types, whatever a pulse, a user or the clock does.
LEMMA FrameInductive == FrameOK /\ CurrentOK /\ [Next]_vars => FrameOK'
<1> SUFFICES ASSUME FrameOK, CurrentOK, [Next]_vars PROVE FrameOK'
  OBVIOUS
<1> USE DEF PC, Goto, SavePhases, diskVars, fileVars, leaseVars, history
<1>1. ASSUME NEW t \in Tasks, NEW verb \in Verbs, Post(t, verb) PROVE FrameOK'
  BY <1>1 DEF FrameOK, Post, Issue
<1>2. ASSUME NEW t \in Tasks, CloseIssue(t) PROVE FrameOK'
  BY <1>2, ZenonT(40) DEF FrameOK, CloseIssue, Issue
<1>3. ASSUME NEW t \in Tasks, LeaseRunsOut(t) PROVE FrameOK'
  <2>1. lock[t].owner \in Pulses
    BY <1>3 DEF FrameOK, LeaseRunsOut
  <2>2. aged' \subseteq Pulses \X Tasks
    BY <1>3, <2>1 DEF FrameOK, LeaseRunsOut
  <2>3. /\ lock' \in [Tasks -> [owner : Pulses \cup {None}, live : BOOLEAN]]
        /\ \A u \in Tasks : lock'[u].live => lock'[u].owner \in Pulses
    BY <1>3, ZenonT(40) DEF FrameOK, LeaseRunsOut
  <2> QED BY <1>3, <2>2, <2>3 DEF FrameOK, LeaseRunsOut
<1>4. ASSUME NEW t \in Tasks, NEW p \in Pulses, MirrorRunsOut(p, t) PROVE FrameOK'
  BY <1>4 DEF FrameOK, MirrorRunsOut
<1>5. ASSUME NEW p \in Pulses, Load(p) PROVE FrameOK'
  BY <1>5, ControlsAssumption DEF FrameOK, Load
<1>6. ASSUME NEW p \in Pulses, SweepOrphans(p) PROVE FrameOK'
  BY <1>6 DEF FrameOK, SweepOrphans, Released, Free
<1>7. ASSUME NEW p \in Pulses, Intake(p) PROVE FrameOK'
  <2>1. PICK listing \in Listings :
          LET new == {t \in Tasks : listing[t].open /\ ~Present(mem[p][t])} IN
          /\ view' = [view EXCEPT ![p] = listing]
          /\ todo' = [todo EXCEPT ![p] = {t \in Tasks : Present(mem'[p][t])}]
          /\ delivered' = [t \in Tasks |-> IF t \in new THEN 0 ELSE delivered[t]]
          /\ deaths' = [t \in Tasks |-> IF t \in new THEN 0 ELSE deaths[t]]
          /\ Goto(p, "control")
          /\ UNCHANGED <<diskVars, fileVars, leaseVars, issue, cur, stray, owned, mode, gone>>
    BY <1>7 DEF Intake
  <2>2. listing \in [Tasks -> Issue]
    <3>1. issue \in [Tasks -> Issue]
      BY DEF FrameOK
    <3> QED BY <3>1 DEF Listings, Issue
  <2>3. view' \in [Pulses -> [Tasks -> Issue]] /\ pc' \in [Pulses -> PC] /\ todo' \in [Pulses -> SUBSET Tasks]
    BY <2>1, <2>2 DEF FrameOK
  <2>4. delivered' \in [Tasks -> Nat] /\ deaths' \in [Tasks -> 0..MaxAttempts]
    <3>1. delivered \in [Tasks -> Nat] /\ deaths \in [Tasks -> 0..MaxAttempts]
      BY DEF FrameOK
    <3> QED BY <2>1, <3>1, LimitsAreNumbers
  <2> QED BY <2>1, <2>3, <2>4 DEF FrameOK
<1>8. ASSUME NEW p \in Pulses, ControlDone(p) PROVE FrameOK'
  BY <1>8 DEF FrameOK, ControlDone
<1>9. ASSUME NEW p \in Pulses, BeginClaims(p) \/ StopClaims(p) PROVE FrameOK'
  <2>1. gone' \subseteq Tasks
    <3>1. gone \subseteq Tasks
      BY DEF FrameOK
    <3> QED BY <1>9, <3>1, TasksAssumption DEF BeginClaims, StopClaims, TidyUp, LongEnded
  <2>2. todo' \in [Pulses -> SUBSET Tasks]
    <3>1. todo \in [Pulses -> SUBSET Tasks]
      BY DEF FrameOK
    <3> QED BY <1>9, <3>1 DEF BeginClaims, StopClaims
  <2>3. pc' \in [Pulses -> PC]
    <3>1. pc \in [Pulses -> PC]
      BY DEF FrameOK
    <3> QED BY <1>9, <3>1 DEF BeginClaims, StopClaims
  <2> QED BY <1>9, <2>1, <2>2, <2>3 DEF BeginClaims, StopClaims, FrameOK
<1>10. ASSUME NEW p \in Pulses, NEW t \in Tasks, Claim(p, t) PROVE FrameOK'
  BY <1>10 DEF FrameOK, Claim, Considers
<1>11. ASSUME NEW p \in Pulses, NEW t \in Tasks, ParkOnDependency(p, t) \/ ClaimRefused(p, t)
       PROVE  FrameOK'
  <2>1. todo' = [todo EXCEPT ![p] = @ \ {t}]
    BY <1>11 DEF ParkOnDependency, ClaimRefused, Considers
  <2>2. UNCHANGED <<fileVars, ckpt, leaseVars, issue, pc, cur, owned, view, mode, history>>
    BY <1>11 DEF ParkOnDependency, ClaimRefused
  <2> QED BY <2>1, <2>2 DEF FrameOK
<1>12. ASSUME NEW p \in Pulses, NEW t \in Tasks, Reconcile(p, t) PROVE FrameOK'
  <2>1. ckpt' \subseteq Tasks /\ (lock' = lock \/ lock' = Released(p, {t}))
    BY <1>12 DEF FrameOK, Reconcile
  <2> QED BY <1>12, <2>1 DEF FrameOK, Reconcile, Released, Free
<1>13. ASSUME NEW p \in Pulses, NEW t \in Tasks, Control(p, t) PROVE FrameOK'
  <2>1. /\ delivered' = delivered \/ delivered' = [delivered EXCEPT ![t] = 0]
        /\ deaths' = deaths \/ deaths' = [deaths EXCEPT ![t] = 0]
    BY <1>13 DEF Control
  <2>2. delivered' \in [Tasks -> Nat] /\ deaths' \in [Tasks -> 0..MaxAttempts]
    <3>1. delivered \in [Tasks -> Nat] /\ deaths \in [Tasks -> 0..MaxAttempts]
      BY DEF FrameOK
    <3> QED BY <2>1, <3>1, LimitsAreNumbers
  <2> QED BY <1>13, <2>2 DEF Control, FrameOK
<1>14. ASSUME NEW p \in Pulses, NEW t \in Tasks, Revisit(p, t) PROVE FrameOK'
  <2>1. issue' \in [Tasks -> Issue]
    <3>1. issue \in [Tasks -> Issue]
      BY DEF FrameOK
    <3> QED BY <1>14, <3>1 DEF Revisit, Issue
  <2> QED BY <1>14, <2>1 DEF Revisit, FrameOK
<1>15. ASSUME NEW p \in Pulses, Persist(p) PROVE FrameOK'
  BY <1>15, NoneAssumption DEF FrameOK, Persist, CurrentOK
<1>16. ASSUME NEW p \in Pulses, EndRun(p) PROVE FrameOK'
  <2>1. cur[p] \in Tasks
    BY <1>16, NoneAssumption DEF EndRun, CurrentOK, FrameOK
  <2>2. ckpt' \subseteq Tasks /\ lock' = Released(p, {cur[p]})
    BY <1>16, <2>1 DEF EndRun, FrameOK
  <2>3. issue' \in [Tasks -> Issue]
    <3>1. issue \in [Tasks -> Issue]
      BY DEF FrameOK
    <3> QED BY <1>16, <2>1, <3>1 DEF EndRun, Issue
  <2>4. delivered' \in [Tasks -> Nat]
    <3>1. delivered \in [Tasks -> Nat]
      BY DEF FrameOK
    <3> QED BY <1>16, <2>1, <3>1 DEF EndRun
  <2> QED BY <1>16, <2>2, <2>3, <2>4 DEF EndRun, Released, Free, FrameOK
<1>17. ASSUME NEW p \in Pulses, NEW l \in PC, Save(p, l)
       PROVE  /\ pc' \in [Pulses -> PC] /\ changed' \in [Pulses -> SUBSET Tasks]
              /\ foreign' \in [Pulses -> BOOLEAN] /\ save' \in [Pulses -> SavePhases]
              /\ unseen' \in [Pulses -> SUBSET Tasks]
  <2>1. /\ pc' \in [Pulses -> PC] /\ changed' \in [Pulses -> SUBSET Tasks]
        /\ foreign' \in [Pulses -> BOOLEAN]
    BY <1>17 DEF Save, FrameOK
  <2>2. save' \in [Pulses -> SavePhases]
    <3>1. save \in [Pulses -> SavePhases]
      BY DEF FrameOK
    <3> QED BY <1>17, <3>1 DEF Save
  <2>3. unseen' \in [Pulses -> SUBSET Tasks]
    <3>1. unseen \in [Pulses -> SUBSET Tasks]
      BY DEF FrameOK
    <3> QED BY <1>17, <3>1 DEF Save
  <2> QED BY <2>1, <2>2, <2>3
<1>18. ASSUME NEW p \in Pulses, SaveClaim(p) \/ SaveRun(p) \/ SaveEnd(p) PROVE FrameOK'
  <2>1. PICK l \in PC : Save(p, l)
    BY <1>18 DEF SaveClaim, SaveRun, SaveEnd
  <2>2. Closed \in Issue
    BY DEF Closed, Issue
  <2>3. view' \in [Pulses -> [Tasks -> Issue]]
    <3>1. view \in [Pulses -> [Tasks -> Issue]]
      BY DEF FrameOK
    <3> QED BY <1>18, <2>2, <3>1 DEF SaveClaim, SaveRun, SaveEnd
  <2> QED BY <1>17, <1>18, <2>1, <2>3 DEF SaveClaim, SaveRun, SaveEnd, FrameOK
<1>19. ASSUME NEW p \in Pulses, Throw(p) \/ Crash(p) PROVE FrameOK'
  <2>1. deaths' \in [Tasks -> 0..MaxAttempts]
    <3>1. deaths \in [Tasks -> 0..MaxAttempts] /\ (pc[p] \in {"run", "ran"} => cur[p] \in Tasks)
      BY NoneAssumption DEF FrameOK, CurrentOK
    <3> QED BY <1>19, <3>1, LimitsAreNumbers DEF Throw, Crash, Spent
  <2>2. Closed \in Issue
    BY DEF Closed, Issue
  <2>3. view' \in [Pulses -> [Tasks -> Issue]]
    <3>1. view \in [Pulses -> [Tasks -> Issue]]
      BY DEF FrameOK
    <3> QED BY <1>19, <2>2, <3>1 DEF Throw, Crash
  <2> QED BY <1>19, <2>1, <2>3 DEF Throw, Crash, FrameOK
<1>20. ASSUME NEW p \in Pulses, ReadFile(p) \/ Baseline(p) PROVE FrameOK'
  <2>1. save' \in [Pulses -> SavePhases]
    <3>1. save \in [Pulses -> SavePhases]
      BY DEF FrameOK
    <3> QED BY <1>20, <3>1 DEF ReadFile, Baseline
  <2>2. foreign' \in [Pulses -> BOOLEAN] /\ unseen' \in [Pulses -> SUBSET Tasks]
    <3>1. foreign \in [Pulses -> BOOLEAN] /\ unseen \in [Pulses -> SUBSET Tasks]
      BY DEF FrameOK
    <3> QED BY <1>20, <3>1 DEF ReadFile, Baseline
  <2> QED BY <1>20, <2>1, <2>2 DEF ReadFile, Baseline, FrameOK
<1>21. CASE UNCHANGED vars
  BY <1>21 DEF FrameOK, vars
<1> QED
  BY <1>1, <1>2, <1>3, <1>4, <1>5, <1>6, <1>7, <1>8, <1>9, <1>10, <1>11, <1>12, <1>13, <1>14,
     <1>15, <1>16, <1>18, <1>19, <1>20, <1>21
  DEF Next, UserOrClock, PulseStep

\* No step leaves a pulse at work without a current task, or with one it has not leased.
LEMMA CurrentInductive == FrameOK /\ CurrentOK /\ [Next]_vars => CurrentOK'
<1> SUFFICES ASSUME FrameOK, CurrentOK, [Next]_vars PROVE CurrentOK'
  OBVIOUS
<1>0. /\ pc \in [Pulses -> PC] /\ cur \in [Pulses -> Tasks \cup {None}]
      /\ todo \in [Pulses -> SUBSET Tasks] /\ owned \in [Pulses -> SUBSET Tasks]
  BY DEF FrameOK
<1> USE <1>0, NoneAssumption DEF CurrentOK, PC, Goto, diskVars, fileVars, leaseVars, history
<1>1. ASSUME UserOrClock PROVE CurrentOK'
  BY <1>1 DEF UserOrClock, Post, CloseIssue, LeaseRunsOut, MirrorRunsOut
<1>2. ASSUME NEW p \in Pulses, Load(p) \/ SweepOrphans(p) \/ Intake(p) PROVE CurrentOK'
  BY <1>2 DEF Load, SweepOrphans, Intake
<1>3. ASSUME NEW p \in Pulses, ControlDone(p) \/ BeginClaims(p) \/ StopClaims(p) PROVE CurrentOK'
  BY <1>3 DEF ControlDone, BeginClaims, StopClaims
<1>4. ASSUME NEW p \in Pulses, Persist(p) \/ EndRun(p) PROVE CurrentOK'
  BY <1>4 DEF Persist, EndRun
<1>5. ASSUME NEW p \in Pulses, SaveClaim(p) \/ SaveRun(p) \/ SaveEnd(p) PROVE CurrentOK'
  BY <1>5 DEF SaveClaim, SaveRun, SaveEnd, Save
<1>6. ASSUME NEW p \in Pulses, Throw(p) \/ Crash(p) PROVE CurrentOK'
  BY <1>6 DEF Throw, Crash
<1>7. ASSUME NEW p \in Pulses, NEW t \in Tasks, Reconcile(p, t) \/ Control(p, t) \/ Revisit(p, t)
      PROVE  CurrentOK'
  BY <1>7 DEF Reconcile, Control, Revisit
<1>8. ASSUME NEW p \in Pulses, NEW t \in Tasks,
             ParkOnDependency(p, t) \/ ClaimRefused(p, t) \/ Claim(p, t)
      PROVE  CurrentOK'
  BY <1>8 DEF ParkOnDependency, ClaimRefused, Claim, Considers
<1>9. ASSUME NEW p \in Pulses, ReadFile(p) \/ Baseline(p) PROVE CurrentOK'
  BY <1>9 DEF ReadFile, Baseline
<1>10. CASE UNCHANGED vars
  BY <1>10 DEF vars
<1> QED
  BY <1>1, <1>2, <1>3, <1>4, <1>5, <1>6, <1>7, <1>8, <1>9, <1>10 DEF Next, PulseStep

\* The frame holds in every state.
LEMMA Frame == Spec => [](FrameOK /\ CurrentOK)
<1>1. Init => FrameOK /\ CurrentOK
  <2> SUFFICES ASSUME Init PROVE FrameOK /\ CurrentOK
    OBVIOUS
  <2>1. [Closed EXCEPT !.open = TRUE] \in Issue /\ Closed \in Issue
    BY DEF Closed, Issue
  <2>2. FrameOK
    BY <2>1, LimitsAreNumbers DEF Init, FrameOK, PC, SavePhases, Free
  <2>3. CurrentOK
    BY DEF Init, CurrentOK
  <2> QED BY <2>2, <2>3
<1> QED BY <1>1, FrameInductive, CurrentInductive, PTL DEF Spec
-----------------------------------------------------------------------------
(***************************************************************************)
(* One runner.                                                             *)
(***************************************************************************)

\* A pulse that has claimed a task, or runs it, has the live lease in the task's file.
HoldsLease ==
  \A p \in Pulses : pc[p] \in {"claimed", "run"} => lock[cur[p]] = [owner |-> p, live |-> TRUE]

\* What only frees leases frees none that another pulse works under.
LEMMA ReleaseIsSafe ==
  ASSUME HoldsLease, NEW p \in Pulses, NEW T \in SUBSET Tasks, NEW q \in Pulses, p # q,
         pc[q] \in {"claimed", "run"}, cur[q] \in Tasks
  PROVE  Released(p, T)[cur[q]] = lock[cur[q]]
<1>1. lock[cur[q]] = [owner |-> q, live |-> TRUE]
  BY DEF HoldsLease
<1>2. HeldByOther(p, cur[q])
  BY <1>1 DEF HeldByOther
<1> QED BY <1>2 DEF Released

\* Where no lease runs out under its owner, a pulse that works on a task holds its lease: the
\* claim takes it, persist() renews it, and a release leaves the leases of others alone.
LEMMA LeaseInductive ==
  ASSUME ~SlowRuns PROVE FrameOK /\ CurrentOK /\ HoldsLease /\ [Next]_vars => HoldsLease'
<1> SUFFICES ASSUME FrameOK, CurrentOK, HoldsLease, [Next]_vars,
                    NEW q \in Pulses, pc'[q] \in {"claimed", "run"}
             PROVE  lock'[cur'[q]] = [owner |-> q, live |-> TRUE]
  BY DEF HoldsLease
<1> DEFINE Holds == lock'[cur'[q]] = [owner |-> q, live |-> TRUE]
<1>0. /\ pc \in [Pulses -> PC] /\ cur \in [Pulses -> Tasks \cup {None}]
      /\ lock \in [Tasks -> [owner : Pulses \cup {None}, live : BOOLEAN]]
  BY DEF FrameOK
<1>a. pc[q] \in {"claimed", "run"} => cur[q] \in Tasks /\ lock[cur[q]] = [owner |-> q, live |-> TRUE]
  BY <1>0, NoneAssumption DEF CurrentOK, HoldsLease
<1>b. pc[q] \in {"claimed", "run"} /\ cur'[q] = cur[q] /\ lock' = lock => Holds
  BY <1>a
<1> HIDE DEF Holds
<1> USE DEF PC, Goto, diskVars, fileVars, leaseVars, history
<1>1. ASSUME NEW t \in Tasks, NEW verb, Post(t, verb) \/ CloseIssue(t) PROVE Holds
  BY <1>1, <1>b DEF Post, CloseIssue
<1>2. ASSUME NEW t \in Tasks, LeaseRunsOut(t) PROVE Holds
  <2>1. pc[q] \in {"claimed", "run"} /\ cur' = cur
    BY <1>2 DEF LeaseRunsOut
  <2>2. cur[q] # t
    BY <1>2, <1>a, <2>1 DEF LeaseRunsOut, Active
  <2> QED BY <1>0, <1>2, <1>a, <2>1, <2>2 DEF LeaseRunsOut, Holds
<1>3. ASSUME NEW t \in Tasks, NEW p \in Pulses, MirrorRunsOut(p, t) PROVE Holds
  BY <1>3, <1>b DEF MirrorRunsOut
<1>4. ASSUME NEW p \in Pulses, Load(p) \/ Intake(p) \/ ControlDone(p) \/ BeginClaims(p) \/ StopClaims(p)
      PROVE  Holds
  BY <1>4, <1>0, <1>b DEF Load, Intake, ControlDone, BeginClaims, StopClaims
<1>5. ASSUME NEW p \in Pulses, SweepOrphans(p) PROVE Holds
  <2>1. PICK T \in SUBSET Tasks : lock' = Released(p, T)
    BY <1>5 DEF SweepOrphans
  <2>2. p # q /\ pc[q] \in {"claimed", "run"} /\ cur' = cur
    BY <1>5, <1>0 DEF SweepOrphans
  <2> QED BY <1>a, <2>1, <2>2, ReleaseIsSafe DEF Holds
<1>6. ASSUME NEW p \in Pulses, NEW t \in Tasks, Reconcile(p, t) PROVE Holds
  <2>1. p # q /\ pc[q] \in {"claimed", "run"} /\ cur' = cur
    BY <1>6, <1>0 DEF Reconcile
  <2>2. lock' = lock \/ lock' = Released(p, {t})
    BY <1>6 DEF Reconcile
  <2> QED BY <1>a, <2>1, <2>2, ReleaseIsSafe DEF Holds
<1>7. ASSUME NEW p \in Pulses, NEW t \in Tasks,
             Control(p, t) \/ Revisit(p, t) \/ ParkOnDependency(p, t) \/ ClaimRefused(p, t)
      PROVE  Holds
  BY <1>7, <1>0, <1>b DEF Control, Revisit, ParkOnDependency, ClaimRefused
<1>8. ASSUME NEW p \in Pulses, NEW t \in Tasks, Claim(p, t) PROVE Holds
  <2>1. CASE p = q
    BY <1>0, <1>8, <2>1 DEF Claim, Holds
  <2>2. CASE p # q
    <3>1. pc[q] \in {"claimed", "run"} /\ cur'[q] = cur[q]
      BY <1>8, <1>0, <2>2 DEF Claim
    <3>2. t # cur[q]
      BY <1>8, <1>a, <2>2, <3>1 DEF Claim, HeldByOther
    <3> QED BY <1>8, <1>a, <3>1, <3>2 DEF Claim, Holds
  <2> QED BY <2>1, <2>2
<1>9. ASSUME NEW p \in Pulses, Persist(p) PROVE Holds
  <2>1. pc[q] \in {"claimed", "run"} /\ cur' = cur /\ cur[p] \in Tasks
    BY <1>9, <1>0, NoneAssumption DEF Persist, CurrentOK
  <2>2. cur[p] = cur[q] => p = q \/ HeldByOther(p, cur[p])
    BY <1>a, <2>1 DEF HeldByOther
  <2> QED BY <1>0, <1>9, <1>a, <2>1, <2>2 DEF Persist, HeldByOther, Holds
<1>10. ASSUME NEW p \in Pulses, EndRun(p) PROVE Holds
  <2>1. p # q /\ pc[q] \in {"claimed", "run"} /\ cur' = cur /\ cur[p] \in Tasks
    BY <1>10, <1>0, NoneAssumption DEF EndRun, CurrentOK
  <2>2. lock' = Released(p, {cur[p]})
    BY <1>10 DEF EndRun
  <2> QED BY <1>a, <2>1, <2>2, ReleaseIsSafe DEF Holds
<1>11. ASSUME NEW p \in Pulses, SaveClaim(p) \/ SaveRun(p) \/ SaveEnd(p) PROVE Holds
  BY <1>11, <1>0, <1>b DEF SaveClaim, SaveRun, SaveEnd, Save
<1>12. ASSUME NEW p \in Pulses, Throw(p) \/ Crash(p) PROVE Holds
  BY <1>12, <1>0, <1>b DEF Throw, Crash
<1>13. ASSUME NEW p \in Pulses, ReadFile(p) \/ Baseline(p) PROVE Holds
  BY <1>13, <1>b DEF ReadFile, Baseline
<1>14. ASSUME UNCHANGED vars PROVE Holds
  BY <1>14, <1>b DEF vars
<1> QED
  BY <1>1, <1>2, <1>3, <1>4, <1>5, <1>6, <1>7, <1>8, <1>9, <1>10, <1>11, <1>12, <1>13, <1>14
  DEF Next, UserOrClock, PulseStep, Holds

\* While no lease runs out under a working pulse, two pulses never work on one task at once,
\* whatever any number of pulses claim, sweep, save, throw or leave behind
\* (pulse.js:566, reconcile.js:62-66).
THEOREM OneRunnerAtATime == ASSUME ~SlowRuns PROVE Spec => []OneRunner
<1>1. Init => HoldsLease
  BY DEF Init, HoldsLease
<1>2. FrameOK /\ CurrentOK /\ HoldsLease /\ [Next]_vars => HoldsLease'
  BY LeaseInductive
<1>3. HoldsLease => OneRunner
  <2> SUFFICES ASSUME HoldsLease, NEW p \in Pulses, NEW q \in Pulses, p # q,
                      pc[p] \in {"claimed", "run"}, pc[q] \in {"claimed", "run"}
               PROVE  cur[p] # cur[q]
    BY DEF OneRunner
  <2>1. /\ lock[cur[p]] = [owner |-> p, live |-> TRUE]
        /\ lock[cur[q]] = [owner |-> q, live |-> TRUE]
    BY DEF HoldsLease
  <2> QED BY <2>1
<1> QED BY <1>1, <1>2, <1>3, Frame, PTL DEF Spec
-----------------------------------------------------------------------------
(***************************************************************************)
(* The task records.                                                       *)
(***************************************************************************)

\* A record that the engine may hold or write: only a waiting task has a reason to wait, and
\* only one that ended can have used up its attempts.
Record ==
  {task \in Task : /\ task.status = "waiting" <=> task.waitReason # NoReason
                   /\ ~Ended(task) => task.attempts < MaxAttempts}

RecordsOK ==
  /\ disk \in [Tasks -> Record]
  /\ mem \in [Pulses -> [Tasks -> Record]]
  /\ stray \in [Pulses -> [Tasks -> Record \cup {Attached}]]

\* The status of an object is one that the loops of a pulse rely on between two of its steps.
LoopOK(p) ==
  /\ pc[p] \in {"idle", "reconcile", "intake", "control", "revisit"} => stray[p] = NoStray /\ owned[p] = {}
  /\ pc[p] = "revisit" => \A t \in todo[p] : mem[p][t].status = "pr-open"
  /\ pc[p] \in {"claim", "claimed", "run", "ran"} => \A t \in todo[p] : Obj(p, t).status = "pending"
  /\ pc[p] \in {"claimed", "run"} => Obj(p, cur[p]).status = "running"
  /\ pc[p] \in {"claimed", "run"} => \A d \in Deps[cur[p]] : Obj(p, d).status = "complete"

LoopsOK == \A p \in Pulses : LoopOK(p)

\* What the records have in common; a task put into the queue or missing from it has one.
LEMMA RecordFacts ==
  /\ Record \subseteq Task
  /\ NewTask \in Record /\ NoTask \in Record
  /\ Attached \notin Record
  /\ \A r \in Record : r.attempts \in Nat /\ (~IsTerminal(r.status) => r.attempts < MaxAttempts)
<1>1. Record \subseteq Task
  BY DEF Record
<1>2. NewTask \in Task /\ NoTask \in Task
  <2>1. "pending" \in TASK_STATUSES /\ 0 \in 0..MaxAttempts
    BY LimitsAreNumbers DEF TASK_STATUSES
  <2>2. NewTask \in Task
    BY <2>1 DEF NewTask, Task
  <2> QED BY <2>2 DEF NoTask, Task
<1>3. NewTask \in Record
  BY <1>2, LimitsAreNumbers DEF NewTask, Record, NoReason
<1>4. NoTask \in Record
  BY <1>2, LimitsAreNumbers DEF NewTask, NoTask, Absent, Record, NoReason
<1>5. Attached \notin Record
  BY DEF Attached, NewTask, Record, Task, TASK_STATUSES, TERMINAL_STATUSES, Absent
<1>6. ASSUME NEW r \in Record
      PROVE  r.attempts \in Nat /\ (~IsTerminal(r.status) => r.attempts < MaxAttempts)
  BY <1>6, LimitsAreNumbers DEF Record, Task, Ended
<1> QED BY <1>1, <1>3, <1>4, <1>5, <1>6

\* transition() sets the status and keeps the attempts and what users asked.
LEMMA MoveFields ==
  ASSUME NEW t, NEW task \in Task, NEW to, NEW why
  PROVE  /\ Move(t, task, to, why).status = to
         /\ Move(t, task, to, why).attempts = task.attempts
         /\ Move(t, task, to, why).waitReason = (IF to = "waiting" THEN why ELSE NoReason)
         /\ Move(t, task, to, why).lease =
              (IF Completes(to) \/ to = "pending" THEN None ELSE task.lease)
         /\ Move(t, task, to, why).handled = task.handled
  BY DEF Move, Transition, Task

\* A move to a legal status leaves a record, if a task that lives on has attempts left.
LEMMA MoveIsRecord ==
  ASSUME NEW t, NEW task \in Task, NEW to \in TASK_STATUSES, NEW why \in WAIT_REASONS \cup {NoReason},
         to = "waiting" => why \in WAIT_REASONS, ~IsTerminal(to) => task.attempts < MaxAttempts
  PROVE  Move(t, task, to, why) \in Record
<1> DEFINE new == Move(t, task, to, why)
<1>1. new \in Task
  BY DEF Move, Transition, Task
<1>2. new.status = "waiting" <=> new.waitReason # NoReason
  BY MoveFields DEF WAIT_REASONS, NoReason
<1>3. ~Ended(new) => new.attempts < MaxAttempts
  BY MoveFields DEF Ended
<1> QED BY <1>1, <1>2, <1>3 DEF Record

\* The statuses and reasons that the code names are legal.
LEMMA NamesAreLegal ==
  /\ TASK_STATUSES = {"pending", "running", "waiting", "paused", "pr-open"} \cup TERMINAL_STATUSES
  /\ TERMINAL_STATUSES = {"complete", "failed", "blocked", "cancelled", "expired", "dead-lettered"}
  /\ Absent \notin TASK_STATUSES
  /\ "dependency" \in WAIT_REASONS /\ "budget" \in WAIT_REASONS
  /\ \A s \in {"pending", "running", "waiting", "paused", "pr-open", Absent} : ~IsTerminal(s)
  BY DEF TASK_STATUSES, TERMINAL_STATUSES, Absent, WAIT_REASONS, IsTerminal

\* The sweep leaves a record of every task, and loses none.
LEMMA ReconciledIsRecord ==
  ASSUME NEW p \in Pulses, NEW t \in Tasks, NEW ttl \in BOOLEAN, NEW late \in BOOLEAN, RecordsOK
  PROVE  /\ Reconciled(p, t, ttl, late) \in Record
         /\ Present(mem[p][t]) => Present(Reconciled(p, t, ttl, late))
         /\ Reconciled(p, t, ttl, late).lease \in {mem[p][t].lease, None}
<1> DEFINE task == mem[p][t]
           new == Reconciled(p, t, ttl, late)
           Kept(r) == r \in Record /\ (Present(task) => Present(r)) /\ r.lease \in {task.lease, None}
<1>1. task \in Record /\ task \in Task
  BY RecordFacts DEF RecordsOK
<1>2. task.attempts \in Nat /\ (~Ended(task) => task.attempts < MaxAttempts)
  BY <1>1, RecordFacts DEF Ended
<1>3. ASSUME ~Ended(task)
      PROVE  /\ Charged(task) \in Task /\ Charged(task).attempts = task.attempts + 1
             /\ Charged(task).lease = task.lease
  <2>1. task.attempts + 1 \in 0..MaxAttempts
    BY <1>2, <1>3, LimitsAreNumbers
  <2> QED BY <1>1, <2>1 DEF Charged, Task
<1>4. ASSUME ~Ended(task), NEW to \in TASK_STATUSES \ {"waiting"} PROVE Kept(Move(t, task, to, NoReason))
  <2>1. Move(t, task, to, NoReason).status = to /\ Move(t, task, to, NoReason).lease \in {task.lease, None}
    BY <1>1, MoveFields
  <2> QED BY <1>1, <1>2, <1>4, <2>1, MoveIsRecord, NamesAreLegal DEF Present
<1>5. ASSUME ~Ended(task), NEW to \in {"dead-lettered", "pending"},
             to = "pending" => ~Poisonous(Charged(task))
      PROVE  Kept(Move(t, Charged(task), to, NoReason))
  <2>1. to = "pending" => Charged(task).attempts < MaxAttempts
    BY <1>2, <1>3, <1>5, LimitsAreNumbers DEF Poisonous
  <2>2. ~IsTerminal(to) => to = "pending"
    BY <1>5, NamesAreLegal DEF IsTerminal
  <2>3. Move(t, Charged(task), to, NoReason) \in Record
    BY <1>3, <1>5, <2>1, <2>2, MoveIsRecord, NamesAreLegal
  <2>4. /\ Move(t, Charged(task), to, NoReason).status = to
        /\ Move(t, Charged(task), to, NoReason).lease \in {task.lease, None}
    BY <1>3, <1>5, MoveFields
  <2> QED BY <1>5, <2>3, <2>4, NamesAreLegal DEF Present
<1>6. Kept(task)
  BY <1>1
<1> HIDE DEF Kept
<1>7. ASSUME Ended(task) PROVE Kept(new)
  BY <1>6, <1>7, NamesAreLegal DEF Reconciled, Ended, Waiting
<1>8. ASSUME ~Ended(task) PROVE Kept(new)
  <2>1. Kept(Move(t, task, "expired", NoReason)) /\ Kept(Move(t, task, "dead-lettered", NoReason))
    BY <1>4, <1>8, NamesAreLegal
  <2>2. Kept(Move(t, task, "pending", NoReason)) /\ Kept(Move(t, task, "cancelled", NoReason))
    BY <1>4, <1>8, NamesAreLegal
  <2>3. ~Poisonous(Charged(task)) => Kept(Move(t, Charged(task), "pending", NoReason))
    BY <1>5, <1>8
  <2>4. Kept(Move(t, Charged(task), "dead-lettered", NoReason))
    BY <1>5, <1>8
  <2> QED BY <1>6, <1>8, <2>1, <2>2, <2>3, <2>4 DEF Reconciled, Waiting
<1> QED BY <1>7, <1>8 DEF Kept

\* A command leaves a record of its task, and does not lose it.
LEMMA CommandedIsRecord ==
  ASSUME NEW t \in Tasks, NEW task \in Record, NEW verb
  PROVE  /\ Commanded(t, task, verb) \in Record
         /\ Present(task) => Present(Commanded(t, task, verb))
         /\ Commanded(t, task, verb).lease \in {task.lease, None}
<1> DEFINE Kept(r) == r \in Record /\ (Present(task) => Present(r)) /\ r.lease \in {task.lease, None}
           reset == [task EXCEPT !.attempts = 0]
<1>1. task \in Task /\ task.attempts \in Nat /\ (~Ended(task) => task.attempts < MaxAttempts)
  BY RecordFacts DEF Ended
<1>2. ASSUME ~Ended(task), NEW to \in TASK_STATUSES \ {"waiting"} PROVE Kept(Move(t, task, to, NoReason))
  <2>1. Move(t, task, to, NoReason).status = to /\ Move(t, task, to, NoReason).lease \in {task.lease, None}
    BY <1>1, MoveFields
  <2> QED BY <1>1, <1>2, <2>1, MoveIsRecord, NamesAreLegal DEF Present
<1>3. Kept(Move(t, reset, "pending", NoReason))
  <2>1. reset \in Task /\ reset.attempts = 0
    BY <1>1, LimitsAreNumbers DEF Task
  <2> HIDE DEF reset
  <2>2. Move(t, reset, "pending", NoReason) \in Record
    BY <2>1, LimitsAreNumbers, MoveIsRecord, NamesAreLegal
  <2>3. Move(t, reset, "pending", NoReason).status = "pending" /\ Move(t, reset, "pending", NoReason).lease = None
    BY <2>1, MoveFields
  <2> QED BY <2>2, <2>3 DEF Present, Absent
<1>4. Kept([task EXCEPT !.cancelReq = TRUE]) /\ Kept([task EXCEPT !.pauseReq = TRUE]) /\ Kept(task)
  BY <1>1 DEF Record, Task, Ended, Present
<1>5. \A s : task.status = s /\ s \in {"pending", "running", "waiting", "paused"} => ~Ended(task)
  BY NamesAreLegal DEF Ended
<1>6. task.status \in PREEMPTABLE => ~Ended(task)
  BY <1>5 DEF PREEMPTABLE
<1>7. ~Ended(task) => /\ Kept(Move(t, task, "cancelled", NoReason)) /\ Kept(Move(t, task, "paused", NoReason))
                      /\ Kept(Move(t, task, "pending", NoReason))
  BY <1>2, NamesAreLegal
<1> HIDE DEF Kept
<1>8. Kept(Commanded(t, task, verb))
  BY <1>3, <1>4, <1>5, <1>6, <1>7 DEF Commanded, Waiting
<1> QED BY <1>8 DEF Kept

\* A run leaves a record of its task, and does not lose it.
LEMMA RunResultsAreRecords ==
  ASSUME NEW t \in Tasks, NEW task \in Record, task.status = "running", NEW next \in RunResults(t, task)
  PROVE  next \in Record /\ Present(next) /\ next.lease \in {task.lease, None}
<1>1. task \in Task /\ task.attempts < MaxAttempts
  BY RecordFacts, NamesAreLegal
<1>2. ASSUME NEW old \in Task, old.attempts = task.attempts, old.lease \in {task.lease, None}, NEW to \in TASK_STATUSES,
             NEW why \in WAIT_REASONS \cup {NoReason}, to = "waiting" => why \in WAIT_REASONS
      PROVE  /\ Move(t, old, to, why) \in Record /\ Present(Move(t, old, to, why))
             /\ Move(t, old, to, why).lease \in {task.lease, None}
  <2>1. Move(t, old, to, why).status = to /\ Move(t, old, to, why).lease \in {old.lease, None}
    BY <1>2, MoveFields
  <2> QED BY <1>1, <1>2, <2>1, MoveIsRecord, NamesAreLegal DEF Present
<1>3. CASE \E o \in Outcomes \ {"waiting"} : next = Move(t, task, o, NoReason)
  <2>1. Outcomes \subseteq TASK_STATUSES
    BY OutcomesAssumption, NamesAreLegal DEF TRANSITIONS
  <2> QED BY <1>1, <1>2, <1>3, <2>1
<1>4. CASE \E w \in Waits : next = Move(t, task, "waiting", w)
  BY <1>1, <1>2, <1>4, OutcomesAssumption, NamesAreLegal
<1>5. CASE next = Move(t, [task EXCEPT !.cancelReq = FALSE], "cancelled", NoReason)
  <2>1. /\ [task EXCEPT !.cancelReq = FALSE] \in Task
        /\ [task EXCEPT !.cancelReq = FALSE].attempts = task.attempts
        /\ [task EXCEPT !.cancelReq = FALSE].lease = task.lease
    BY <1>1 DEF Task
  <2> QED BY <1>2, <1>5, <2>1, NamesAreLegal
<1>6. CASE next = Move(t, Move(t, [task EXCEPT !.pauseReq = FALSE], "waiting", "budget"), "paused", NoReason)
  <2> DEFINE asked  == [task EXCEPT !.pauseReq = FALSE]
             parked == Move(t, asked, "waiting", "budget")
  <2>1. asked \in Task /\ asked.attempts = task.attempts /\ asked.lease = task.lease
    BY <1>1 DEF Task
  <2> HIDE DEF asked
  <2>2. parked \in Task /\ parked.attempts = task.attempts /\ parked.lease \in {task.lease, None}
    <3>1. parked \in Record /\ parked.lease \in {task.lease, None}
      BY <1>2, <2>1, NamesAreLegal
    <3>2. parked.attempts = asked.attempts
      BY <2>1, MoveFields
    <3> QED BY <2>1, <3>1, <3>2, RecordFacts
  <2> HIDE DEF parked
  <2>3. /\ Move(t, parked, "paused", NoReason) \in Record /\ Present(Move(t, parked, "paused", NoReason))
        /\ Move(t, parked, "paused", NoReason).lease \in {task.lease, None}
    BY <1>2, <2>2, NamesAreLegal
  <2> QED BY <1>6, <2>3 DEF parked, asked
<1> QED BY <1>3, <1>4, <1>5, <1>6 DEF RunResults

\* The loops of a pulse read and write the object they hold, wherever a merge has put it.
LEMMA PutObjEffect ==
  ASSUME RecordsOK, NEW p \in Pulses, NEW t \in Tasks, NEW task \in Record, PutObj(p, t, task)
  PROVE  /\ mem' \in [Pulses -> [Tasks -> Record]]
         /\ stray' \in [Pulses -> [Tasks -> Record \cup {Attached}]]
         /\ Obj(p, t)' = task
         /\ \A u \in Tasks : u # t => Obj(p, u)' = Obj(p, u)
         /\ \A q \in Pulses : q # p => mem'[q] = mem[q] /\ stray'[q] = stray[q]
         /\ \A u \in Tasks : u # t => mem'[p][u] = mem[p][u]
         /\ mem'[p][t] = mem[p][t] \/ (stray[p][t] = Attached /\ mem'[p][t] = task)
<1>1. mem \in [Pulses -> [Tasks -> Record]] /\ stray \in [Pulses -> [Tasks -> Record \cup {Attached}]]
  BY DEF RecordsOK
<1>2. task # Attached
  BY RecordFacts
<1>3. CASE stray[p][t] = Attached
  <2>1. mem' = [mem EXCEPT ![p][t] = task] /\ stray' = stray
    BY <1>3 DEF PutObj
  <2>2. mem' \in [Pulses -> [Tasks -> Record]]
    BY <1>1, <2>1
  <2>3. /\ mem'[p][t] = task
        /\ \A u \in Tasks : u # t => mem'[p][u] = mem[p][u]
        /\ \A q \in Pulses : q # p => mem'[q] = mem[q]
    BY <1>1, <2>1
  <2> QED BY <1>1, <1>3, <2>1, <2>2, <2>3 DEF Obj
<1>4. CASE stray[p][t] # Attached
  <2>1. stray' = [stray EXCEPT ![p][t] = task] /\ mem' = mem
    BY <1>4 DEF PutObj
  <2>2. stray' \in [Pulses -> [Tasks -> Record \cup {Attached}]]
    BY <1>1, <2>1
  <2>3. /\ stray'[p][t] = task
        /\ \A u \in Tasks : u # t => stray'[p][u] = stray[p][u]
        /\ \A q \in Pulses : q # p => stray'[q] = stray[q]
    BY <1>1, <2>1
  <2> QED BY <1>1, <1>2, <2>1, <2>2, <2>3 DEF Obj
<1> QED BY <1>3, <1>4

\* The object that a loop holds for a task is a record, whether or not a merge has replaced it.
LEMMA ObjIsRecord ==
  ASSUME RecordsOK, NEW p \in Pulses, NEW t \in Tasks PROVE Obj(p, t) \in Record
  BY DEF RecordsOK, Obj

\* The merge of a save changes none of the objects that the loops of the pulse hold, and gives
\* it the records of the file that it does not have or that others have changed.
LEMMA ReadFileEffect ==
  ASSUME RecordsOK, NEW p \in Pulses, ReadFile(p)
  PROVE  /\ RecordsOK'
         /\ \A q \in Pulses : q # p => mem'[q] = mem[q] /\ stray'[q] = stray[q]
         /\ \A t \in Tasks : mem'[p][t] = IF t \in Theirs(p) THEN disk[t] ELSE mem[p][t]
         /\ \A t \in Tasks : Obj(p, t)' = Obj(p, t)
         /\ \A t \in Tasks : Present(mem[p][t]) => Present(mem'[p][t])
<1> DEFINE now == [t \in Tasks |-> IF t \in Theirs(p) THEN disk[t] ELSE mem[p][t]]
           kept == [t \in Tasks |->
                      IF t \in Theirs(p) /\ stray[p][t] = Attached THEN mem[p][t] ELSE stray[p][t]]
<1>1. /\ mem \in [Pulses -> [Tasks -> Record]] /\ stray \in [Pulses -> [Tasks -> Record \cup {Attached}]]
      /\ disk \in [Tasks -> Record]
  BY DEF RecordsOK
<1>2. now \in [Tasks -> Record] /\ kept \in [Tasks -> Record \cup {Attached}]
  BY <1>1
<1>3. /\ disk' = disk
      /\ mem' = [mem EXCEPT ![p] = now] /\ stray' = [stray EXCEPT ![p] = kept]
  BY DEF ReadFile
<1>4. ASSUME NEW t \in Tasks PROVE Obj(p, t)' = Obj(p, t)
  <2>1. mem'[p][t] = now[t] /\ stray'[p][t] = kept[t]
    BY <1>1, <1>3
  <2>2. mem[p][t] # Attached
    BY <1>1, RecordFacts
  <2> QED BY <2>1, <2>2 DEF Obj
<1>5. ASSUME NEW t \in Tasks, Present(mem[p][t]) PROVE Present(now[t])
  BY <1>5 DEF Theirs, TheirsWin
<1>6. \A t \in Tasks : now[t] = IF t \in Theirs(p) THEN disk[t] ELSE mem[p][t]
  OBVIOUS
<1> HIDE DEF now, kept
<1> QED BY <1>1, <1>2, <1>3, <1>4, <1>5, <1>6 DEF RecordsOK

\* The rename of a save puts the memory of the pulse into the file, unless the pulse found
\* nothing to write; the memory of a pulse that is over is gone.
LEMMA SaveEffect ==
  ASSUME RecordsOK, NEW p \in Pulses, NEW l, Save(p, l)
  PROVE  /\ RecordsOK'
         /\ \A q \in Pulses : q # p => mem'[q] = mem[q] /\ stray'[q] = stray[q]
         /\ \A t \in Tasks : disk'[t] = IF save[p] = "read" THEN mem[p][t] ELSE disk[t]
         /\ l # "done" => mem' = mem /\ stray' = stray
         /\ l = "done" => stray'[p] = NoStray
<1>1. /\ mem \in [Pulses -> [Tasks -> Record]] /\ stray \in [Pulses -> [Tasks -> Record \cup {Attached}]]
      /\ disk \in [Tasks -> Record]
  BY DEF RecordsOK
<1>2. disk' = IF save[p] = "read" THEN mem[p] ELSE disk
  BY DEF Save
<1>3. disk' \in [Tasks -> Record]
  BY <1>1, <1>2
<1>4. CASE l = "done"
  <2>1. Nothing \in [Tasks -> Record] /\ NoStray \in [Tasks -> Record \cup {Attached}]
    BY RecordFacts DEF Nothing, NoStray
  <2>2. mem' = [mem EXCEPT ![p] = Nothing] /\ stray' = [stray EXCEPT ![p] = NoStray]
    BY <1>4 DEF Save
  <2> QED BY <1>1, <1>2, <1>3, <1>4, <2>1, <2>2 DEF RecordsOK
<1>5. CASE l # "done"
  <2>1. mem' = mem /\ stray' = stray
    BY <1>5 DEF Save
  <2> QED BY <1>1, <1>2, <1>3, <1>5, <2>1 DEF RecordsOK
<1> QED BY <1>4, <1>5

\* One task's step of a loop writes one record, over one that the pulse held; it loses no task,
\* and only a claim puts a lease into it.
StepWrites(p, t, old, new) ==
  /\ old \in Record /\ new \in Record
  /\ Present(old) => Present(new)
  /\ new.lease \in {old.lease, None} \/ (Claim(p, t) /\ new.lease = p)
  /\ \/ old = mem[p][t] /\ mem' = [mem EXCEPT ![p][t] = new] /\ stray' = stray
     \/ old = Obj(p, t) /\ PutObj(p, t, new)

\* So does each step of the sweep, of the control loop, of the revisits and of the claims.
LEMMA LoopStepEffect ==
  ASSUME RecordsOK, LoopsOK, NEW p \in Pulses, NEW t \in Tasks,
         \/ Reconcile(p, t) \/ Control(p, t) \/ Revisit(p, t)
         \/ ParkOnDependency(p, t) \/ ClaimRefused(p, t) \/ Claim(p, t)
  PROVE  \E old, new : StepWrites(p, t, old, new)
<1>0. /\ mem \in [Pulses -> [Tasks -> Record]] /\ stray \in [Pulses -> [Tasks -> Record \cup {Attached}]]
      /\ mem[p][t] \in Record /\ mem[p][t] \in Task
  BY RecordFacts DEF RecordsOK
<1>1. ASSUME NEW new \in Record, Present(mem[p][t]) => Present(new), new.lease \in {mem[p][t].lease, None},
             mem' = [mem EXCEPT ![p][t] = new], stray' = stray
      PROVE  \E old : StepWrites(p, t, old, new)
  BY <1>0, <1>1 DEF StepWrites
<1>2. ASSUME UNCHANGED <<mem, stray>> PROVE \E old, new : StepWrites(p, t, old, new)
  <2>1. mem' = [mem EXCEPT ![p][t] = mem[p][t]]
    BY <1>0, <1>2
  <2> QED BY <1>0, <1>1, <1>2, <2>1
<1>3. CASE Reconcile(p, t)
  <2>1. PICK ttl \in BOOLEAN, late \in BOOLEAN : mem' = [mem EXCEPT ![p][t] = Reconciled(p, t, ttl, late)]
    BY <1>3 DEF Reconcile
  <2>2. stray' = stray
    BY <1>3 DEF Reconcile
  <2> QED BY <1>1, <2>1, <2>2, ReconciledIsRecord
<1>4. CASE Control(p, t)
  <2> DEFINE task == mem[p][t]
             verb == view[p][t].command
             next == IF ~view[p][t].open
                     THEN IF task.status \in PREEMPTABLE THEN Move(t, task, "cancelled", NoReason) ELSE task
                     ELSE IF verb = "none" \/ task.handled THEN task
                     ELSE IF verb = "retry" /\ task.ended THEN Seen(task)
                     ELSE Commanded(t, Seen(task), verb)
             Kept(r) == r \in Record /\ (Present(task) => Present(r)) /\ r.lease \in {task.lease, None}
  <2>1. mem' = [mem EXCEPT ![p][t] = next] /\ stray' = stray
    BY <1>4 DEF Control
  <2>2. Kept(Seen(task)) /\ Seen(task).status = task.status /\ Seen(task).lease = task.lease
    BY <1>0 DEF Seen, Record, Task, Ended, Present
  <2>3. Kept(Commanded(t, Seen(task), verb))
    BY <2>2, CommandedIsRecord DEF Present
  <2>4. task.status \in PREEMPTABLE => Kept(Move(t, task, "cancelled", NoReason))
    <3>1. task.status \in PREEMPTABLE => Move(t, task, "cancelled", NoReason) \in Record
      BY <1>0, MoveIsRecord, NamesAreLegal DEF IsTerminal
    <3>2. /\ Move(t, task, "cancelled", NoReason).status = "cancelled"
          /\ Move(t, task, "cancelled", NoReason).lease = None
      BY <1>0, MoveFields, NamesAreLegal DEF Completes, IsTerminal
    <3> QED BY <3>1, <3>2 DEF Present, Absent
  <2>5. Kept(next)
    <3> HIDE DEF Kept
    <3>1. Kept(task)
      BY <1>0 DEF Kept
    <3> QED BY <2>2, <2>3, <2>4, <3>1
  <2> HIDE DEF next
  <2> QED BY <1>1, <2>1, <2>5
<1>5. CASE Revisit(p, t)
  <2>1. mem[p][t].status = "pr-open"
    BY <1>5 DEF Revisit, LoopsOK, LoopOK
  <2>2. ASSUME NEW to \in {"complete", "failed"}
        PROVE  /\ Move(t, mem[p][t], to, NoReason) \in Record
               /\ Present(Move(t, mem[p][t], to, NoReason))
               /\ Move(t, mem[p][t], to, NoReason).lease \in {mem[p][t].lease, None}
    <3>1. Move(t, mem[p][t], to, NoReason) \in Record
      BY <1>0, MoveIsRecord, NamesAreLegal DEF IsTerminal
    <3>2. Move(t, mem[p][t], to, NoReason).status = to /\ Move(t, mem[p][t], to, NoReason).lease = None
      BY <1>0, MoveFields, NamesAreLegal DEF Completes, IsTerminal
    <3> QED BY <3>1, <3>2 DEF Present, Absent
  <2>3. stray' = stray
    BY <1>5 DEF Revisit
  <2>4. \/ mem' = mem
        \/ \E to \in {"complete", "failed"} : mem' = [mem EXCEPT ![p][t] = Move(t, mem[p][t], to, NoReason)]
    BY <1>5 DEF Revisit
  <2> QED BY <1>1, <1>2, <2>2, <2>3, <2>4
<1>6. CASE ParkOnDependency(p, t) \/ Claim(p, t)
  <2> DEFINE task == Obj(p, t)
  <2>1. task.status = "pending" /\ task \in Record /\ task \in Task
    BY <1>6, ObjIsRecord, RecordFacts DEF ParkOnDependency, Claim, Considers, LoopsOK, LoopOK
  <2>2. task.attempts < MaxAttempts
    BY <2>1, RecordFacts, NamesAreLegal
  <2>3. ASSUME NEW to \in {"waiting", "dead-lettered", "running"}, NEW why \in {"dependency", NoReason},
               to = "waiting" => why = "dependency"
        PROVE  /\ Move(t, task, to, why) \in Record
               /\ Present(Move(t, task, to, why)) /\ Move(t, task, to, why).lease \in {task.lease, None}
    BY <2>1, <2>2, <2>3, MoveIsRecord, MoveFields, NamesAreLegal DEF IsTerminal, Present
  <2>4. CASE ParkOnDependency(p, t)
    BY <2>1, <2>3, <2>4 DEF ParkOnDependency, StepWrites
  <2>5. CASE Claim(p, t)
    <3> DEFINE moved == Move(t, task, "running", NoReason)
               new == [moved EXCEPT !.lease = p]
    <3>1. moved \in Record /\ Present(moved)
      BY <2>3
    <3>2. new \in Record /\ Present(new) /\ new.lease = p
      <4> HIDE DEF moved
      <4> QED BY <3>1 DEF Record, Task, Ended, Present
    <3>3. PutObj(p, t, new)
      BY <2>5 DEF Claim
    <3> HIDE DEF new
    <3> QED BY <2>1, <2>5, <3>2, <3>3 DEF StepWrites
  <2> QED BY <1>6, <2>4, <2>5
<1>7. CASE ClaimRefused(p, t)
  BY <1>2, <1>7 DEF ClaimRefused
<1> QED BY <1>3, <1>4, <1>5, <1>6, <1>7

\* Hence no step of a loop leaves anything but records.
LEMMA LoopStepsKeepRecords ==
  ASSUME RecordsOK, LoopsOK, NEW p \in Pulses, NEW t \in Tasks,
         \/ Reconcile(p, t) \/ Control(p, t) \/ Revisit(p, t)
         \/ ParkOnDependency(p, t) \/ ClaimRefused(p, t) \/ Claim(p, t)
  PROVE  /\ RecordsOK'
         /\ \A q \in Pulses, u \in Tasks : Present(mem[q][u]) => Present(mem'[q][u])
<1>0. /\ mem \in [Pulses -> [Tasks -> Record]] /\ stray \in [Pulses -> [Tasks -> Record \cup {Attached}]]
      /\ disk \in [Tasks -> Record]
  BY DEF RecordsOK
<1>1. disk' = disk
  BY DEF Reconcile, Control, Revisit, ParkOnDependency, ClaimRefused, Claim, diskVars, fileVars
<1>2. PICK old, new : StepWrites(p, t, old, new)
  BY LoopStepEffect
<1>3. new \in Record /\ (Present(old) => Present(new))
  BY <1>2 DEF StepWrites
<1>4. CASE old = mem[p][t] /\ mem' = [mem EXCEPT ![p][t] = new] /\ stray' = stray
  BY <1>0, <1>1, <1>3, <1>4 DEF RecordsOK
<1>5. CASE old = Obj(p, t) /\ PutObj(p, t, new)
  <2>1. RecordsOK'
    BY <1>0, <1>1, <1>3, <1>5, PutObjEffect DEF RecordsOK
  <2>2. mem' = mem \/ (old = mem[p][t] /\ mem' = [mem EXCEPT ![p][t] = new])
    BY <1>5 DEF PutObj, Obj
  <2> QED BY <1>0, <1>3, <2>1, <2>2
<1> QED BY <1>2, <1>4, <1>5 DEF StepWrites

\* Whatever the steps, memory and file hold nothing but records.
LEMMA RecordsInductive == FrameOK /\ CurrentOK /\ LoopsOK /\ RecordsOK /\ [Next]_vars => RecordsOK'
<1> SUFFICES ASSUME FrameOK, CurrentOK, LoopsOK, RecordsOK, [Next]_vars PROVE RecordsOK'
  OBVIOUS
<1>0. /\ mem \in [Pulses -> [Tasks -> Record]] /\ stray \in [Pulses -> [Tasks -> Record \cup {Attached}]]
      /\ disk \in [Tasks -> Record]
  BY DEF RecordsOK
<1>1. ASSUME UNCHANGED <<disk, mem, stray>> PROVE RecordsOK'
  BY <1>1 DEF RecordsOK
<1>2. Nothing \in [Tasks -> Record] /\ NoStray \in [Tasks -> Record \cup {Attached}]
  BY RecordFacts DEF Nothing, NoStray
<1> USE DEF diskVars, fileVars, leaseVars, history
<1>3. CASE UserOrClock
  BY <1>1, <1>3 DEF UserOrClock, Post, CloseIssue, LeaseRunsOut, MirrorRunsOut
<1>4. ASSUME NEW p \in Pulses, Load(p) PROVE RecordsOK'
  BY <1>0, <1>4 DEF Load, RecordsOK
<1>5. ASSUME NEW p \in Pulses, SweepOrphans(p) \/ ControlDone(p) \/ Persist(p) \/ Throw(p) \/ Baseline(p)
      PROVE  RecordsOK'
  BY <1>1, <1>5 DEF SweepOrphans, ControlDone, Persist, Throw, Baseline
<1>6. ASSUME NEW p \in Pulses, Intake(p) PROVE RecordsOK'
  <2>1. PICK new \in [Tasks -> BOOLEAN] :
          mem' = [mem EXCEPT ![p] = [t \in Tasks |-> IF new[t] THEN NewTask ELSE mem[p][t]]]
    <3>1. PICK listing \in Listings :
            mem' = [mem EXCEPT ![p] =
              [t \in Tasks |-> IF t \in {u \in Tasks : listing[u].open /\ ~Present(mem[p][u])}
                               THEN NewTask ELSE mem[p][t]]]
      BY <1>6 DEF Intake
    <3>2. DEFINE new == [t \in Tasks |-> t \in {u \in Tasks : listing[u].open /\ ~Present(mem[p][u])}]
    <3>3. new \in [Tasks -> BOOLEAN]
      OBVIOUS
    <3> QED BY <3>1, <3>3
  <2>2. UNCHANGED <<disk, stray>>
    BY <1>6 DEF Intake
  <2>3. [t \in Tasks |-> IF new[t] THEN NewTask ELSE mem[p][t]] \in [Tasks -> Record]
    BY <1>0, RecordFacts
  <2> QED BY <1>0, <2>1, <2>2, <2>3 DEF RecordsOK
<1>7. ASSUME NEW p \in Pulses, BeginClaims(p) \/ StopClaims(p) PROVE RecordsOK'
  <2>1. UNCHANGED <<disk, stray>> /\ (mem' = mem \/ TidyUp(p))
    BY <1>7 DEF BeginClaims, StopClaims
  <2>2. CASE TidyUp(p)
    <3>1. PICK old : mem' = [mem EXCEPT ![p] = [t \in Tasks |-> IF t \in old THEN NoTask ELSE mem[p][t]]]
      BY <2>2 DEF TidyUp
    <3>2. [t \in Tasks |-> IF t \in old THEN NoTask ELSE mem[p][t]] \in [Tasks -> Record]
      BY <1>0, RecordFacts
    <3> QED BY <1>0, <2>1, <3>1, <3>2 DEF RecordsOK
  <2> QED BY <1>1, <2>1, <2>2
<1>8. ASSUME NEW p \in Pulses, EndRun(p) PROVE RecordsOK'
  <2>1. cur[p] \in Tasks /\ Obj(p, cur[p]).status = "running"
    BY <1>8, NoneAssumption DEF EndRun, LoopsOK, LoopOK, CurrentOK, FrameOK
  <2>2. PICK next \in RunResults(cur[p], Obj(p, cur[p])) : PutObj(p, cur[p], next)
    BY <1>8 DEF EndRun
  <2>3. next \in Record
    BY <2>1, ObjIsRecord, RunResultsAreRecords
  <2>4. disk' = disk
    BY <1>8 DEF EndRun
  <2> QED BY <1>0, <2>1, <2>2, <2>3, <2>4, PutObjEffect DEF RecordsOK
<1>9. ASSUME NEW p \in Pulses, ReadFile(p) \/ SaveClaim(p) \/ SaveRun(p) \/ SaveEnd(p) PROVE RecordsOK'
  BY <1>9, SaveEffect, ReadFileEffect DEF SaveClaim, SaveRun, SaveEnd
<1>10. ASSUME NEW p \in Pulses, Crash(p) PROVE RecordsOK'
  BY <1>0, <1>2, <1>10 DEF Crash, RecordsOK
<1>11. CASE UNCHANGED vars
  BY <1>1, <1>11 DEF vars
<1> QED
  BY <1>3, <1>4, <1>5, <1>6, <1>7, <1>8, <1>9, <1>10, <1>11, LoopStepsKeepRecords DEF Next, PulseStep

\* A pulse that does not move relies on what it relied on.
LEMMA LoopUntouched ==
  ASSUME NEW q \in Pulses, LoopOK(q), pc'[q] = pc[q], todo'[q] \subseteq todo[q], cur'[q] = cur[q],
         owned'[q] = owned[q], mem'[q] = mem[q], stray'[q] = stray[q]
  PROVE  LoopOK(q)'
  BY DEF LoopOK, Obj

\* Between two steps nothing takes away what a loop has checked: a claimed task was queued, a
\* task that runs is marked so, and what it depends on stays complete.
LEMMA LoopsInductive == FrameOK /\ CurrentOK /\ RecordsOK /\ LoopsOK /\ [Next]_vars => LoopsOK'
<1> SUFFICES ASSUME FrameOK, CurrentOK, RecordsOK, LoopsOK, [Next]_vars, NEW q \in Pulses
             PROVE  LoopOK(q)'
  BY DEF LoopsOK
<1>0. /\ pc \in [Pulses -> PC] /\ cur \in [Pulses -> Tasks \cup {None}]
      /\ todo \in [Pulses -> SUBSET Tasks] /\ owned \in [Pulses -> SUBSET Tasks]
  BY DEF FrameOK
<1>m. mem \in [Pulses -> [Tasks -> Record]] /\ stray \in [Pulses -> [Tasks -> Record \cup {Attached}]]
  BY DEF RecordsOK
<1>a. LoopOK(q)
  BY DEF LoopsOK
<1>d. \A t \in Tasks : Deps[t] \subseteq Tasks
  BY DepsAssumption
<1>e. pc'[q] \in {"end", "done", "dead"} => LoopOK(q)'
  BY DEF LoopOK
<1> USE DEF PC, Goto, diskVars, fileVars, leaseVars, history
<1>1. ASSUME UserOrClock PROVE LoopOK(q)'
  <2>1. UNCHANGED <<pc, todo, cur, owned, mem, stray>>
    BY <1>1 DEF UserOrClock, Post, CloseIssue, LeaseRunsOut, MirrorRunsOut
  <2> QED BY <1>a, <2>1, LoopUntouched
<1>2. ASSUME NEW p \in Pulses, p # q, PulseStep(p) \/ Throw(p) \/ Crash(p) PROVE LoopOK(q)'
  <2>1. /\ pc'[q] = pc[q] /\ todo'[q] = todo[q] /\ cur'[q] = cur[q] /\ owned'[q] = owned[q]
    <3>1. CASE Load(p) \/ SweepOrphans(p) \/ Intake(p) \/ ControlDone(p) \/ BeginClaims(p) \/ StopClaims(p)
      BY <1>0, <1>2, <3>1 DEF Load, SweepOrphans, Intake, ControlDone, BeginClaims, StopClaims
    <3>2. CASE \/ Persist(p) \/ EndRun(p) \/ SaveClaim(p) \/ SaveRun(p) \/ SaveEnd(p)
               \/ ReadFile(p) \/ Baseline(p)
      BY <1>0, <1>2, <3>2 DEF Persist, EndRun, SaveClaim, SaveRun, SaveEnd, Save, ReadFile, Baseline
    <3>3. ASSUME NEW t \in Tasks, \/ Reconcile(p, t) \/ Control(p, t) \/ Revisit(p, t)
                                  \/ ParkOnDependency(p, t) \/ ClaimRefused(p, t) \/ Claim(p, t)
          PROVE  pc'[q] = pc[q] /\ todo'[q] = todo[q] /\ cur'[q] = cur[q] /\ owned'[q] = owned[q]
      BY <1>0, <1>2, <3>3
      DEF Reconcile, Control, Revisit, ParkOnDependency, ClaimRefused, Claim, Considers
    <3>4. CASE Throw(p) \/ Crash(p)
      BY <1>0, <1>2, <3>4 DEF Throw, Crash
    <3> QED BY <1>2, <3>1, <3>2, <3>3, <3>4 DEF PulseStep
  <2>2. mem'[q] = mem[q] /\ stray'[q] = stray[q]
    <3>1. CASE Load(p) \/ SweepOrphans(p) \/ Intake(p) \/ ControlDone(p) \/ BeginClaims(p) \/ StopClaims(p)
      BY <1>m, <1>2, <3>1 DEF Load, SweepOrphans, Intake, ControlDone, BeginClaims, StopClaims, TidyUp
    <3>2. CASE \/ Persist(p) \/ EndRun(p) \/ SaveClaim(p) \/ SaveRun(p) \/ SaveEnd(p)
               \/ ReadFile(p) \/ Baseline(p)
      BY <1>m, <1>2, <3>2
      DEF Persist, EndRun, PutObj, SaveClaim, SaveRun, SaveEnd, Save, ReadFile, Baseline
    <3>3. ASSUME NEW t \in Tasks, \/ Reconcile(p, t) \/ Control(p, t) \/ Revisit(p, t)
                                  \/ ParkOnDependency(p, t) \/ ClaimRefused(p, t) \/ Claim(p, t)
          PROVE  mem'[q] = mem[q] /\ stray'[q] = stray[q]
      BY <1>m, <1>2, <3>3
      DEF Reconcile, Control, Revisit, ParkOnDependency, ClaimRefused, Claim, PutObj
    <3>4. CASE Throw(p) \/ Crash(p)
      BY <1>m, <1>2, <3>4 DEF Throw, Crash
    <3> QED BY <1>2, <3>1, <3>2, <3>3, <3>4 DEF PulseStep
  <2> QED BY <1>a, <2>1, <2>2, LoopUntouched
<1>3. ASSUME Load(q) \/ SweepOrphans(q) \/ Intake(q) PROVE LoopOK(q)'
  <2>1. /\ pc'[q] \in {"reconcile", "intake", "control", "end"}
        /\ stray' = stray /\ owned' = owned /\ pc[q] \in {"idle", "reconcile", "intake"}
    BY <1>0, <1>3 DEF Load, SweepOrphans, Intake
  <2> QED BY <1>a, <2>1 DEF LoopOK
<1>4. ASSUME ControlDone(q) PROVE LoopOK(q)'
  BY <1>0, <1>a, <1>4 DEF ControlDone, LoopOK
<1>5. ASSUME BeginClaims(q) PROVE LoopOK(q)'
  <2>1. CASE mode[q] = "drain"
    BY <1>0, <1>5, <1>e, <2>1 DEF BeginClaims
  <2>2. CASE mode[q] # "drain"
    <3>1. /\ pc'[q] = "claim" /\ todo'[q] = {t \in Tasks : mem[q][t].status = "pending"}
          /\ stray[q] = NoStray /\ UNCHANGED <<mem, stray>>
      BY <1>0, <1>a, <1>5, <2>2 DEF BeginClaims, LoopOK
    <3> QED BY <3>1 DEF LoopOK, Obj, NoStray
  <2> QED BY <2>1, <2>2
<1>6. ASSUME StopClaims(q) \/ SaveEnd(q) \/ Throw(q) \/ Crash(q) PROVE LoopOK(q)'
  BY <1>0, <1>6, <1>e DEF StopClaims, SaveEnd, Save, Throw, Crash
<1>7. ASSUME Persist(q) \/ Baseline(q) PROVE LoopOK(q)'
  BY <1>a, <1>7, LoopUntouched DEF Persist, Baseline
<1>8. ASSUME EndRun(q) PROVE LoopOK(q)'
  <2>1. cur[q] \in Tasks /\ cur[q] \notin todo[q] /\ pc[q] = "run"
    BY <1>0, <1>8, NoneAssumption DEF EndRun, CurrentOK
  <2>2. PICK next \in RunResults(cur[q], Obj(q, cur[q])) : PutObj(q, cur[q], next)
    BY <1>8 DEF EndRun
  <2>3. next \in Record
    BY <1>a, <2>1, ObjIsRecord, RunResultsAreRecords DEF LoopOK
  <2>4. \A u \in Tasks : u # cur[q] => Obj(q, u)' = Obj(q, u)
    BY <2>1, <2>2, <2>3, PutObjEffect
  <2>5. pc'[q] = "ran" /\ todo' = todo
    BY <1>0, <1>8 DEF EndRun
  <2> QED BY <1>0, <1>a, <2>1, <2>4, <2>5 DEF LoopOK
<1>9. ASSUME SaveClaim(q) \/ SaveRun(q) PROVE LoopOK(q)'
  <2>1. \A t \in Tasks : Obj(q, t)' = Obj(q, t)
    BY <1>9, SaveEffect DEF SaveClaim, SaveRun, Obj
  <2>2. \/ pc[q] = "claimed" /\ pc'[q] = "run" /\ cur' = cur /\ cur[q] \in Tasks
        \/ pc[q] = "ran" /\ pc'[q] = "claim"
    BY <1>0, <1>9, NoneAssumption DEF SaveClaim, SaveRun, Save, CurrentOK
  <2>3. todo'[q] = todo[q] /\ todo[q] \subseteq Tasks
    BY <1>0, <1>9 DEF SaveClaim, SaveRun
  <2> QED BY <1>a, <1>d, <2>1, <2>2, <2>3 DEF LoopOK
<1>10. ASSUME NEW t \in Tasks, Reconcile(q, t) \/ Control(q, t) PROVE LoopOK(q)'
  BY <1>0, <1>a, <1>10 DEF Reconcile, Control, LoopOK
<1>11. ASSUME NEW t \in Tasks, Revisit(q, t) PROVE LoopOK(q)'
  <2>1. /\ pc[q] = "revisit" /\ pc' = pc /\ todo'[q] = todo[q] \ {t} /\ UNCHANGED <<stray, owned>>
        /\ \A u \in Tasks : u # t => mem'[q][u] = mem[q][u]
    BY <1>0, <1>m, <1>11 DEF Revisit
  <2> QED BY <1>0, <1>a, <2>1 DEF LoopOK
<1>12. ASSUME NEW t \in Tasks, ParkOnDependency(q, t) \/ Claim(q, t) PROVE LoopOK(q)'
  <2>1. pc[q] = "claim" /\ t \in todo[q] /\ todo'[q] = todo[q] \ {t} /\ Obj(q, t).status = "pending"
    BY <1>0, <1>a, <1>12 DEF ParkOnDependency, Claim, Considers, LoopOK
  <2>2. Obj(q, t) \in Record /\ Obj(q, t) \in Task /\ Obj(q, t).attempts < MaxAttempts
    BY <2>1, ObjIsRecord, RecordFacts, NamesAreLegal
  <2>3. ASSUME ParkOnDependency(q, t) PROVE LoopOK(q)'
    <3>1. /\ Move(t, Obj(q, t), "waiting", "dependency") \in Record
          /\ Move(t, Obj(q, t), "dead-lettered", NoReason) \in Record
      BY <2>2, MoveIsRecord, NamesAreLegal DEF IsTerminal
    <3>2. \A u \in Tasks : u # t => Obj(q, u)' = Obj(q, u)
      BY <2>3, <3>1, PutObjEffect DEF ParkOnDependency
    <3>3. pc' = pc
      BY <2>3 DEF ParkOnDependency
    <3> QED BY <1>0, <1>a, <2>1, <3>2, <3>3 DEF LoopOK
  <2>4. ASSUME Claim(q, t) PROVE LoopOK(q)'
    <3> DEFINE new == [Move(t, Obj(q, t), "running", NoReason) EXCEPT !.lease = q]
    <3>1. Move(t, Obj(q, t), "running", NoReason) \in Record
      BY <2>2, MoveIsRecord, NamesAreLegal DEF IsTerminal
    <3>2. Move(t, Obj(q, t), "running", NoReason).status = "running"
      BY <2>2, MoveFields
    <3>3. new \in Record /\ new.status = "running"
      BY <3>1, <3>2 DEF Record, Task, Ended
    <3> HIDE DEF new
    <3>4. Obj(q, t)' = new /\ \A u \in Tasks : u # t => Obj(q, u)' = Obj(q, u)
      BY <2>4, <3>3, PutObjEffect DEF Claim, new
    <3>5. \A d \in Deps[t] : d # t /\ Obj(q, d).status = "complete"
      <4>1. \A d \in Deps[t] : Obj(q, d).status = "complete"
        BY <2>4 DEF Claim, DepState
      <4> QED BY <2>1, <4>1
    <3>6. pc'[q] = "claimed" /\ cur'[q] = t
      BY <1>0, <2>4 DEF Claim
    <3> QED BY <1>0, <1>a, <1>d, <2>1, <3>3, <3>4, <3>5, <3>6 DEF LoopOK
  <2> QED BY <1>12, <2>3, <2>4
<1>13. ASSUME NEW t \in Tasks, ClaimRefused(q, t) PROVE LoopOK(q)'
  <2>1. todo'[q] \subseteq todo[q] /\ UNCHANGED <<pc, cur, owned, mem, stray>>
    BY <1>0, <1>13 DEF ClaimRefused, Considers
  <2> QED BY <1>a, <2>1, LoopUntouched
<1>14. ASSUME ReadFile(q) PROVE LoopOK(q)'
  <2>1. \A t \in Tasks : Obj(q, t)' = Obj(q, t)
    BY <1>14, ReadFileEffect
  <2>2. pc[q] \in {"claimed", "ran", "end"} /\ UNCHANGED <<pc, todo, cur>>
    BY <1>14 DEF ReadFile
  <2>3. cur[q] \in Tasks \cup {None} /\ todo[q] \subseteq Tasks /\ (pc[q] = "claimed" => cur[q] \in Tasks)
    BY <1>0, NoneAssumption DEF CurrentOK
  <2> QED BY <1>a, <1>d, <2>1, <2>2, <2>3 DEF LoopOK
<1>15. CASE UNCHANGED vars
  BY <1>15, <1>a, LoopUntouched DEF vars
<1> QED
  BY <1>1, <1>2, <1>3, <1>4, <1>5, <1>6, <1>7, <1>8, <1>9, <1>10, <1>11, <1>12, <1>13, <1>14, <1>15
  DEF Next, PulseStep

\* The frame, the records and what the loops rely on hold in every state.
LEMMA Engine == Spec => [](FrameOK /\ CurrentOK /\ RecordsOK /\ LoopsOK)
<1>1. Init => RecordsOK /\ LoopsOK
  <2> SUFFICES ASSUME Init PROVE RecordsOK /\ LoopsOK
    OBVIOUS
  <2>1. Nothing \in [Tasks -> Record] /\ NoStray \in [Tasks -> Record \cup {Attached}]
    BY RecordFacts DEF Nothing, NoStray
  <2>2. RecordsOK
    BY <2>1, RecordFacts DEF Init, RecordsOK
  <2>3. LoopsOK
    BY DEF Init, LoopsOK, LoopOK
  <2> QED BY <2>2, <2>3
<1> QED BY <1>1, Frame, RecordsInductive, LoopsInductive, PTL DEF Spec

\* Every variable keeps its type, and only a waiting task has a reason to wait.
THEOREM TypeCorrect == Spec => []TypeOK
<1>1. FrameOK /\ RecordsOK => TypeOK
  <2> SUFFICES ASSUME FrameOK, RecordsOK PROVE TypeOK
    OBVIOUS
  <2>1. disk \in [Tasks -> Task] /\ mem \in [Pulses -> [Tasks -> Task]]
    BY RecordFacts DEF RecordsOK
  <2>2. \A t \in Tasks : disk[t].status = "waiting" <=> disk[t].waitReason # NoReason
    BY DEF RecordsOK, Record
  <2>3. \A p \in Pulses, t \in Tasks : stray[p][t] \in Task \cup {Attached}
    BY RecordFacts DEF RecordsOK
  <2> QED BY <2>1, <2>2, <2>3 DEF TypeOK, FrameOK
<1> QED BY <1>1, Engine, PTL

\* While a task runs, what it depends on is complete in the eyes of the pulse that runs it
\* (pulse.js:522-528): for any graph of dependencies and any pulses that write meanwhile.
THEOREM DependenciesComplete == Spec => []DependenciesFirst
<1>1. LoopsOK => DependenciesFirst
  BY DEF LoopsOK, LoopOK, DependenciesFirst
<1> QED BY <1>1, Engine, PTL
-----------------------------------------------------------------------------
(***************************************************************************)
(* No task is lost.                                                        *)
(***************************************************************************)

\* p has been passed by: others wrote t's record since p loaded it, and either p will merge
\* that record when it next saves, or it was written in the course of a save of p's.
PassedBy(p, t) ==
  t \in changed[p] /\ (t \in unseen[p] \/ (foreign[p] /\ save[p] \in {"none", "same"}))

\* A task of the file that a pulse does not have is one that it has put in the archive, or
\* one that has passed it by.
KnownOrMerged ==
  \A p \in Pulses, t \in Tasks :
    Active(p) /\ Present(disk[t]) /\ ~Present(mem[p][t])
      => PassedBy(p, t) \/ (t \in gone /\ Ended(disk[t]))

\* A save that drops a task from the file drops one that is in the archive, or that came into
\* the file while the save was under way.
LEMMA SaveLosesNothing ==
  ASSUME FrameOK, RecordsOK, KnownOrMerged, NEW p \in Pulses, Active(p), NEW l, Save(p, l),
         NEW t \in Tasks, Present(disk[t]), ~Present(disk'[t])
  PROVE  (t \in gone /\ Ended(disk[t])) \/ (Renames(p) /\ t \in unseen[p])
<1>1. disk'[t] = IF save[p] = "read" THEN mem[p][t] ELSE disk[t]
  BY SaveEffect
<1>2. save[p] = "read" /\ ~Present(mem[p][t])
  BY <1>1
<1>3. Renames(p)
  BY <1>2 DEF Renames, Save, FrameOK
<1> QED BY <1>2, <1>3 DEF KnownOrMerged, PassedBy

\* A pulse that renames passes every other one by with each task whose record is another now.
LEMMA SaveIsNoticed ==
  ASSUME FrameOK, RecordsOK, NEW p \in Pulses, NEW l, Save(p, l), NEW r \in Pulses, r # p, Active(r),
         NEW u \in Tasks
  PROVE  /\ disk'[u] # disk[u] => PassedBy(r, u)'
         /\ PassedBy(r, u) => PassedBy(r, u)'
<1> DEFINE now == IF save[p] = "read" THEN mem[p] ELSE disk
           written == {t \in Tasks : now[t] # disk[t]}
           open == {q \in Pulses : Active(q) /\ (q = p => l # "done")}
           saving == {q \in open \ {p} : save[q] \in {"read", "written"}}
<1>1. /\ disk' = now
      /\ changed' = [q \in Pulses |-> IF q \in open THEN changed[q] \cup written ELSE {}]
      /\ foreign' = [q \in Pulses |-> q \in open /\ (foreign[q] \/ (save[p] = "read" /\ q # p))]
      /\ unseen' = [q \in Pulses |-> IF q \in saving THEN unseen[q] \cup written
                                    ELSE IF q \in open THEN unseen[q] ELSE {}]
  BY DEF Save
<1>2. r \in open /\ save[r] \in SavePhases /\ save'[r] = save[r]
  BY DEF Save, FrameOK
<1>3. r \in saving <=> save[r] \in {"read", "written"}
  BY <1>2
<1>4. disk'[u] # disk[u] => u \in written /\ save[p] = "read"
  BY <1>1
<1> HIDE DEF now, written, open, saving
<1>5. /\ changed'[r] = changed[r] \cup written
      /\ unseen'[r] = IF r \in saving THEN unseen[r] \cup written ELSE unseen[r]
      /\ foreign'[r] = (foreign[r] \/ save[p] = "read")
  BY <1>1, <1>2
<1>6. save[r] \in {"none", "same"} \/ r \in saving
  BY <1>2, <1>3 DEF SavePhases
<1> QED BY <1>2, <1>4, <1>5, <1>6 DEF PassedBy

\* Only a save writes the file.
LEMMA OnlySavesWrite ==
  ASSUME [Next]_vars, disk' # disk
  PROVE  \E p \in Pulses : SaveClaim(p) \/ SaveRun(p) \/ SaveEnd(p)
<1> USE DEF diskVars, fileVars
<1>1. ~UNCHANGED vars
  BY DEF vars
<1>2. ~UserOrClock
  BY DEF UserOrClock, Post, CloseIssue, LeaseRunsOut, MirrorRunsOut
<1>3. PICK p \in Pulses : PulseStep(p) \/ Throw(p) \/ Crash(p)
  BY <1>1, <1>2 DEF Next
<1>4. ~(Throw(p) \/ Crash(p) \/ Load(p) \/ SweepOrphans(p) \/ Intake(p) \/ ControlDone(p))
  BY DEF Throw, Crash, Load, SweepOrphans, Intake, ControlDone
<1>8. ~(ReadFile(p) \/ Baseline(p))
  BY DEF ReadFile, Baseline
<1>5. ~(BeginClaims(p) \/ StopClaims(p) \/ Persist(p) \/ EndRun(p))
  BY DEF BeginClaims, StopClaims, Persist, EndRun
<1>6. ASSUME NEW t \in Tasks
      PROVE  ~(Reconcile(p, t) \/ Control(p, t) \/ Revisit(p, t))
  BY DEF Reconcile, Control, Revisit
<1>7. ASSUME NEW t \in Tasks
      PROVE  ~(ParkOnDependency(p, t) \/ ClaimRefused(p, t) \/ Claim(p, t))
  BY DEF ParkOnDependency, ClaimRefused, Claim
<1> QED BY <1>3, <1>4, <1>5, <1>6, <1>7, <1>8 DEF PulseStep

\* No step makes a pulse forget a task that the file has: Intake and the claims only add, and
\* housekeeping drops what it has archived (archive.js).
LEMMA KnownInductive ==
  FrameOK /\ CurrentOK /\ RecordsOK /\ LoopsOK /\ KnownOrMerged /\ [Next]_vars => KnownOrMerged'
<1> SUFFICES ASSUME FrameOK, CurrentOK, RecordsOK, LoopsOK, KnownOrMerged, [Next]_vars,
                    NEW q \in Pulses, NEW t \in Tasks,
                    Active(q)', Present(disk'[t]), ~Present(mem'[q][t])
             PROVE  PassedBy(q, t)' \/ (t \in gone' /\ Ended(disk'[t]))
  BY DEF KnownOrMerged
<1> DEFINE Fine == PassedBy(q, t)' \/ (t \in gone' /\ Ended(disk'[t]))
<1>0. /\ pc \in [Pulses -> PC] /\ gone \subseteq Tasks /\ foreign \in [Pulses -> BOOLEAN]
      /\ changed \in [Pulses -> SUBSET Tasks] /\ save \in [Pulses -> SavePhases]
      /\ unseen \in [Pulses -> SUBSET Tasks]
  BY DEF FrameOK
<1>m. mem \in [Pulses -> [Tasks -> Record]]
  BY DEF RecordsOK
<1>a. Active(q) /\ Present(disk[t]) /\ ~Present(mem[q][t])
        => PassedBy(q, t) \/ (t \in gone /\ Ended(disk[t]))
  BY DEF KnownOrMerged
<1>b. ASSUME Active(q), disk' = disk, PassedBy(q, t) => PassedBy(q, t)',
             gone \subseteq gone', Present(mem[q][t]) => Present(mem'[q][t])
      PROVE  Fine
  BY <1>a, <1>b
<1>c. UNCHANGED <<foreign, changed, save, unseen>> => (PassedBy(q, t) => PassedBy(q, t)')
  BY DEF PassedBy
<1> HIDE DEF Fine
<1> USE DEF PC, Goto, diskVars, fileVars, leaseVars, history
<1>1. ASSUME UserOrClock PROVE Fine
  <2>1. UNCHANGED <<pc, disk, foreign, changed, save, unseen, gone, mem>>
    BY <1>1 DEF UserOrClock, Post, CloseIssue, LeaseRunsOut, MirrorRunsOut
  <2> QED BY <1>b, <1>c, <2>1 DEF Active
<1>2. ASSUME NEW p \in Pulses, Load(p) PROVE Fine
  <2>1. p # q
    BY <1>2, <1>m DEF Load
  <2>2. Active(q) /\ disk' = disk /\ gone' = gone /\ mem'[q] = mem[q]
        /\ (PassedBy(q, t) => PassedBy(q, t)')
    BY <1>0, <1>m, <1>2, <2>1 DEF Load, Active, PassedBy
  <2> QED BY <1>b, <2>2
<1>3. ASSUME NEW p \in Pulses, SweepOrphans(p) \/ ControlDone(p) \/ Persist(p) \/ Throw(p) PROVE Fine
  <2>1. Active(q) /\ UNCHANGED <<disk, foreign, changed, save, unseen, gone, mem>>
    BY <1>0, <1>3 DEF SweepOrphans, ControlDone, Persist, Throw, Active
  <2> QED BY <1>b, <1>c, <2>1
<1>4. ASSUME NEW p \in Pulses, Intake(p) PROVE Fine
  <2>1. Active(q) /\ UNCHANGED <<disk, foreign, changed, save, unseen, gone>>
    BY <1>0, <1>4 DEF Intake, Active
  <2>2. PICK listing \in Listings :
          mem' = [mem EXCEPT ![p] =
            [u \in Tasks |-> IF u \in {v \in Tasks : listing[v].open /\ ~Present(mem[p][v])}
                             THEN NewTask ELSE mem[p][u]]]
    BY <1>4 DEF Intake
  <2>3. Present(NewTask)
    BY DEF Present, NewTask, Absent
  <2>4. Present(mem[q][t]) => Present(mem'[q][t])
    BY <1>m, <2>2, <2>3
  <2> QED BY <1>b, <1>c, <2>1, <2>4
<1>5. ASSUME NEW p \in Pulses, BeginClaims(p) \/ StopClaims(p) PROVE Fine
  <2>1. Active(q) /\ UNCHANGED <<disk, foreign, changed, save, unseen>>
    BY <1>0, <1>5 DEF BeginClaims, StopClaims, Active
  <2>2. UNCHANGED <<mem, gone>> \/ TidyUp(p)
    BY <1>5 DEF BeginClaims, StopClaims
  <2>3. CASE TidyUp(p)
    <3>1. PICK old \in SUBSET LongEnded(p) :
            /\ gone' = gone \cup old
            /\ mem' = [mem EXCEPT ![p] = [u \in Tasks |-> IF u \in old THEN NoTask ELSE mem[p][u]]]
      BY <2>3 DEF TidyUp
    <3>2. CASE p = q /\ t \in old
      BY <2>1, <3>1, <3>2 DEF LongEnded, Fine
    <3>3. CASE ~(p = q /\ t \in old)
      <4>1. mem'[q][t] = mem[q][t]
        BY <1>m, <3>1, <3>3
      <4> QED BY <1>b, <1>c, <2>1, <3>1, <4>1
    <3> QED BY <3>2, <3>3
  <2> QED BY <1>b, <1>c, <2>1, <2>2, <2>3
<1>6. ASSUME NEW p \in Pulses, EndRun(p) PROVE Fine
  <2>1. Active(q) /\ UNCHANGED <<disk, foreign, changed, save, unseen, gone>>
    BY <1>0, <1>6 DEF EndRun, Active
  <2>2. cur[p] \in Tasks /\ Obj(p, cur[p]).status = "running"
    BY <1>6, NoneAssumption DEF EndRun, LoopsOK, LoopOK, CurrentOK, FrameOK
  <2>3. PICK next \in RunResults(cur[p], Obj(p, cur[p])) : PutObj(p, cur[p], next)
    BY <1>6 DEF EndRun
  <2>4. Present(next)
    BY <2>2, ObjIsRecord, RunResultsAreRecords
  <2>5. Present(mem[q][t]) => Present(mem'[q][t])
    BY <1>m, <2>2, <2>3, <2>4 DEF PutObj
  <2> QED BY <1>b, <1>c, <2>1, <2>5
<1>7. ASSUME NEW p \in Pulses, SaveClaim(p) \/ SaveRun(p) \/ SaveEnd(p) PROVE Fine
  <2>1. gone' = gone /\ \E l : Save(p, l)
    BY <1>7 DEF SaveClaim, SaveRun, SaveEnd
  <2>2. PICK l : Save(p, l)
    BY <2>1
  <2>3. CASE p = q
    <3>1. l # "done" /\ Active(q)
      BY <1>0, <1>7, <2>2, <2>3 DEF Save, SaveClaim, SaveRun, SaveEnd, Active
    <3>2. mem' = mem /\ disk'[t] = IF save[p] = "read" THEN mem[p][t] ELSE disk[t]
      BY <2>2, <3>1, SaveEffect
    <3>3. disk'[t] = disk[t] /\ save[p] = "same"
      BY <2>2, <2>3, <3>2 DEF Save
    <3>4. PassedBy(q, t) => PassedBy(q, t)'
      <4>1. /\ changed[q] \subseteq changed'[q] /\ unseen[q] \subseteq unseen'[q]
            /\ foreign[q] => foreign'[q]
        BY <2>2, <2>3, <3>1 DEF Save
      <4>2. save'[q] = "none"
        BY <1>0, <2>2, <2>3, <3>3 DEF Save
      <4> QED BY <4>1, <4>2 DEF PassedBy
    <3> QED BY <1>a, <2>1, <3>1, <3>2, <3>3, <3>4 DEF Fine
  <2>4. CASE p # q
    <3>1. Active(q) /\ mem'[q] = mem[q]
      BY <1>0, <1>m, <2>2, <2>4, SaveEffect DEF Save, Active
    <3>2. CASE disk'[t] # disk[t]
      BY <2>2, <2>4, <3>1, <3>2, SaveIsNoticed DEF Fine
    <3>3. CASE disk'[t] = disk[t]
      BY <1>a, <2>1, <2>2, <2>4, <3>1, <3>3, SaveIsNoticed DEF Fine
    <3> QED BY <3>2, <3>3
  <2> QED BY <2>3, <2>4
<1>8. ASSUME NEW p \in Pulses, Crash(p) PROVE Fine
  <2>1. p # q
    BY <1>0, <1>8 DEF Crash, Active
  <2>2. Active(q) /\ disk' = disk /\ gone' = gone /\ mem'[q] = mem[q]
        /\ (PassedBy(q, t) => PassedBy(q, t)')
    BY <1>0, <1>m, <1>8, <2>1 DEF Crash, Active, PassedBy
  <2> QED BY <1>b, <2>2
<1>9. ASSUME NEW p \in Pulses, NEW u \in Tasks,
             \/ Reconcile(p, u) \/ Control(p, u) \/ Revisit(p, u)
             \/ ParkOnDependency(p, u) \/ ClaimRefused(p, u) \/ Claim(p, u)
      PROVE  Fine
  <2>1. Active(q) /\ UNCHANGED <<disk, foreign, changed, save, unseen, gone>>
    BY <1>0, <1>9
    DEF Reconcile, Control, Revisit, ParkOnDependency, ClaimRefused, Claim, Considers, Active
  <2>2. Present(mem[q][t]) => Present(mem'[q][t])
    BY <1>9, LoopStepsKeepRecords
  <2> QED BY <1>b, <1>c, <2>1, <2>2
<1>10. ASSUME NEW p \in Pulses, ReadFile(p) PROVE Fine
  <2>1. Active(q) /\ UNCHANGED <<disk, foreign, changed, gone>>
    BY <1>0, <1>10 DEF ReadFile, Active
  <2>2. Present(mem[q][t]) => Present(mem'[q][t])
    BY <1>10, ReadFileEffect
  <2>3. PassedBy(q, t) => PassedBy(q, t)'
    <3>1. CASE p = q
      <4>1. mem'[q][t] = IF t \in Theirs(q) THEN disk[t] ELSE mem[q][t]
        BY <1>10, <3>1, ReadFileEffect
      <4>2. t \notin Theirs(q)
        BY <2>1, <4>1
      <4>3. Present(disk[t]) /\ ~Present(mem[q][t])
        BY <2>1, <4>1, <4>2
      <4>4. ~(foreign[q] /\ t \in changed[q])
        BY <4>2, <4>3 DEF Theirs, TheirsWin
      <4>5. ~foreign[q] => unseen'[q] = unseen[q]
        BY <1>0, <1>10, <3>1 DEF ReadFile
      <4> QED BY <2>1, <4>4, <4>5 DEF PassedBy
    <3>2. CASE p # q
      <4>1. save'[q] = save[q] /\ unseen'[q] = unseen[q]
        BY <1>0, <1>10, <3>2 DEF ReadFile
      <4> QED BY <2>1, <4>1 DEF PassedBy
    <3> QED BY <3>1, <3>2
  <2> QED BY <1>b, <2>1, <2>2, <2>3
<1>11. ASSUME NEW p \in Pulses, Baseline(p) PROVE Fine
  <2>1. Active(q) /\ UNCHANGED <<disk, changed, unseen, gone, mem>>
    BY <1>0, <1>11 DEF Baseline, Active
  <2>2. PassedBy(q, t) => PassedBy(q, t)'
    BY <1>0, <1>11, <2>1 DEF PassedBy, Baseline
  <2> QED BY <1>b, <2>1, <2>2
<1>12. ASSUME UNCHANGED vars PROVE Fine
  <2>1. UNCHANGED <<pc, disk, foreign, changed, save, unseen, gone, mem>>
    BY <1>12 DEF vars
  <2> QED BY <1>b, <1>c, <2>1 DEF Active
<1> QED
  BY <1>1, <1>2, <1>3, <1>4, <1>5, <1>6, <1>7, <1>8, <1>9, <1>10, <1>11, <1>12 DEF Next, PulseStep, Fine

\* store.js:217-227, archive.js:6: a task never leaves the file but for the archive, and only
\* when it has ended, whatever any number of pulses load, merge, save and archive at once; or
\* by a save that was under way when the task's record was written, and that did not read it.
THEOREM NothingIsLost == Spec => NoTaskLost
<1>1. Init => KnownOrMerged
  BY DEF Init, KnownOrMerged, Active
<1>2. FrameOK /\ CurrentOK /\ RecordsOK /\ LoopsOK /\ KnownOrMerged /\ [Next]_vars => KnownOrMerged'
  BY KnownInductive
<1>3. Spec => []KnownOrMerged
  BY <1>1, <1>2, Engine, PTL DEF Spec
<1> DEFINE Kept == \A t \in Tasks :
                     Present(disk[t]) /\ ~Present(disk'[t])
                       => \/ t \in gone /\ Ended(disk[t])
                          \/ \E p \in Pulses : Renames(p) /\ t \in unseen[p]
<1>4. FrameOK /\ RecordsOK /\ KnownOrMerged /\ [Next]_vars => [Kept]_vars
  <2> SUFFICES ASSUME FrameOK, RecordsOK, KnownOrMerged, Next,
                      NEW t \in Tasks, Present(disk[t]), ~Present(disk'[t])
               PROVE  \/ t \in gone /\ Ended(disk[t])
                      \/ \E p \in Pulses : Renames(p) /\ t \in unseen[p]
    OBVIOUS
  <2>1. disk' # disk
    OBVIOUS
  <2>2. PICK p \in Pulses : SaveClaim(p) \/ SaveRun(p) \/ SaveEnd(p)
    BY <2>1, OnlySavesWrite
  <2>3. Active(p) /\ \E l : Save(p, l)
    BY <2>2 DEF SaveClaim, SaveRun, SaveEnd, Active
  <2> QED BY <2>3, SaveLosesNothing
<1> QED BY <1>3, <1>4, Engine, PTL DEF Spec, NoTaskLost
-----------------------------------------------------------------------------
(***************************************************************************)
(* The record of a running task.                                           *)
(***************************************************************************)

\* No record bears the id of a pulse that has not claimed its task; and until the claim is
\* saved only the pulse's own copy does.
Unclaimed(q, t) == pc[q] \notin {"done", "dead"} /\ t \notin owned[q]
JustClaimed(q, t) == pc[q] = "claimed" /\ cur[q] = t

IdsAreFresh ==
  \A q \in Pulses, t \in Tasks :
    /\ Unclaimed(q, t) \/ JustClaimed(q, t)
         => /\ disk[t].lease # q
            /\ \A p \in Pulses : p # q => mem[p][t].lease # q /\ stray[p][t].lease # q
    /\ Unclaimed(q, t) => mem[q][t].lease # q /\ stray[q][t].lease # q

\* A pulse considers no task a second time.
NotClaimedTwice ==
  \A q \in Pulses : pc[q] \in {"claim", "claimed", "run", "ran"} => todo[q] \cap owned[q] = {}

\* A claim takes its task off the list of runnable tasks, which is made before the first claim.
LEMMA NotClaimedTwiceInductive ==
  FrameOK /\ CurrentOK /\ LoopsOK /\ NotClaimedTwice /\ [Next]_vars => NotClaimedTwice'
<1> SUFFICES ASSUME FrameOK, CurrentOK, LoopsOK, NotClaimedTwice, [Next]_vars PROVE NotClaimedTwice'
  OBVIOUS
<1>0. /\ pc \in [Pulses -> PC] /\ todo \in [Pulses -> SUBSET Tasks] /\ owned \in [Pulses -> SUBSET Tasks]
  BY DEF FrameOK
<1>a. \A q \in Pulses : pc[q] = "revisit" => owned[q] = {}
  BY DEF LoopsOK, LoopOK
<1> USE <1>0 DEF NotClaimedTwice, PC, Goto, diskVars, fileVars, leaseVars, history
<1>1. ASSUME UserOrClock PROVE NotClaimedTwice'
  BY <1>1 DEF UserOrClock, Post, CloseIssue, LeaseRunsOut, MirrorRunsOut
<1>2. ASSUME NEW p \in Pulses, Load(p) \/ SweepOrphans(p) \/ Intake(p) PROVE NotClaimedTwice'
  BY <1>2 DEF Load, SweepOrphans, Intake
<1>3. ASSUME NEW p \in Pulses, ControlDone(p) \/ BeginClaims(p) \/ StopClaims(p) PROVE NotClaimedTwice'
  BY <1>3, <1>a DEF ControlDone, BeginClaims, StopClaims
<1>4. ASSUME NEW p \in Pulses, Persist(p) \/ EndRun(p) PROVE NotClaimedTwice'
  BY <1>4 DEF Persist, EndRun
<1>5. ASSUME NEW p \in Pulses, SaveClaim(p) \/ SaveRun(p) \/ SaveEnd(p) PROVE NotClaimedTwice'
  BY <1>5 DEF SaveClaim, SaveRun, SaveEnd, Save
<1>6. ASSUME NEW p \in Pulses, Throw(p) \/ Crash(p) PROVE NotClaimedTwice'
  BY <1>6 DEF Throw, Crash
<1>7. ASSUME NEW p \in Pulses, NEW t \in Tasks, Reconcile(p, t) \/ Control(p, t) \/ Revisit(p, t)
      PROVE  NotClaimedTwice'
  BY <1>7 DEF Reconcile, Control, Revisit
<1>8. ASSUME NEW p \in Pulses, NEW t \in Tasks,
             ParkOnDependency(p, t) \/ ClaimRefused(p, t) \/ Claim(p, t)
      PROVE  NotClaimedTwice'
  BY <1>8 DEF ParkOnDependency, ClaimRefused, Claim, Considers
<1>9. ASSUME NEW p \in Pulses, ReadFile(p) \/ Baseline(p) PROVE NotClaimedTwice'
  BY <1>9 DEF ReadFile, Baseline
<1>10. CASE UNCHANGED vars
  BY <1>10 DEF vars
<1> QED
  BY <1>1, <1>2, <1>3, <1>4, <1>5, <1>6, <1>7, <1>8, <1>9, <1>10 DEF Next, PulseStep

\* A task is unclaimed only if it was; it is just claimed only by a claim of what was not.
LEMMA HowClaimed ==
  ASSUME FrameOK, CurrentOK, NotClaimedTwice, [Next]_vars, NEW q \in Pulses, NEW t \in Tasks
  PROVE  /\ Unclaimed(q, t)' => Unclaimed(q, t)
         /\ JustClaimed(q, t)' => JustClaimed(q, t) \/ Unclaimed(q, t)
         /\ JustClaimed(q, t)' => ~(SaveClaim(q) \/ SaveRun(q) \/ SaveEnd(q))
<1> DEFINE Fine == /\ Unclaimed(q, t)' => Unclaimed(q, t)
                   /\ JustClaimed(q, t)' => JustClaimed(q, t) \/ Unclaimed(q, t)
                   /\ JustClaimed(q, t)' => ~(SaveClaim(q) \/ SaveRun(q) \/ SaveEnd(q))
<1>0. /\ pc \in [Pulses -> PC] /\ cur \in [Pulses -> Tasks \cup {None}]
      /\ owned \in [Pulses -> SUBSET Tasks]
  BY DEF FrameOK
<1> USE <1>0 DEF Unclaimed, JustClaimed, PC, Goto, diskVars, fileVars, leaseVars, history
<1>a. JustClaimed(q, t)' => ~(SaveClaim(q) \/ SaveRun(q) \/ SaveEnd(q))
  BY DEF SaveClaim, SaveRun, SaveEnd, Save
<1>1. ASSUME UserOrClock PROVE Fine
  <2>1. UNCHANGED <<pc, cur, owned>>
    BY <1>1 DEF UserOrClock, Post, CloseIssue, LeaseRunsOut, MirrorRunsOut
  <2> QED BY <1>a, <2>1
<1>2. ASSUME NEW p \in Pulses, Load(p) \/ SweepOrphans(p) \/ Intake(p) PROVE Fine
  BY <1>2, <1>a DEF Load, SweepOrphans, Intake
<1>3. ASSUME NEW p \in Pulses, ControlDone(p) \/ BeginClaims(p) \/ StopClaims(p) PROVE Fine
  BY <1>3, <1>a DEF ControlDone, BeginClaims, StopClaims
<1>4. ASSUME NEW p \in Pulses, Persist(p) \/ EndRun(p) PROVE Fine
  BY <1>4, <1>a DEF Persist, EndRun
<1>5. ASSUME NEW p \in Pulses, SaveClaim(p) \/ SaveRun(p) \/ SaveEnd(p) PROVE Fine
  BY <1>5, <1>a DEF SaveClaim, SaveRun, SaveEnd, Save
<1>6. ASSUME NEW p \in Pulses, Throw(p) \/ Crash(p) PROVE Fine
  BY <1>6, <1>a DEF Throw, Crash
<1>7. ASSUME NEW p \in Pulses, NEW u \in Tasks, Reconcile(p, u) \/ Control(p, u) \/ Revisit(p, u)
      PROVE  Fine
  <2>1. UNCHANGED <<pc, cur, owned>>
    BY <1>7 DEF Reconcile, Control, Revisit
  <2> QED BY <1>a, <2>1
<1>8. ASSUME NEW p \in Pulses, NEW u \in Tasks, ParkOnDependency(p, u) \/ ClaimRefused(p, u) PROVE Fine
  <2>1. UNCHANGED <<pc, cur, owned>>
    BY <1>8 DEF ParkOnDependency, ClaimRefused
  <2> QED BY <1>a, <2>1
<1>9. ASSUME NEW p \in Pulses, NEW u \in Tasks, Claim(p, u) PROVE Fine
  <2>1. pc[p] = "claim" /\ u \notin owned[p]
    BY <1>9 DEF Claim, Considers, NotClaimedTwice
  <2>2. pc' = [pc EXCEPT ![p] = "claimed"] /\ cur' = [cur EXCEPT ![p] = u]
        /\ owned' = [owned EXCEPT ![p] = @ \cup {u}]
    BY <1>9 DEF Claim
  <2> QED BY <1>a, <2>1, <2>2
<1>10. ASSUME NEW p \in Pulses, ReadFile(p) \/ Baseline(p) PROVE Fine
  <2>1. UNCHANGED <<pc, cur, owned>>
    BY <1>10 DEF ReadFile, Baseline
  <2> QED BY <1>a, <2>1
<1>11. ASSUME UNCHANGED vars PROVE Fine
  BY <1>11, <1>a DEF vars
<1> QED
  BY <1>1, <1>2, <1>3, <1>4, <1>5, <1>6, <1>7, <1>8, <1>9, <1>10, <1>11 DEF Next, PulseStep

\* Where the lease in a record of p's memory may come from: an older record, or a claim of p's.
From(p, t, lease) ==
  lease \in {mem[p][t].lease, stray[p][t].lease, disk[t].lease, None} \/ (Claim(p, t) /\ lease = p)

\* No step writes another lease into a record than claimAndRun does.
LEMMA LeaseOrigins ==
  ASSUME FrameOK, CurrentOK, RecordsOK, LoopsOK, [Next]_vars, NEW q \in Pulses, NEW t \in Tasks
  PROVE  From(q, t, mem'[q][t].lease) /\ From(q, t, stray'[q][t].lease)
<1> DEFINE Fine == From(q, t, mem'[q][t].lease) /\ From(q, t, stray'[q][t].lease)
<1>m. /\ mem \in [Pulses -> [Tasks -> Record]] /\ stray \in [Pulses -> [Tasks -> Record \cup {Attached}]]
      /\ disk \in [Tasks -> Record]
  BY DEF RecordsOK
<1>n. NewTask.lease = None /\ NoTask.lease = None /\ Attached.lease = None
  BY DEF NewTask, NoTask, Attached
<1>a. ASSUME mem'[q][t] = mem[q][t], stray'[q][t] = stray[q][t] PROVE Fine
  BY <1>a DEF From
<1>b. ASSUME NEW new, mem'[q][t] = new, new.lease \in {mem[q][t].lease, stray[q][t].lease, disk[t].lease, None},
             stray'[q][t] = stray[q][t]
      PROVE  Fine
  BY <1>b DEF From
<1> HIDE DEF Fine
<1> USE DEF diskVars, fileVars, leaseVars, history
<1>1. ASSUME UserOrClock PROVE Fine
  BY <1>1, <1>a DEF UserOrClock, Post, CloseIssue, LeaseRunsOut, MirrorRunsOut
<1>2. ASSUME NEW p \in Pulses, Load(p) PROVE Fine
  <2>1. mem'[q][t] \in {mem[q][t], disk[t]} /\ stray' = stray
    BY <1>2, <1>m DEF Load
  <2> QED BY <2>1, <1>b
<1>3. ASSUME NEW p \in Pulses, SweepOrphans(p) \/ ControlDone(p) \/ Persist(p) \/ Throw(p) \/ Baseline(p)
      PROVE  Fine
  BY <1>3, <1>a DEF SweepOrphans, ControlDone, Persist, Throw, Baseline
<1>4. ASSUME NEW p \in Pulses, Intake(p) PROVE Fine
  <2>1. PICK listing \in Listings :
          mem' = [mem EXCEPT ![p] =
            [u \in Tasks |-> IF u \in {v \in Tasks : listing[v].open /\ ~Present(mem[p][v])}
                             THEN NewTask ELSE mem[p][u]]]
    BY <1>4 DEF Intake
  <2>2. mem'[q][t] \in {mem[q][t], NewTask}
    BY <1>m, <2>1
  <2>3. stray' = stray
    BY <1>4 DEF Intake
  <2> QED BY <1>b, <1>n, <2>2, <2>3
<1>5. ASSUME NEW p \in Pulses, BeginClaims(p) \/ StopClaims(p) PROVE Fine
  <2>1. mem' = mem \/ TidyUp(p)
    BY <1>5 DEF BeginClaims, StopClaims
  <2>2. mem'[q][t] \in {mem[q][t], NoTask}
    BY <1>m, <2>1 DEF TidyUp
  <2>3. stray' = stray
    BY <1>5 DEF BeginClaims, StopClaims
  <2> QED BY <1>b, <1>n, <2>2, <2>3
<1>6. ASSUME NEW p \in Pulses, NEW u \in Tasks, NEW new, PutObj(p, u, new),
             new.lease \in {Obj(p, u).lease, None} \/ (Claim(p, u) /\ new.lease = p)
      PROVE  Fine
  <2>1. CASE q = p /\ t = u
    <3>1. Obj(p, u).lease \in {mem[q][t].lease, stray[q][t].lease}
      BY <2>1 DEF Obj
    <3>2. /\ mem'[q][t] \in {mem[q][t], new}
          /\ stray'[q][t] \in {stray[q][t], new}
      BY <1>m, <1>6, <2>1 DEF PutObj
    <3> QED BY <1>6, <2>1, <3>1, <3>2 DEF From, Fine
  <2>2. CASE ~(q = p /\ t = u)
    <3>1. mem'[q][t] = mem[q][t] /\ stray'[q][t] = stray[q][t]
      BY <1>m, <1>6, <2>2 DEF PutObj
    <3> QED BY <1>a, <3>1
  <2> QED BY <2>1, <2>2
<1>7. ASSUME NEW p \in Pulses, EndRun(p) PROVE Fine
  <2>1. cur[p] \in Tasks /\ Obj(p, cur[p]).status = "running"
    BY <1>7, NoneAssumption DEF EndRun, LoopsOK, LoopOK, CurrentOK, FrameOK
  <2>2. PICK next \in RunResults(cur[p], Obj(p, cur[p])) : PutObj(p, cur[p], next)
    BY <1>7 DEF EndRun
  <2>3. next.lease \in {Obj(p, cur[p]).lease, None}
    BY <2>1, ObjIsRecord, RunResultsAreRecords
  <2> QED BY <1>6, <2>1, <2>2, <2>3
<1>8. ASSUME NEW p \in Pulses, NEW l, Save(p, l) PROVE Fine
  <2>1. mem'[q][t] \in {mem[q][t], NoTask} /\ stray'[q][t] \in {stray[q][t], Attached}
    BY <1>m, <1>8 DEF Save, Nothing, NoStray
  <2> QED BY <1>n, <2>1 DEF From, Fine
<1>9. ASSUME NEW p \in Pulses, SaveClaim(p) \/ SaveRun(p) \/ SaveEnd(p) PROVE Fine
  BY <1>8, <1>9 DEF SaveClaim, SaveRun, SaveEnd
<1>10. ASSUME NEW p \in Pulses, Crash(p) PROVE Fine
  <2>1. mem'[q][t] \in {mem[q][t], NoTask} /\ stray'[q][t] \in {stray[q][t], Attached}
    BY <1>m, <1>10 DEF Crash, Nothing, NoStray
  <2> QED BY <1>n, <2>1 DEF From, Fine
<1>11. ASSUME NEW p \in Pulses, NEW u \in Tasks,
              \/ Reconcile(p, u) \/ Control(p, u) \/ Revisit(p, u)
              \/ ParkOnDependency(p, u) \/ ClaimRefused(p, u) \/ Claim(p, u)
       PROVE  Fine
  <2>1. PICK old, new : StepWrites(p, u, old, new)
    BY <1>11, LoopStepEffect
  <2>2. CASE old = Obj(p, u) /\ PutObj(p, u, new)
    BY <1>6, <2>1, <2>2 DEF StepWrites
  <2>3. CASE old = mem[p][u] /\ mem' = [mem EXCEPT ![p][u] = new] /\ stray' = stray
    <3>1. CASE q = p /\ t = u
      <4>1. mem'[q][t] = new
        BY <1>m, <2>3, <3>1
      <4> QED BY <2>1, <2>3, <3>1, <4>1 DEF StepWrites, From, Fine
    <3>2. CASE ~(q = p /\ t = u)
      <4>1. mem'[q][t] = mem[q][t]
        BY <1>m, <2>3, <3>2
      <4> QED BY <1>a, <2>3, <4>1
    <3> QED BY <3>1, <3>2
  <2> QED BY <2>1, <2>2, <2>3 DEF StepWrites
<1>12. ASSUME NEW p \in Pulses, ReadFile(p) PROVE Fine
  <2>1. mem'[q][t] \in {mem[q][t], disk[t]}
    BY <1>m, <1>12 DEF ReadFile
  <2>2. stray'[q][t] \in {stray[q][t], mem[q][t]}
    BY <1>m, <1>12 DEF ReadFile
  <2> QED BY <2>1, <2>2 DEF From, Fine
<1>13. ASSUME UNCHANGED vars PROVE Fine
  BY <1>13, <1>a DEF vars
<1>14. Fine
  BY <1>1, <1>2, <1>3, <1>4, <1>5, <1>7, <1>9, <1>10, <1>11, <1>12, <1>13 DEF Next, PulseStep
<1> QED BY <1>14 DEF Fine

\* The file takes its records from the memory of the pulse that saves.
LEMMA DiskOrigins ==
  ASSUME RecordsOK, [Next]_vars, NEW t \in Tasks, disk'[t] # disk[t]
  PROVE  \E p \in Pulses : /\ SaveClaim(p) \/ SaveRun(p) \/ SaveEnd(p)
                          /\ save[p] = "read" /\ disk'[t] = mem[p][t]
<1>1. PICK p \in Pulses : SaveClaim(p) \/ SaveRun(p) \/ SaveEnd(p)
  BY OnlySavesWrite
<1>2. \E l : Save(p, l)
  BY <1>1 DEF SaveClaim, SaveRun, SaveEnd
<1>3. save[p] = "read" /\ disk'[t] = mem[p][t]
  BY <1>2, SaveEffect
<1> QED BY <1>1, <1>3

\* A pulse's id enters the file only by the save that follows its claim.
LEMMA IdsInductive ==
  FrameOK /\ CurrentOK /\ RecordsOK /\ LoopsOK /\ NotClaimedTwice /\ IdsAreFresh /\ [Next]_vars
    => IdsAreFresh'
<1> SUFFICES ASSUME FrameOK, CurrentOK, RecordsOK, LoopsOK, NotClaimedTwice, IdsAreFresh, [Next]_vars,
                    NEW q \in Pulses, NEW t \in Tasks, (Unclaimed(q, t) \/ JustClaimed(q, t))'
             PROVE  /\ disk'[t].lease # q
                    /\ \A p \in Pulses : p # q => mem'[p][t].lease # q /\ stray'[p][t].lease # q
                    /\ Unclaimed(q, t)' => mem'[q][t].lease # q /\ stray'[q][t].lease # q
  BY DEF IdsAreFresh
<1>1. Unclaimed(q, t) \/ JustClaimed(q, t)
  BY HowClaimed
<1>2. /\ disk[t].lease # q /\ q # None
      /\ \A p \in Pulses : p # q => mem[p][t].lease # q /\ stray[p][t].lease # q
      /\ Unclaimed(q, t) => mem[q][t].lease # q /\ stray[q][t].lease # q
  BY <1>1, NoneAssumption DEF IdsAreFresh
<1>3. disk'[t].lease # q
  <2> SUFFICES ASSUME disk'[t] # disk[t] PROVE disk'[t].lease # q
    BY <1>2
  <2>1. PICK p \in Pulses : (SaveClaim(p) \/ SaveRun(p) \/ SaveEnd(p)) /\ disk'[t] = mem[p][t]
    BY DiskOrigins
  <2>2. p = q => Unclaimed(q, t)
    <3> SUFFICES ASSUME SaveClaim(q) \/ SaveRun(q) \/ SaveEnd(q) PROVE Unclaimed(q, t)
      BY <2>1
    <3> QED BY HowClaimed
  <2> QED BY <1>2, <2>1, <2>2
<1>4. ASSUME NEW p \in Pulses, p # q PROVE mem'[p][t].lease # q /\ stray'[p][t].lease # q
  BY <1>2, <1>4, LeaseOrigins DEF From
<1>5. ASSUME Unclaimed(q, t)' PROVE mem'[q][t].lease # q /\ stray'[q][t].lease # q
  <2>1. Unclaimed(q, t)
    BY <1>5, HowClaimed
  <2>2. ~Claim(q, t)
    BY <1>5 DEF Claim, Unclaimed, FrameOK
  <2> QED BY <1>2, <2>1, <2>2, LeaseOrigins DEF From
<1> QED BY <1>3, <1>4, <1>5

\* The record on disk says that q runs t, and so it is.
Runs(q, t) == pc[q] = "run" /\ cur[q] = t /\ disk[t].status = "running" /\ disk[t].lease = q

\* Of a task that another one runs a pulse has the record of the file, or one that has passed
\* it by.
StaleIsSeen ==
  \A p, q \in Pulses, t \in Tasks :
    p # q /\ Active(p) /\ t \notin owned[p] /\ Runs(q, t)
      => Life(mem[p][t]) = Life(disk[t]) \/ PassedBy(p, t)

\* A pulse that has not leased a task does not touch its life while another one runs it.
LEMMA LifeUntouched ==
  ASSUME Expirable = {}, FrameOK, CurrentOK, RecordsOK, LoopsOK, HoldsLease, [Next]_vars,
         NEW p \in Pulses, NEW q \in Pulses, NEW t \in Tasks, p # q, t \notin owned'[p],
         Runs(q, t), Life(mem[p][t]) = Life(disk[t]),
         Active(p), Active(p)', disk'[t] = disk[t]
  PROVE  Life(mem'[p][t]) = Life(disk'[t])
<1> DEFINE task == mem[p][t]
<1>m. /\ mem \in [Pulses -> [Tasks -> Record]] /\ disk \in [Tasks -> Record]
      /\ task \in Record /\ task \in Task
  BY RecordFacts DEF RecordsOK
<1>0. /\ pc \in [Pulses -> PC] /\ owned \in [Pulses -> SUBSET Tasks]
  BY DEF FrameOK
<1>r. task.status = "running" /\ ~Ended(task) /\ Present(task)
  BY NamesAreLegal DEF Runs, Life, Ended, Present
<1>l. lock[t].live
  <2>1. lock[t] = [owner |-> q, live |-> TRUE]
    BY DEF HoldsLease, Runs
  <2> QED BY <2>1
<1>a. mem'[p][t] = mem[p][t] => Life(mem'[p][t]) = Life(disk'[t])
  OBVIOUS
<1> DEFINE Fine == Life(mem'[p][t]) = Life(disk'[t])
<1> HIDE DEF Fine
<1> USE DEF diskVars, fileVars, leaseVars, history
<1>1. ASSUME UserOrClock PROVE Fine
  BY <1>1, <1>a DEF UserOrClock, Post, CloseIssue, LeaseRunsOut, MirrorRunsOut, Fine
<1>2. ASSUME NEW r \in Pulses, r # p, PulseStep(r) \/ Throw(r) \/ Crash(r) PROVE Fine
  <2>1. mem'[p] = mem[p]
    <3>1. CASE Load(r) \/ SweepOrphans(r) \/ Intake(r) \/ ControlDone(r) \/ BeginClaims(r) \/ StopClaims(r)
      BY <1>m, <1>2, <3>1 DEF Load, SweepOrphans, Intake, ControlDone, BeginClaims, StopClaims, TidyUp
    <3>2. CASE \/ Persist(r) \/ EndRun(r) \/ SaveClaim(r) \/ SaveRun(r) \/ SaveEnd(r)
               \/ ReadFile(r) \/ Baseline(r)
      BY <1>m, <1>2, <3>2
      DEF Persist, EndRun, PutObj, SaveClaim, SaveRun, SaveEnd, Save, ReadFile, Baseline
    <3>3. ASSUME NEW u \in Tasks, \/ Reconcile(r, u) \/ Control(r, u) \/ Revisit(r, u)
                                  \/ ParkOnDependency(r, u) \/ ClaimRefused(r, u) \/ Claim(r, u)
          PROVE  mem'[p] = mem[p]
      BY <1>m, <1>2, <3>3
      DEF Reconcile, Control, Revisit, ParkOnDependency, ClaimRefused, Claim, PutObj
    <3>4. CASE Throw(r) \/ Crash(r)
      BY <1>m, <1>2, <3>4 DEF Throw, Crash
    <3> QED BY <1>2, <3>1, <3>2, <3>3, <3>4 DEF PulseStep
  <2> QED BY <1>a, <2>1 DEF Fine
<1>3. ASSUME SweepOrphans(p) \/ ControlDone(p) \/ Persist(p) \/ Throw(p) \/ Baseline(p) PROVE Fine
  BY <1>3, <1>a DEF SweepOrphans, ControlDone, Persist, Throw, Baseline, Fine
<1>4. ASSUME Load(p) \/ Crash(p) PROVE Fine
  BY <1>0, <1>4 DEF Load, Crash, Active, Goto
<1>5. ASSUME Intake(p) PROVE Fine
  <2>1. PICK listing \in Listings :
          mem' = [mem EXCEPT ![p] =
            [u \in Tasks |-> IF u \in {v \in Tasks : listing[v].open /\ ~Present(mem[p][v])}
                             THEN NewTask ELSE mem[p][u]]]
    BY <1>5 DEF Intake
  <2>2. mem'[p][t] = mem[p][t]
    BY <1>m, <1>r, <2>1
  <2> QED BY <1>a, <2>2 DEF Fine
<1>6. ASSUME BeginClaims(p) \/ StopClaims(p) PROVE Fine
  <2>1. mem' = mem \/ TidyUp(p)
    BY <1>6 DEF BeginClaims, StopClaims
  <2>2. CASE TidyUp(p)
    <3>1. PICK old \in SUBSET LongEnded(p) :
            mem' = [mem EXCEPT ![p] = [u \in Tasks |-> IF u \in old THEN NoTask ELSE mem[p][u]]]
      BY <2>2 DEF TidyUp
    <3>2. t \notin old
      BY <1>r, <3>1 DEF LongEnded
    <3>3. mem'[p][t] = mem[p][t]
      BY <1>m, <3>1, <3>2
    <3> QED BY <1>a, <3>3 DEF Fine
  <2> QED BY <1>a, <2>1, <2>2 DEF Fine
<1>7. ASSUME EndRun(p) PROVE Fine
  <2>1. cur[p] \in Tasks /\ cur[p] # t
    BY <1>7, NoneAssumption DEF EndRun, CurrentOK, FrameOK
  <2>2. \E next : PutObj(p, cur[p], next)
    BY <1>7 DEF EndRun
  <2>3. mem'[p][t] = mem[p][t]
    BY <1>m, <2>1, <2>2 DEF PutObj
  <2> QED BY <1>a, <2>3 DEF Fine
<1>8. ASSUME SaveClaim(p) \/ SaveRun(p) \/ SaveEnd(p) PROVE Fine
  <2>1. PICK l : Save(p, l)
    BY <1>8 DEF SaveClaim, SaveRun, SaveEnd
  <2>2. l # "done"
    BY <1>0, <2>1 DEF Save, Active, Goto
  <2>3. mem' = mem
    BY <2>1, <2>2, SaveEffect
  <2> QED BY <1>a, <2>3 DEF Fine
<1>9. ASSUME NEW u \in Tasks, u # t,
             \/ Reconcile(p, u) \/ Control(p, u) \/ Revisit(p, u)
             \/ ParkOnDependency(p, u) \/ ClaimRefused(p, u) \/ Claim(p, u)
      PROVE  Fine
  <2>1. mem'[p][t] = mem[p][t]
    BY <1>m, <1>9 DEF Reconcile, Control, Revisit, ParkOnDependency, ClaimRefused, Claim, PutObj
  <2> QED BY <1>a, <2>1 DEF Fine
<1>10. ASSUME Reconcile(p, t) PROVE Fine
  <2>1. PICK ttl \in BOOLEAN, late \in BOOLEAN :
          (ttl => t \in Expirable) /\ mem' = [mem EXCEPT ![p][t] = Reconciled(p, t, ttl, late)]
    BY <1>10 DEF Reconcile
  <2>2. Reconciled(p, t, ttl, late) = task
    BY <1>l, <1>r, <2>1 DEF Reconciled, OwnerLives, Waiting
  <2>3. mem'[p][t] = mem[p][t]
    BY <1>m, <2>1, <2>2
  <2> QED BY <1>a, <2>3 DEF Fine
<1>11. ASSUME Control(p, t) PROVE Fine
  <2> DEFINE verb == view[p][t].command
             next == IF ~view[p][t].open
                     THEN IF task.status \in PREEMPTABLE THEN Move(t, task, "cancelled", NoReason) ELSE task
                     ELSE IF verb = "none" \/ task.handled THEN task
                     ELSE IF verb = "retry" /\ task.ended THEN Seen(task)
                     ELSE Commanded(t, Seen(task), verb)
  <2>1. mem' = [mem EXCEPT ![p][t] = next]
    BY <1>11 DEF Control
  <2>2. Life(Seen(task)) = Life(task) /\ Seen(task) \in Task
    BY <1>m DEF Seen, Task, Life
  <2>3. Life(Commanded(t, Seen(task), verb)) = Life(Seen(task))
    <3> DEFINE seen == Seen(task)
    <3>1. seen.status = "running" /\ ~Ended(seen)
      BY <1>r, <2>2, NamesAreLegal DEF Life, Ended
    <3> HIDE DEF seen
    <3>2. Life([seen EXCEPT !.cancelReq = TRUE]) = Life(seen) /\ Life([seen EXCEPT !.pauseReq = TRUE]) = Life(seen)
      BY <2>2 DEF seen, Task, Life
    <3>3. Commanded(t, seen, verb) \in {seen, [seen EXCEPT !.cancelReq = TRUE], [seen EXCEPT !.pauseReq = TRUE]}
      BY <3>1 DEF Commanded, PREEMPTABLE, Waiting
    <3> QED BY <3>2, <3>3 DEF seen
  <2>4. Life(next) = Life(task)
    BY <1>r, <2>2, <2>3 DEF PREEMPTABLE
  <2>5. mem'[p][t] = next
    BY <1>m, <2>1
  <2> QED BY <2>4, <2>5 DEF Fine
<1>12. ~Revisit(p, t) /\ ~Claim(p, t)
  <2>1. ~Revisit(p, t)
    BY <1>r DEF Revisit, LoopsOK, LoopOK
  <2>2. ~Claim(p, t)
    BY <1>0 DEF Claim
  <2> QED BY <2>1, <2>2
<1>13. ASSUME ParkOnDependency(p, t) \/ ClaimRefused(p, t) PROVE Fine
  <2>1. Obj(p, t).status = "pending"
    BY <1>13 DEF ParkOnDependency, ClaimRefused, Considers, LoopsOK, LoopOK
  <2>2. stray[p][t] # Attached
    BY <1>r, <2>1 DEF Obj
  <2>3. mem' = mem
    BY <1>13, <2>2 DEF ParkOnDependency, ClaimRefused, PutObj
  <2> QED BY <1>a, <2>3 DEF Fine
<1>14. ASSUME ReadFile(p) PROVE Fine
  <2>1. mem'[p][t] = IF t \in Theirs(p) THEN disk[t] ELSE mem[p][t]
    BY <1>14, ReadFileEffect
  <2> QED BY <2>1 DEF Fine
<1>15. ASSUME UNCHANGED vars PROVE Fine
  BY <1>15, <1>a DEF vars, Fine
<1>16. ASSUME PulseStep(p) PROVE Fine
  BY <1>3, <1>4, <1>5, <1>6, <1>7, <1>8, <1>9, <1>10, <1>11, <1>12, <1>13, <1>14, <1>16 DEF PulseStep
<1>17. Fine
  BY <1>1, <1>2, <1>3, <1>4, <1>15, <1>16 DEF Next
<1> QED BY <1>17 DEF Fine

\* A pulse with a stale copy of a task that another one runs has been passed by, whatever sweeps,
\* commands, merges and saves happen.
LEMMA StaleInductive ==
  ASSUME Expirable = {}
  PROVE  FrameOK /\ CurrentOK /\ RecordsOK /\ LoopsOK /\ HoldsLease /\ NotClaimedTwice /\ IdsAreFresh
           /\ StaleIsSeen /\ [Next]_vars
         => StaleIsSeen'
<1> SUFFICES ASSUME FrameOK, CurrentOK, RecordsOK, LoopsOK, HoldsLease, NotClaimedTwice, IdsAreFresh,
                    StaleIsSeen, [Next]_vars
             PROVE  StaleIsSeen'
  OBVIOUS
<1> SUFFICES ASSUME NEW p \in Pulses, NEW q \in Pulses, NEW t \in Tasks,
                    p # q, Active(p)', t \notin owned'[p], Runs(q, t)'
             PROVE  Life(mem'[p][t]) = Life(disk'[t]) \/ PassedBy(p, t)'
  BY DEF StaleIsSeen
<1> DEFINE Fine == Life(mem'[p][t]) = Life(disk'[t]) \/ PassedBy(p, t)'
<1>0. /\ pc \in [Pulses -> PC] /\ cur \in [Pulses -> Tasks \cup {None}] /\ foreign \in [Pulses -> BOOLEAN]
      /\ changed \in [Pulses -> SUBSET Tasks] /\ save \in [Pulses -> SavePhases]
      /\ unseen \in [Pulses -> SUBSET Tasks]
  BY DEF FrameOK
<1>m. mem \in [Pulses -> [Tasks -> Record]]
  BY DEF RecordsOK
<1>1. ASSUME Load(p) PROVE Fine
  BY <1>1, <1>m DEF Load
<1>2. ASSUME ~Load(p) PROVE Active(p) /\ t \notin owned[p]
  <2>1. Active(p)
    <3> USE <1>0 DEF Active, Goto, diskVars, fileVars, leaseVars, history
    <3>1. CASE UserOrClock
      BY <3>1 DEF UserOrClock, Post, CloseIssue, LeaseRunsOut, MirrorRunsOut
    <3>2. ASSUME NEW r \in Pulses, Load(r) PROVE Active(p)
      BY <1>2, <3>2 DEF Load
    <3>3. ASSUME NEW r \in Pulses, SweepOrphans(r) \/ Intake(r) \/ ControlDone(r) \/ BeginClaims(r) \/ StopClaims(r)
          PROVE  Active(p)
      BY <3>3 DEF SweepOrphans, Intake, ControlDone, BeginClaims, StopClaims
    <3>4. ASSUME NEW r \in Pulses, \/ Persist(r) \/ EndRun(r) \/ SaveClaim(r) \/ SaveRun(r) \/ SaveEnd(r)
                                  \/ ReadFile(r) \/ Baseline(r)
          PROVE  Active(p)
      BY <3>4 DEF Persist, EndRun, SaveClaim, SaveRun, SaveEnd, Save, ReadFile, Baseline
    <3>5. ASSUME NEW r \in Pulses, NEW u \in Tasks,
                 \/ Reconcile(r, u) \/ Control(r, u) \/ Revisit(r, u)
                 \/ ParkOnDependency(r, u) \/ ClaimRefused(r, u) \/ Claim(r, u)
          PROVE  Active(p)
      BY <3>5 DEF Reconcile, Control, Revisit, ParkOnDependency, ClaimRefused, Claim, Considers
    <3>6. ASSUME NEW r \in Pulses, Throw(r) \/ Crash(r) PROVE Active(p)
      BY <3>6 DEF Throw, Crash
    <3>7. CASE UNCHANGED vars
      BY <3>7 DEF vars
    <3> QED BY <3>1, <3>2, <3>3, <3>4, <3>5, <3>6, <3>7 DEF Next, PulseStep
  <2>2. Unclaimed(p, t)'
    BY DEF Unclaimed, Active
  <2>3. Unclaimed(p, t)
    BY <2>2, HowClaimed
  <2> QED BY <2>1, <2>3 DEF Unclaimed
<1>3. ASSUME ~Load(p), disk'[t] # disk[t] PROVE Fine
  <2>1. PICK r \in Pulses : (SaveClaim(r) \/ SaveRun(r) \/ SaveEnd(r)) /\ disk'[t] = mem[r][t]
    BY <1>3, DiskOrigins
  <2>2. PICK l : Save(r, l)
    BY <2>1 DEF SaveClaim, SaveRun, SaveEnd
  <2>3. CASE r = p
    <3>1. l # "done"
      BY <1>0, <2>2, <2>3 DEF Save, Active, Goto
    <3>2. mem'[p][t] = disk'[t]
      BY <2>1, <2>2, <2>3, <3>1, SaveEffect
    <3> QED BY <3>2
  <2>4. CASE r # p
    BY <1>2, <1>3, <2>2, <2>4, SaveIsNoticed
  <2> QED BY <2>3, <2>4
<1>4. ASSUME ~Load(p), disk'[t] = disk[t] PROVE Fine
  <2>1. Runs(q, t)
    <3>1. CASE pc[q] = "run" /\ cur[q] = t
      BY <1>4, <3>1 DEF Runs
    <3>2. CASE ~(pc[q] = "run" /\ cur[q] = t)
      <4>1. JustClaimed(q, t)
        <5> USE <1>0, <3>2 DEF JustClaimed, Runs, Goto, diskVars, fileVars, leaseVars, history
        <5>1. CASE UserOrClock
          BY <5>1 DEF UserOrClock, Post, CloseIssue, LeaseRunsOut, MirrorRunsOut
        <5>2. ASSUME NEW r \in Pulses, Load(r) \/ SweepOrphans(r) \/ Intake(r) \/ ControlDone(r)
              PROVE  JustClaimed(q, t)
          BY <5>2 DEF Load, SweepOrphans, Intake, ControlDone
        <5>3. ASSUME NEW r \in Pulses, BeginClaims(r) \/ StopClaims(r) \/ Persist(r) \/ EndRun(r)
              PROVE  JustClaimed(q, t)
          BY <5>3 DEF BeginClaims, StopClaims, Persist, EndRun
        <5>4. ASSUME NEW r \in Pulses, SaveClaim(r) \/ SaveRun(r) \/ SaveEnd(r) PROVE JustClaimed(q, t)
          BY <5>4 DEF SaveClaim, SaveRun, SaveEnd, Save
        <5>8. ASSUME NEW r \in Pulses, ReadFile(r) \/ Baseline(r) PROVE JustClaimed(q, t)
          BY <5>8 DEF ReadFile, Baseline
        <5>5. ASSUME NEW r \in Pulses, NEW u \in Tasks,
                     \/ Reconcile(r, u) \/ Control(r, u) \/ Revisit(r, u)
                     \/ ParkOnDependency(r, u) \/ ClaimRefused(r, u) \/ Claim(r, u)
              PROVE  JustClaimed(q, t)
          BY <5>5 DEF Reconcile, Control, Revisit, ParkOnDependency, ClaimRefused, Claim, Considers
        <5>6. ASSUME NEW r \in Pulses, Throw(r) \/ Crash(r) PROVE JustClaimed(q, t)
          BY <5>6 DEF Throw, Crash
        <5>7. CASE UNCHANGED vars
          BY <5>7 DEF vars
        <5> QED BY <5>1, <5>2, <5>3, <5>4, <5>5, <5>6, <5>7, <5>8 DEF Next, PulseStep
      <4>2. disk[t].lease # q
        BY <4>1 DEF IdsAreFresh
      <4> QED BY <1>4, <4>2 DEF Runs
    <3> QED BY <3>1, <3>2
  <2>2. Active(p) /\ t \notin owned[p]
    BY <1>2, <1>4
  <2>3. CASE Life(mem[p][t]) = Life(disk[t])
    BY <1>4, <2>1, <2>2, <2>3, LifeUntouched
  <2>4. CASE PassedBy(p, t)
    <3>1. CASE \E r \in Pulses : SaveClaim(r) \/ SaveRun(r) \/ SaveEnd(r)
      <4>1. PICK r \in Pulses : SaveClaim(r) \/ SaveRun(r) \/ SaveEnd(r)
        BY <3>1
      <4>2. PICK l : Save(r, l)
        BY <4>1 DEF SaveClaim, SaveRun, SaveEnd
      <4>3. CASE r = p
        <5>1. l # "done"
          BY <1>0, <4>2, <4>3 DEF Save, Active, Goto
        <5>2. mem' = mem /\ disk'[t] = IF save[p] = "read" THEN mem[p][t] ELSE disk[t]
          BY <4>2, <4>3, <5>1, SaveEffect
        <5>3. save[p] # "read" => PassedBy(p, t)'
          <6> SUFFICES ASSUME save[p] # "read" PROVE PassedBy(p, t)'
            OBVIOUS
          <6>1. changed[p] \subseteq changed'[p] /\ unseen[p] \subseteq unseen'[p]
            BY <2>2, <4>2, <4>3, <5>1 DEF Save
          <6>2. (foreign[p] => foreign'[p]) /\ save'[p] = "none"
            BY <1>0, <2>2, <4>2, <4>3, <5>1 DEF Save
          <6> QED BY <2>4, <6>1, <6>2 DEF PassedBy
        <5> QED BY <5>2, <5>3
      <4>4. CASE r # p
        BY <2>2, <2>4, <4>2, <4>4, SaveIsNoticed
      <4> QED BY <4>3, <4>4
    <3>2. CASE ReadFile(p)
      <4>1. mem'[p][t] = IF t \in Theirs(p) THEN disk[t] ELSE mem[p][t]
        BY <3>2, ReadFileEffect
      <4>2. CASE foreign[p]
        <5>1. Present(disk[t]) /\ t \in changed[p]
          BY <2>1, <2>4 DEF Runs, Present, Absent, PassedBy
        <5>2. t \in Theirs(p)
          BY <2>2, <4>2, <5>1 DEF Theirs, TheirsWin
        <5> QED BY <1>4, <4>1, <5>2
      <4>3. CASE ~foreign[p]
        BY <1>0, <2>4, <3>2, <4>3 DEF ReadFile, PassedBy
      <4> QED BY <4>2, <4>3
    <3>3. CASE ~ReadFile(p) /\ ~\E r \in Pulses : SaveClaim(r) \/ SaveRun(r) \/ SaveEnd(r)
      <4> DEFINE Still == PassedBy(p, t)'
      <4> HIDE DEF Still
      <4>1. ASSUME UNCHANGED <<changed, foreign, save, unseen>> PROVE Still
        BY <2>4, <4>1 DEF PassedBy, Still
      <4>2. Still
        <5> USE <1>0, <1>4 DEF diskVars, fileVars, leaseVars, history
        <5>1. CASE UserOrClock
          BY <4>1, <5>1 DEF UserOrClock, Post, CloseIssue, LeaseRunsOut, MirrorRunsOut
        <5>2. ASSUME NEW r \in Pulses, SweepOrphans(r) \/ Intake(r) \/ ControlDone(r) PROVE Still
          BY <4>1, <5>2 DEF SweepOrphans, Intake, ControlDone
        <5>3. ASSUME NEW r \in Pulses, BeginClaims(r) \/ StopClaims(r) \/ Persist(r) \/ EndRun(r)
              PROVE  Still
          BY <4>1, <5>3 DEF BeginClaims, StopClaims, Persist, EndRun
        <5>4. ASSUME NEW r \in Pulses, r # p, ReadFile(r) PROVE Still
          BY <2>4, <5>4 DEF ReadFile, PassedBy, Still
        <5>5. ASSUME NEW r \in Pulses, NEW u \in Tasks,
                     \/ Reconcile(r, u) \/ Control(r, u) \/ Revisit(r, u)
                     \/ ParkOnDependency(r, u) \/ ClaimRefused(r, u) \/ Claim(r, u)
              PROVE  Still
          BY <4>1, <5>5 DEF Reconcile, Control, Revisit, ParkOnDependency, ClaimRefused, Claim
        <5>6. ASSUME NEW r \in Pulses, Throw(r) PROVE Still
          BY <4>1, <5>6 DEF Throw
        <5>7. ASSUME NEW r \in Pulses, Load(r) PROVE Still
          <6>1. r # p
            BY <5>7
          <6> QED BY <2>4, <5>7, <6>1 DEF Load, PassedBy, Still
        <5>8. ASSUME NEW r \in Pulses, Crash(r) PROVE Still
          <6>1. r # p
            BY <5>8 DEF Crash, Active, Goto, FrameOK
          <6> QED BY <2>4, <5>8, <6>1 DEF Crash, PassedBy, Still
        <5>9. ASSUME NEW r \in Pulses, Baseline(r) PROVE Still
          BY <2>4, <5>9 DEF Baseline, PassedBy, Still
        <5>10. CASE UNCHANGED vars
          BY <4>1, <5>10 DEF vars
        <5> QED
          BY <3>3, <5>1, <5>2, <5>3, <5>4, <5>5, <5>6, <5>7, <5>8, <5>9, <5>10 DEF Next, PulseStep
      <4> QED BY <4>2 DEF Still
    <3> QED BY <3>1, <3>2, <3>3
  <2> QED BY <2>1, <2>2, <2>3, <2>4 DEF StaleIsSeen
<1> QED BY <1>1, <1>3, <1>4

\* While a pulse runs a task, the task's life is overwritten only by a pulse that has leased it
\* too, or whose save was under way when the record was written and did not read it
\* (store.js:217-250): for any tasks, dependencies, users, crashes and interleavings, as long as
\* no lease runs out under its owner and no task has a TTL.
THEOREM RecordIsKept ==
  ASSUME ~SlowRuns, Expirable = {}
  PROVE  Spec => RunningRecordKept
<1> DEFINE Inv == HoldsLease /\ NotClaimedTwice /\ IdsAreFresh /\ StaleIsSeen
           All == FrameOK /\ CurrentOK /\ RecordsOK /\ LoopsOK
<1>1. Init => Inv
  <2> SUFFICES ASSUME Init PROVE Inv
    OBVIOUS
  <2>1. HoldsLease /\ NotClaimedTwice /\ StaleIsSeen
    BY DEF Init, HoldsLease, NotClaimedTwice, StaleIsSeen, Active
  <2>2. \A t \in Tasks : disk[t].lease = None
    BY DEF Init, NewTask, NoTask
  <2>3. \A p \in Pulses, t \in Tasks : mem[p][t].lease = None /\ stray[p][t].lease = None
    BY DEF Init, Nothing, NoStray, NewTask, NoTask, Attached
  <2>4. IdsAreFresh
    BY <2>2, <2>3, NoneAssumption DEF IdsAreFresh
  <2> QED BY <2>1, <2>4
<1>2. All /\ Inv /\ [Next]_vars => Inv'
  BY LeaseInductive, NotClaimedTwiceInductive, IdsInductive, StaleInductive
<1>3. Spec => []Inv
  <2> HIDE DEF Inv
  <2> QED BY <1>1, <1>2, Engine, PTL DEF Spec
<1> DEFINE Kept == \A q \in Pulses, t \in Tasks :
                     /\ pc[q] = "run" /\ cur[q] = t
                     /\ disk[t].status = "running" /\ disk[t].lease = q
                     /\ Life(disk'[t]) # Life(disk[t])
                     => \E p \in Pulses \ {q} : Renames(p) /\ t \in owned[p] \cup unseen[p]
<1>4. All /\ Inv /\ [Next]_vars => [Kept]_vars
  <2> SUFFICES ASSUME All, Inv, Next, NEW q \in Pulses, NEW t \in Tasks, Runs(q, t),
                      Life(disk'[t]) # Life(disk[t])
               PROVE  \E p \in Pulses \ {q} : Renames(p) /\ t \in owned[p] \cup unseen[p]
    BY DEF Runs
  <2>1. PICK p \in Pulses : /\ SaveClaim(p) \/ SaveRun(p) \/ SaveEnd(p)
                            /\ save[p] = "read" /\ disk'[t] = mem[p][t]
    BY DiskOrigins
  <2>2. p # q /\ Active(p)
    BY <2>1 DEF SaveClaim, SaveRun, SaveEnd, Runs, Active
  <2>3. Renames(p)
    <3>1. PICK l : Save(p, l)
      BY <2>1 DEF SaveClaim, SaveRun, SaveEnd
    <3> QED BY <2>1, <3>1 DEF Renames, Save, FrameOK
  <2>4. t \in owned[p] \/ t \in unseen[p]
    BY <2>1, <2>2 DEF StaleIsSeen, PassedBy
  <2> QED BY <2>2, <2>3, <2>4
<1> QED BY <1>3, <1>4, Engine, PTL DEF Spec, RunningRecordKept
=============================================================================
