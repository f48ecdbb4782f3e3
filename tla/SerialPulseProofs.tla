-------------------------- MODULE SerialPulseProofs -------------------------
(***************************************************************************)
(* Proofs about PulseQueue when pulses do not overlap, as the workflow's   *)
(* concurrency group has it: for any number of pulses that are killed,     *)
(* throw or run to their end, one after the other.                         *)
(***************************************************************************)
EXTENDS PulseQueueProofs

(***************************************************************************)
(* One pulse at a time.                                                    *)
(***************************************************************************)

\* No pulse but q is under way; and one that is never has to merge, and has in memory what the
\* file holds when a save of it has found nothing to write.
Alone(q) == \A p \in Pulses \ {q} : ~Active(p)
SoloOK ==
  \A p \in Pulses :
    /\ Active(p) => Alone(p) /\ foreign[p] = FALSE /\ stray[p] = NoStray
    /\ save[p] = "same" => pc[p] \in {"claimed", "ran", "end"} /\ mem[p] = disk

\* The read at the start of a save gives the only pulse nothing that it does not have.
LEMMA ReadAlone ==
  ASSUME RecordsOK, SoloOK, NEW q \in Pulses, ReadFile(q)
  PROVE  /\ Active(q) /\ mem' = mem /\ stray' = stray
         /\ save'[q] = "same" => mem[q] = disk
<1>1. Active(q)
  BY DEF ReadFile, Active
<1>2. Theirs(q) = {}
  BY <1>1 DEF SoloOK, Theirs
<1>3. mem \in [Pulses -> [Tasks -> Record]] /\ stray \in [Pulses -> [Tasks -> Record \cup {Attached}]]
  BY DEF RecordsOK
<1>4. mem[q] = [t \in Tasks |-> IF t \in Theirs(q) THEN disk[t] ELSE mem[q][t]]
  BY <1>2, <1>3
<1>5. stray[q] = [t \in Tasks |->
                    IF t \in Theirs(q) /\ stray[q][t] = Attached THEN mem[q][t] ELSE stray[q][t]]
  BY <1>2, <1>3
<1>6. mem' = [mem EXCEPT ![q] = mem[q]] /\ stray' = [stray EXCEPT ![q] = stray[q]]
  BY <1>4, <1>5 DEF ReadFile
<1>7. save' = [save EXCEPT ![q] = IF mem[q] = disk THEN "same" ELSE "read"]
  BY <1>4 DEF ReadFile
<1>8. save'[q] = "same" => mem[q] = disk
  <2>1. save[q] = "none"
    BY DEF ReadFile
  <2> QED BY <1>7, <2>1
<1> QED BY <1>1, <1>3, <1>6, <1>8

\* A save of the only pulse writes what it has in memory, and leaves that as it is.
LEMMA SaveAlone ==
  ASSUME FrameOK, RecordsOK, SoloOK, NEW q \in Pulses, Active(q), NEW l \in PC, Save(q, l)
  PROVE  /\ pc' = [pc EXCEPT ![q] = l]
         /\ disk' = mem[q]
         /\ l # "done" => mem'[q] = mem[q] /\ stray'[q] = NoStray
         /\ foreign'[q] = FALSE
<1>1. pc' = [pc EXCEPT ![q] = l]
  BY DEF Save, Goto
<1>2. disk' = mem[q]
  <2>1. save[q] = "same" => mem[q] = disk
    BY DEF SoloOK
  <2> QED BY <2>1 DEF Save
<1>3. l # "done" => mem'[q] = mem[q] /\ stray'[q] = NoStray
  BY DEF Save, SoloOK
<1>4. foreign'[q] = FALSE
  BY DEF Save, SoloOK
<1> QED BY <1>1, <1>2, <1>3, <1>4

\* The loops of the only pulse work on the records in tasksFile.tasks.
LEMMA ObjAlone ==
  ASSUME SoloOK, NEW q \in Pulses, Active(q), NEW t \in Tasks
  PROVE  /\ Obj(q, t) = mem[q][t]
         /\ \A task : PutObj(q, t, task) => mem' = [mem EXCEPT ![q][t] = task] /\ stray' = stray
  BY DEF SoloOK, Obj, PutObj, NoStray

\* The two halves of SoloOK.
PairOK == \A p \in Pulses : Active(p) => Alone(p) /\ foreign[p] = FALSE /\ stray[p] = NoStray
SameOK == \A p \in Pulses : save[p] = "same" => pc[p] \in {"claimed", "ran", "end"} /\ mem[p] = disk

\* A pulse whose save found nothing to write does nothing else until that save is over, and no
\* other pulse writes meanwhile.
LEMMA SameInductive ==
  ASSUME FrameOK, RecordsOK, SoloOK, [Next]_vars PROVE SameOK'
<1> SUFFICES ASSUME NEW p \in Pulses, save'[p] = "same"
             PROVE  pc'[p] \in {"claimed", "ran", "end"} /\ mem'[p] = disk'
  BY DEF SameOK
<1> DEFINE Fine == pc'[p] \in {"claimed", "ran", "end"} /\ mem'[p] = disk'
<1>0. /\ pc \in [Pulses -> PC] /\ save \in [Pulses -> SavePhases]
      /\ mem \in [Pulses -> [Tasks -> Record]] /\ stray \in [Pulses -> [Tasks -> Record \cup {Attached}]]
  BY DEF FrameOK, RecordsOK
<1>a. save[p] = "same" => Active(p) /\ Alone(p) /\ pc[p] \in {"claimed", "ran", "end"} /\ mem[p] = disk
  BY DEF SoloOK, Active
<1>b. save[p] = "same" /\ pc'[p] = pc[p] /\ mem'[p] = mem[p] /\ disk' = disk => Fine
  BY <1>a
<1> HIDE DEF Fine
<1> USE DEF Goto, diskVars, fileVars, leaseVars, history
<1>1. ASSUME UserOrClock \/ UNCHANGED vars PROVE Fine
  <2>1. UNCHANGED <<save, pc, mem, disk>>
    BY <1>1 DEF UserOrClock, Post, CloseIssue, LeaseRunsOut, MirrorRunsOut, vars
  <2> QED BY <1>b, <2>1
<1>2. ASSUME NEW q \in Pulses, Load(q) \/ SweepOrphans(q) \/ Intake(q) \/ ControlDone(q) \/ BeginClaims(q)
                              \/ StopClaims(q) \/ Persist(q) \/ Throw(q)
      PROVE  Fine
  <2>1. save[p] = "same" /\ disk' = disk
    BY <1>2 DEF Load, SweepOrphans, Intake, ControlDone, BeginClaims, StopClaims, Persist, Throw
  <2>2. p # q
    BY <1>2, <1>a, <2>1 DEF Load, SweepOrphans, Intake, ControlDone, BeginClaims, StopClaims, Persist, Throw
  <2>3. pc'[p] = pc[p] /\ mem'[p] = mem[p]
    BY <1>0, <1>2, <2>2
    DEF Load, SweepOrphans, Intake, ControlDone, BeginClaims, StopClaims, TidyUp, Persist, Throw
  <2> QED BY <1>b, <2>1, <2>3
<1>3. ASSUME NEW q \in Pulses, NEW t \in Tasks,
             \/ Reconcile(q, t) \/ Control(q, t) \/ Revisit(q, t)
             \/ ParkOnDependency(q, t) \/ ClaimRefused(q, t) \/ Claim(q, t)
      PROVE  Fine
  <2>1. save[p] = "same" /\ disk' = disk
    BY <1>3 DEF Reconcile, Control, Revisit, ParkOnDependency, ClaimRefused, Claim
  <2>2. p # q
    BY <1>3, <1>a, <2>1 DEF Reconcile, Control, Revisit, ParkOnDependency, ClaimRefused, Claim, Considers
  <2>3. pc'[p] = pc[p] /\ mem'[p] = mem[p]
    BY <1>0, <1>3, <2>2
    DEF Reconcile, Control, Revisit, ParkOnDependency, ClaimRefused, Claim, Considers, PutObj
  <2> QED BY <1>b, <2>1, <2>3
<1>4. ASSUME NEW q \in Pulses, EndRun(q) PROVE Fine
  <2>1. save[p] = "same" /\ disk' = disk /\ p # q
    BY <1>4, <1>a DEF EndRun
  <2>2. pc'[p] = pc[p] /\ mem'[p] = mem[p]
    BY <1>0, <1>4, <2>1 DEF EndRun, PutObj
  <2> QED BY <1>b, <2>1, <2>2
<1>5. ASSUME NEW q \in Pulses, SaveClaim(q) \/ SaveRun(q) \/ SaveEnd(q) PROVE Fine
  <2>1. PICK l : Save(q, l)
    BY <1>5 DEF SaveClaim, SaveRun, SaveEnd
  <2>2. save' = [save EXCEPT ![q] = IF @ = "read" /\ l # "done" THEN "written" ELSE "none"]
    BY <2>1 DEF Save
  <2>3. p # q /\ save[p] = "same"
    BY <1>0, <2>2
  <2>4. Active(q)
    BY <1>5 DEF SaveClaim, SaveRun, SaveEnd, Active
  <2> QED BY <1>a, <2>3, <2>4 DEF Alone
<1>6. ASSUME NEW q \in Pulses, Crash(q) PROVE Fine
  <2>1. p # q /\ save[p] = "same" /\ disk' = disk
    BY <1>0, <1>6 DEF Crash
  <2>2. pc'[p] = pc[p] /\ mem'[p] = mem[p]
    BY <1>0, <1>6, <2>1 DEF Crash
  <2> QED BY <1>b, <2>1, <2>2
<1>7. ASSUME NEW q \in Pulses, Baseline(q) PROVE Fine
  <2>1. save[p] = "same" /\ UNCHANGED <<pc, mem, disk>>
    BY <1>0, <1>7 DEF Baseline
  <2> QED BY <1>b, <2>1
<1>8. ASSUME NEW q \in Pulses, ReadFile(q) PROVE Fine
  <2>1. mem' = mem /\ UNCHANGED <<pc, disk>>
    BY <1>8, ReadAlone DEF ReadFile
  <2>2. CASE p = q
    BY <1>8, <2>1, <2>2, ReadAlone DEF ReadFile, Fine
  <2>3. CASE p # q
    <3>1. save'[p] = save[p]
      BY <1>0, <1>8, <2>3 DEF ReadFile
    <3> QED BY <1>b, <2>1, <3>1
  <2> QED BY <2>2, <2>3
<1>9. Fine
  BY <1>1, <1>2, <1>3, <1>4, <1>5, <1>6, <1>7, <1>8 DEF Next, PulseStep
<1> QED BY <1>9 DEF Fine

\* Pulses that the concurrency group keeps apart never find the file changed under them.
LEMMA SoloInductive ==
  ASSUME Serialized, FrameOK, CurrentOK, RecordsOK, LoopsOK, SoloOK, [Next]_vars PROVE SoloOK'
<1> USE DEF Active, Goto, diskVars, fileVars, leaseVars, history
<1>0. pc \in [Pulses -> PC] /\ foreign \in [Pulses -> BOOLEAN] /\ stray \in [Pulses -> [Tasks -> Record \cup {Attached}]]
  BY DEF FrameOK, RecordsOK
<1>1. ASSUME UserOrClock \/ UNCHANGED vars PROVE PairOK'
  <2>1. UNCHANGED <<pc, foreign, stray>>
    BY <1>1 DEF UserOrClock, Post, CloseIssue, LeaseRunsOut, MirrorRunsOut, vars
  <2> QED BY <2>1 DEF SoloOK, PairOK, Alone
<1>2. ASSUME NEW q \in Pulses, Load(q) PROVE PairOK'
  <2>1. \A p \in Pulses : ~Active(p)
    BY <1>2 DEF Load
  <2>2. stray[q] = NoStray
    BY <1>2 DEF LoopsOK, LoopOK, Load
  <2>3. /\ pc' = [pc EXCEPT ![q] = "reconcile"] /\ stray' = stray
        /\ foreign' = [foreign EXCEPT ![q] = FALSE]
    BY <1>2 DEF Load
  <2>4. Alone(q)' /\ foreign'[q] = FALSE /\ stray'[q] = NoStray
    BY <1>0, <2>1, <2>2, <2>3 DEF Alone
  <2>5. \A p \in Pulses : Active(p)' => p = q
    BY <1>0, <2>1, <2>3
  <2> HIDE DEF Active
  <2> QED BY <2>4, <2>5 DEF PairOK
<1>3. ASSUME NEW q \in Pulses, Active(q), NEW l \in PC, pc' = [pc EXCEPT ![q] = l],
             Active(q)' => foreign'[q] = FALSE /\ stray'[q] = NoStray
      PROVE  PairOK'
  <2>1. \A p \in Pulses : Active(p)' => p = q
    BY <1>0, <1>3 DEF SoloOK, PairOK, Alone
  <2> HIDE DEF Active
  <2> QED BY <1>3, <2>1 DEF SoloOK, PairOK, Alone
<1>4. ASSUME NEW q \in Pulses, SaveClaim(q) \/ SaveRun(q) \/ SaveEnd(q) PROVE PairOK'
  <2>1. Active(q)
    BY <1>4 DEF SaveClaim, SaveRun, SaveEnd
  <2>2. PICK l \in {"run", "claim", "done"} : Save(q, l)
    BY <1>4 DEF SaveClaim, SaveRun, SaveEnd
  <2>3. l \in PC
    BY DEF PC
  <2>4. pc' = [pc EXCEPT ![q] = l] /\ foreign'[q] = FALSE /\ (l # "done" => stray'[q] = NoStray)
    BY <2>1, <2>2, <2>3, SaveAlone
  <2>5. Active(q)' => l # "done"
    BY <1>0, <2>4
  <2> HIDE DEF Active
  <2> QED BY <1>3, <2>1, <2>3, <2>4, <2>5
<1>5. ASSUME NEW q \in Pulses, Crash(q) PROVE PairOK'
  <2>1. Active(q) /\ pc' = [pc EXCEPT ![q] = "dead"]
    BY <1>5 DEF Crash
  <2>2. ~Active(q)' /\ "dead" \in PC
    BY <1>0, <2>1 DEF PC
  <2> HIDE DEF Active
  <2> QED BY <1>3, <2>1, <2>2
\* The other steps of a pulse that is under way.
<1>6. ASSUME NEW q \in Pulses, Active(q), foreign' = foreign, stray' = stray,
             NEW l \in PC, pc' = [pc EXCEPT ![q] = l]
      PROVE  PairOK'
  <2>1. foreign'[q] = FALSE /\ stray'[q] = NoStray
    BY <1>6 DEF SoloOK
  <2> QED BY <1>3, <1>6, <2>1
<1>7. ASSUME NEW q \in Pulses, Active(q), foreign' = foreign, stray' = stray, pc' = pc PROVE PairOK'
  BY <1>7 DEF SoloOK, PairOK, Alone
<1>8. ASSUME NEW q \in Pulses, SweepOrphans(q) \/ Intake(q) \/ ControlDone(q) \/ BeginClaims(q) \/ StopClaims(q) \/ Throw(q)
      PROVE  PairOK'
  <2>1. Active(q) /\ foreign' = foreign /\ stray' = stray
    BY <1>8 DEF SweepOrphans, Intake, ControlDone, BeginClaims, StopClaims, Throw
  <2>2. \E l \in {"end", "intake", "control", "revisit", "claim"} : pc' = [pc EXCEPT ![q] = l]
    BY <1>8 DEF SweepOrphans, Intake, ControlDone, BeginClaims, StopClaims, Throw
  <2>3. {"end", "intake", "control", "revisit", "claim"} \subseteq PC
    BY DEF PC
  <2> HIDE DEF Active
  <2> QED BY <1>6, <2>1, <2>2, <2>3
<1>9. ASSUME NEW q \in Pulses, NEW t \in Tasks, Reconcile(q, t) \/ Control(q, t) \/ Revisit(q, t) \/ ClaimRefused(q, t)
      PROVE  PairOK'
  <2>1. Active(q) /\ foreign' = foreign /\ stray' = stray /\ pc' = pc
    BY <1>9 DEF Reconcile, Control, Revisit, ClaimRefused, Considers
  <2> QED BY <1>7, <2>1
<1>10. ASSUME NEW q \in Pulses, Persist(q) PROVE PairOK'
  BY <1>7, <1>10 DEF Persist
<1>11. ASSUME NEW q \in Pulses, NEW t \in Tasks, ParkOnDependency(q, t) PROVE PairOK'
  <2>1. Active(q) /\ foreign' = foreign /\ pc' = pc
    BY <1>11 DEF ParkOnDependency, Considers
  <2>2. stray' = stray
    BY <1>11, <2>1, ObjAlone DEF ParkOnDependency
  <2> QED BY <1>7, <2>1, <2>2
<1>12. ASSUME NEW q \in Pulses, NEW t \in Tasks, Claim(q, t) PROVE PairOK'
  <2>1. Active(q) /\ foreign' = foreign /\ pc' = [pc EXCEPT ![q] = "claimed"] /\ "claimed" \in PC
    BY <1>12 DEF Claim, Considers, PC
  <2>2. stray' = stray
    BY <1>12, <2>1, ObjAlone DEF Claim
  <2> QED BY <1>6, <2>1, <2>2
<1>13. ASSUME NEW q \in Pulses, EndRun(q) PROVE PairOK'
  <2>1. Active(q) /\ foreign' = foreign /\ pc' = [pc EXCEPT ![q] = "ran"] /\ "ran" \in PC
    BY <1>13 DEF EndRun, PC
  <2>2. cur[q] \in Tasks
    BY <1>13 DEF EndRun, CurrentOK, FrameOK
  <2>3. stray' = stray
    BY <1>13, <2>1, <2>2, ObjAlone DEF EndRun
  <2> QED BY <1>6, <2>1, <2>3
<1>14. ASSUME NEW q \in Pulses, ReadFile(q) \/ Baseline(q) PROVE PairOK'
  <2>1. CASE ReadFile(q)
    <3>1. Active(q) /\ stray' = stray /\ foreign' = foreign /\ pc' = pc
      <4> HIDE DEF Active
      <4>1. Active(q) /\ stray' = stray
        BY <2>1, ReadAlone
      <4> QED BY <2>1, <4>1 DEF ReadFile
    <3> QED BY <1>7, <3>1
  <2>2. CASE Baseline(q)
    <3>1. UNCHANGED <<pc, stray>> /\ foreign' = [foreign EXCEPT ![q] = FALSE]
      BY <2>2 DEF Baseline
    <3> QED BY <1>0, <3>1 DEF SoloOK, PairOK, Alone
  <2> QED BY <1>14, <2>1, <2>2
<1>15. PairOK'
  BY <1>1, <1>2, <1>4, <1>5, <1>7, <1>8, <1>9, <1>10, <1>11, <1>12, <1>13, <1>14 DEF Next, PulseStep
<1> QED BY <1>15, SameInductive DEF SoloOK, PairOK, SameOK
-----------------------------------------------------------------------------
(***************************************************************************)
(* The deaths, the attempts and the results of a task.                     *)
(***************************************************************************)

Alive(task) == Present(task) /\ ~Ended(task)

\* Where a pulse is with a task: not under way, busy with others, or at a stage of its run.
Stage(q, t) == IF ~Active(q) THEN "away" ELSE IF cur[q] = t THEN pc[q] ELSE "by"

\* Of a task that is not over, its d deaths are in its attempts, the last one perhaps only in its status;
\* and each of its n results but the last was followed by a death.
Charges(d, task, busy) ==
  Alive(task) => d <= task.attempts \/ (task.status = "running" /\ ~busy /\ d <= task.attempts + 1)
Answered(n, d, task) == Alive(task) => n <= d

\* The record in memory and the one in the file, at a stage of the run.
Tally(at, task, file, d, n) ==
  /\ at # "away" => Charges(d, task, at \in {"claimed", "run"}) /\ Answered(n, d, task)
  /\ Charges(d, file, at \in {"run", "ran"})
  /\ at = "ran" \/ Answered(n, d, file)
  /\ at \in {"run", "ran"} => file.status = "running"
  /\ n <= 1 + d

Tallied(q) == \A t \in Tasks : Tally(Stage(q, t), mem[q][t], disk[t], deaths[t], delivered[t])
CountsOK == \A q \in Pulses : Alone(q) => Tallied(q)

\* Statuses of tasks that are not over.
LEMMA Living ==
  /\ \A task : task.status \in {"pending", "running", "waiting", "paused", "pr-open"} => Alive(task)
  /\ \A task : task.status \in TERMINAL_STATUSES \cup {Absent} => ~Alive(task)
<1>1. Absent \notin {"pending", "running", "waiting", "paused", "pr-open"}
  BY DEF Absent
<1> QED BY <1>1, NamesAreLegal DEF Alive, Present, Ended, IsTerminal

\* What a save makes of the tally: the file has what was in memory (saveTasks).
LEMMA TallySaved ==
  ASSUME NEW task, NEW file, NEW d \in Nat, NEW n \in Nat
  PROVE  /\ Tally("claimed", task, file, d, n) /\ task.status = "running" => Tally("run", task, task, d, n)
         /\ Tally("ran", task, file, d, n) => Tally("by", task, task, d, n)
         /\ Tally("by", task, file, d, n) => Tally("by", task, task, d, n)
         /\ \A other : Tally("by", task, file, d, n) => Tally("away", other, task, d, n)
  BY DEF Tally, Charges, Answered

\* A pulse that loads the file has its tally.
LEMMA TallyLoaded ==
  ASSUME NEW task, NEW file, NEW d \in Nat, NEW n \in Nat, Tally("away", task, file, d, n)
  PROVE  Tally("by", file, file, d, n)
  BY DEF Tally, Charges, Answered

\* A record that is rewritten by a pulse which does not run it: it is over, or stays what it was, or pays
\* for a death, or moves on from where no death was due.
LEMMA TallyRewritten ==
  ASSUME NEW task, NEW new, NEW file, NEW d \in Nat, NEW n \in Nat, Tally("by", task, file, d, n),
         task.attempts \in Nat,
         Alive(new) => /\ Alive(task)
                       /\ \/ new.attempts = task.attempts /\ (task.status = "running" => new.status = "running")
                          \/ new.attempts = task.attempts + 1
  PROVE  Tally("by", new, file, d, n)
  BY DEF Tally, Charges, Answered

\* A claim: the task was pending, so no death was due (claimAndRun).
LEMMA TallyClaimed ==
  ASSUME NEW task, NEW new, NEW file, NEW d \in Nat, NEW n \in Nat, Tally("by", task, file, d, n),
         task.status = "pending", new.attempts = task.attempts
  PROVE  Tally("claimed", new, file, d, n)
<1>1. Alive(task) /\ task.status # "running"
  BY Living
<1> QED BY <1>1 DEF Tally, Charges, Answered

\* The end of a run: at most one more result, and then the task is over (processTask).
LEMMA TallyRun ==
  ASSUME NEW task, NEW new, NEW file, NEW d \in Nat, NEW n \in Nat, NEW m \in Nat, Tally("run", task, file, d, n),
         task.status = "running", new.attempts = task.attempts,
         m = n \/ (m = n + 1 /\ ~Alive(new))
  PROVE  Tally("ran", new, file, d, m)
<1>1. Alive(task)
  BY Living
<1> QED BY <1>1 DEF Tally, Charges, Answered

\* A run that its pulse leaves by an exception: the death is due (Spent).
LEMMA TallyThrown ==
  ASSUME NEW task, NEW file, NEW d \in Nat, NEW n \in Nat, NEW e \in Nat, Tally("run", task, file, d, n),
         task.status = "running", task.attempts \in Nat, file.attempts \in Nat, e \in {d, d + 1}
  PROVE  Tally("by", task, file, e, n)
<1>1. Alive(task) /\ Alive(file)
  BY Living DEF Tally
<1> QED BY <1>1 DEF Tally, Charges, Answered

\* A pulse that is killed: a run's death is due, and answers for a result the file does not know of.
LEMMA TallyKilled ==
  ASSUME NEW at, NEW task, NEW other, NEW file, NEW d \in Nat, NEW n \in Nat, NEW e \in Nat, Tally(at, task, file, d, n),
         file.attempts \in Nat, e = (IF at \in {"run", "ran"} THEN d + 1 ELSE d)
  PROVE  Tally("away", other, file, e, n)
<1>1. CASE at \in {"run", "ran"}
  <2>1. Alive(file)
    BY <1>1, Living DEF Tally
  <2> QED BY <1>1, <2>1 DEF Tally, Charges, Answered
<1>2. CASE at \notin {"run", "ran"}
  BY <1>2 DEF Tally, Charges, Answered
<1> QED BY <1>1, <1>2

\* While a task runs, its deaths are fewer than its attempts allow.
LEMMA TallyCeiling ==
  ASSUME NEW at \in {"run", "ran"}, NEW task, NEW file \in Record, NEW d \in Nat, NEW n \in Nat,
         Tally(at, task, file, d, n)
  PROVE  d < MaxAttempts
<1>1. Alive(file)
  BY Living DEF Tally
<1>2. file.attempts \in Nat /\ file.attempts < MaxAttempts
  BY <1>1, RecordFacts DEF Alive, Ended
<1> QED BY <1>1, <1>2, LimitsAreNumbers DEF Tally, Charges

(***************************************************************************)
(* What the sweep, a command and a run make of a record.                   *)
(***************************************************************************)

\* The sweep charges a death when it takes a task from a dead pulse, leaves a task that ended alone, and
\* keeps what was said of commands (reconcile.js:67-80).
LEMMA ReconciledKeeps ==
  ASSUME NEW p \in Pulses, NEW t \in Tasks, NEW ttl \in BOOLEAN, NEW late \in BOOLEAN, RecordsOK
  PROVE  LET task == mem[p][t]
             new  == Reconciled(p, t, ttl, late)
         IN /\ Alive(new) => /\ Alive(task)
                             /\ \/ new.attempts = task.attempts /\ (task.status = "running" => new.status = "running")
                                \/ new.attempts = task.attempts + 1
            /\ new.handled = task.handled
            /\ Ended(task) => new = task
<1> DEFINE task == mem[p][t]
           new  == Reconciled(p, t, ttl, late)
           Same(r) == /\ Alive(r) => /\ Alive(task)
                                     /\ \/ r.attempts = task.attempts /\ (task.status = "running" => r.status = "running")
                                        \/ r.attempts = task.attempts + 1
                      /\ r.handled = task.handled
<1>1. task \in Record /\ task \in Task /\ task.attempts \in Nat
  BY RecordFacts DEF RecordsOK
<1>2. Same(task)
  OBVIOUS
<1>3. \A to \in {"expired", "dead-lettered", "cancelled"} : Same(Move(t, task, to, NoReason))
  BY <1>1, MoveFields, Living, NamesAreLegal
<1>4. task.status \in {"waiting", "paused"} => Same(Move(t, task, "pending", NoReason))
  BY <1>1, MoveFields, Living
<1>5. ASSUME task.status = "running"
      PROVE  \A to \in {"pending", "dead-lettered"} : Same(Move(t, Charged(task), to, NoReason))
  <2>1. task.attempts < MaxAttempts
    BY <1>1, <1>5, RecordFacts, NamesAreLegal
  <2>2. task.attempts + 1 \in 0..MaxAttempts
    BY <1>1, <2>1, LimitsAreNumbers
  <2>3. /\ Charged(task) \in Task /\ Charged(task).attempts = task.attempts + 1
        /\ Charged(task).handled = task.handled
    BY <1>1, <2>2 DEF Charged, Task
  <2>4. Alive(task)
    BY <1>5, Living
  <2> QED BY <2>3, <2>4, MoveFields
<1> HIDE DEF Same
<1>6. Ended(task) => new = task
  BY NamesAreLegal DEF Reconciled, Ended, Waiting
<1>7. ASSUME ~Ended(task) PROVE Same(new)
  BY <1>2, <1>3, <1>4, <1>5, <1>7 DEF Reconciled, Waiting
<1> QED BY <1>2, <1>6, <1>7 DEF Same

\* A command leaves the attempts and the run of a task that is not over, and takes one that is over up
\* again only for a retry, with no attempts spent (applyCommand).
LEMMA CommandedKeeps ==
  ASSUME NEW t \in Tasks, NEW task \in Record, NEW verb
  PROVE  LET new == Commanded(t, task, verb)
         IN /\ Alive(new) /\ Alive(task) => /\ new.attempts = task.attempts
                                            /\ task.status = "running" => new.status = "running"
            /\ Alive(new) /\ ~Alive(task) => verb = "retry" /\ Ended(task) /\ new.status = "pending"
            /\ Ended(task) /\ verb = "retry" => new.status = "pending"
            /\ Ended(task) /\ verb # "retry" => new = task
            /\ new.handled = task.handled
            /\ new.attempts \in Nat
<1> DEFINE reset == [task EXCEPT !.attempts = 0]
           new == Commanded(t, task, verb)
           Kept(r) == r.attempts = task.attempts /\ r.handled = task.handled /\ (task.status = "running" => r.status = "running")
<1>1. task \in Task /\ task.attempts \in Nat
  BY RecordFacts
<1>2. /\ Move(t, reset, "pending", NoReason).status = "pending"
      /\ Move(t, reset, "pending", NoReason).attempts = 0
      /\ Move(t, reset, "pending", NoReason).handled = task.handled
  <2>1. reset \in Task /\ reset.attempts = 0 /\ reset.handled = task.handled
    BY <1>1, LimitsAreNumbers DEF Task
  <2> HIDE DEF reset
  <2> QED BY <2>1, MoveFields
<1>3. \A to : task.status # "running" => Kept(Move(t, task, to, NoReason))
  BY <1>1, MoveFields
<1>4. Kept([task EXCEPT !.cancelReq = TRUE]) /\ Kept([task EXCEPT !.pauseReq = TRUE]) /\ Kept(task)
  BY <1>1 DEF Task
<1>5. \A s \in {"pending", "running", "waiting", "paused"} : task.status = s => Alive(task) /\ ~Ended(task)
  BY Living DEF Alive
<1>6. CASE verb = "retry" /\ Ended(task)
  <2>1. new = Move(t, reset, "pending", NoReason)
    BY <1>6 DEF Commanded
  <2>2. ~Alive(task)
    BY <1>6 DEF Alive
  <2> HIDE DEF reset, new
  <2>3. new.status = "pending" /\ new.attempts = 0 /\ new.handled = task.handled
    BY <1>2, <2>1
  <2> QED BY <1>6, <2>2, <2>3 DEF new
<1>7. CASE ~(verb = "retry" /\ Ended(task))
  <2> HIDE DEF Kept
  <2>1. Kept(new)
    BY <1>3, <1>4, <1>7 DEF Commanded, PREEMPTABLE, Waiting
  <2>2. ~Alive(task) => new = task
    BY <1>5, <1>7 DEF Commanded, PREEMPTABLE, Waiting
  <2>3. Ended(task) => new = task
    BY <1>5, <1>7 DEF Commanded, PREEMPTABLE, Waiting
  <2> HIDE DEF new
  <2> QED BY <1>1, <1>7, <2>1, <2>2, <2>3 DEF Kept, new
<1> QED BY <1>6, <1>7

\* A run leaves its attempts to the sweep, and does not leave its task running (processTask).
LEMMA RunResultsKeep ==
  ASSUME NEW t \in Tasks, NEW task \in Record, NEW next \in RunResults(t, task)
  PROVE  next.status # "running" /\ next.attempts = task.attempts /\ next.handled = task.handled
<1>1. task \in Task
  BY RecordFacts
<1>2. ASSUME NEW old \in Task, old.attempts = task.attempts, old.handled = task.handled, NEW to, to # "running", NEW why
      PROVE  /\ Move(t, old, to, why).status # "running"
             /\ Move(t, old, to, why).attempts = task.attempts /\ Move(t, old, to, why).handled = task.handled
  BY <1>2, MoveFields
<1>3. CASE \E o \in Outcomes \ {"waiting"} : next = Move(t, task, o, NoReason)
  <2>1. "running" \notin Outcomes
    BY OutcomesAssumption, NamesAreLegal DEF TRANSITIONS
  <2> QED BY <1>1, <1>2, <1>3, <2>1
<1>4. CASE \E w \in Waits : next = Move(t, task, "waiting", w)
  BY <1>1, <1>2, <1>4
<1>5. CASE next = Move(t, [task EXCEPT !.cancelReq = FALSE], "cancelled", NoReason)
  <2> DEFINE asked == [task EXCEPT !.cancelReq = FALSE]
  <2>1. asked \in Task /\ asked.attempts = task.attempts /\ asked.handled = task.handled
    BY <1>1 DEF Task
  <2> HIDE DEF asked
  <2>2. next = Move(t, asked, "cancelled", NoReason)
    BY <1>5 DEF asked
  <2> QED BY <1>2, <2>1, <2>2
<1>6. CASE next = Move(t, Move(t, [task EXCEPT !.pauseReq = FALSE], "waiting", "budget"), "paused", NoReason)
  <2> DEFINE asked  == [task EXCEPT !.pauseReq = FALSE]
             parked == Move(t, asked, "waiting", "budget")
  <2>1. asked \in Task /\ asked.attempts = task.attempts /\ asked.handled = task.handled
    BY <1>1 DEF Task
  <2> HIDE DEF asked
  <2>2. parked \in Task /\ parked.attempts = task.attempts /\ parked.handled = task.handled
    <3>1. parked \in Task
      BY <2>1 DEF Move, Transition, Task, TASK_STATUSES, WAIT_REASONS
    <3> QED BY <2>1, <3>1, MoveFields
  <2> HIDE DEF parked
  <2>3. next = Move(t, parked, "paused", NoReason)
    BY <1>6 DEF parked, asked
  <2> QED BY <1>2, <2>2, <2>3
<1> QED BY <1>3, <1>4, <1>5, <1>6 DEF RunResults

(***************************************************************************)
(* The tally through the steps of a pulse.                                 *)
(***************************************************************************)

\* Records and counts as numbers.
LEMMA CountTypes ==
  ASSUME FrameOK, RecordsOK, NEW t \in Tasks
  PROVE  /\ disk[t] \in Record /\ disk[t].attempts \in Nat
         /\ \A q \in Pulses : mem[q][t] \in Record /\ mem[q][t] \in Task /\ mem[q][t].attempts \in Nat
         /\ deaths[t] \in Nat /\ deaths[t] <= MaxAttempts /\ delivered[t] \in Nat
<1>1. deaths[t] \in 0..MaxAttempts /\ delivered[t] \in Nat
  BY DEF FrameOK
<1>2. disk[t] \in Record /\ \A q \in Pulses : mem[q][t] \in Record
  BY DEF RecordsOK
<1> QED BY <1>1, <1>2, RecordFacts, LimitsAreNumbers

\* While only one pulse moves, its tally is everybody's.
LEMMA OneTally ==
  ASSUME FrameOK, SoloOK, NEW q \in Pulses, Active(q), NEW l, pc' = [pc EXCEPT ![q] = l], Tallied(q)'
  PROVE  CountsOK'
<1>1. pc \in [Pulses -> PC]
  BY DEF FrameOK
<1>2. ASSUME NEW r \in Pulses, r # q PROVE ~Active(r) /\ ~Active(r)'
  BY <1>1, <1>2 DEF SoloOK, Alone, Active
<1>3. ASSUME NEW r \in Pulses, r # q, Alone(r)', NEW t \in Tasks
      PROVE  Tally(Stage(r, t)', mem'[r][t], disk'[t], deaths'[t], delivered'[t])
  <2>1. ~Active(q)' /\ ~Active(r)'
    BY <1>2, <1>3 DEF Alone
  <2>2. Stage(q, t)' = "away" /\ Stage(r, t)' = "away"
    BY <2>1 DEF Stage
  <2>3. Tally("away", mem'[q][t], disk'[t], deaths'[t], delivered'[t])
    BY <2>2 DEF Tallied
  <2> QED BY <2>2, <2>3 DEF Tally
<1> QED BY <1>3 DEF CountsOK, Tallied

\* The steps of the sweep, intake and control, and of the housekeeping: the pulse runs nothing.
LEMMA ByStage ==
  ASSUME CurrentOK, FrameOK, NEW q \in Pulses, pc[q] \in {"reconcile", "intake", "control", "revisit", "claim", "end"}
  PROVE  Active(q) /\ \A t \in Tasks : Stage(q, t) = "by"
BY NoneAssumption DEF CurrentOK, Stage, Active

\* A step of the sweep, a command or a pull request's answer writes one record, and keeps its tally.
Rewrites(q, t, new) ==
  /\ pc[q] \in {"reconcile", "intake", "control", "revisit", "claim"}
  /\ mem' = [mem EXCEPT ![q][t] = new] /\ UNCHANGED <<disk, pc, cur>>
  /\ \A u \in Tasks \ {t} : deaths'[u] = deaths[u] /\ delivered'[u] = delivered[u]
  /\ \/ ~Tally("by", mem[q][t], disk[t], deaths[t], delivered[t])
     \/ Tally("by", new, disk[t], deaths'[t], delivered'[t])

\* Such a step leaves every tally right.
LEMMA TallyOneRecord ==
  ASSUME FrameOK, RecordsOK, CurrentOK, SoloOK, CountsOK, NEW q \in Pulses, NEW t \in Tasks, NEW new,
         Rewrites(q, t, new)
  PROVE  CountsOK'
<1> USE DEF Rewrites
<1>1. Active(q) /\ \A u \in Tasks : Stage(q, u) = "by"
  BY ByStage
<1>2. Tallied(q)
  BY <1>1 DEF SoloOK, CountsOK
<1>3. \A u \in Tasks : Stage(q, u)' = "by"
  BY <1>1 DEF Stage, Active
<1>4. mem'[q][t] = new /\ \A u \in Tasks \ {t} : mem'[q][u] = mem[q][u]
  BY DEF RecordsOK
<1>5. Tallied(q)'
  BY <1>1, <1>2, <1>3, <1>4 DEF Tallied
<1>6. pc' = [pc EXCEPT ![q] = pc[q]]
  BY DEF FrameOK
<1> QED BY <1>1, <1>5, <1>6, OneTally

\* The sweep: a death that was due is charged when the task is put back in the queue (reconcile()).
LEMMA SweepKeepsTally ==
  ASSUME FrameOK, RecordsOK, CurrentOK, SoloOK, CountsOK, NEW q \in Pulses, NEW t \in Tasks, Reconcile(q, t)
  PROVE  CountsOK'
<1>1. PICK new : \E ttl \in BOOLEAN, late \in BOOLEAN :
                   new = Reconciled(q, t, ttl, late) /\ mem' = [mem EXCEPT ![q][t] = new]
  BY DEF Reconcile
<1>2. Alive(new) => /\ Alive(mem[q][t])
                    /\ \/ new.attempts = mem[q][t].attempts /\ (mem[q][t].status = "running" => new.status = "running")
                       \/ new.attempts = mem[q][t].attempts + 1
  BY <1>1, ReconciledKeeps
<1>3. mem[q][t].attempts \in Nat /\ deaths[t] \in Nat /\ delivered[t] \in Nat
  BY CountTypes
<1>4. Tally("by", mem[q][t], disk[t], deaths[t], delivered[t]) => Tally("by", new, disk[t], deaths[t], delivered[t])
  BY <1>2, <1>3, TallyRewritten
<1>5. pc[q] = "reconcile" /\ UNCHANGED <<disk, pc, cur, deaths, delivered>>
  BY DEF Reconcile, fileVars, history
<1>6. mem' = [mem EXCEPT ![q][t] = new]
  BY <1>1
<1>7. Rewrites(q, t, new)
  BY <1>4, <1>5, <1>6 DEF Rewrites
<1> QED BY <1>7, TallyOneRecord

\* What control makes of a record: nothing, a cancelled task, a seen command, or what it commands.
LEMMA ControlResults ==
  ASSUME NEW q \in Pulses, NEW t \in Tasks, Control(q, t), RecordsOK
  PROVE  LET task == mem[q][t]
             verb == view[q][t].command
         IN \E new :
              /\ mem' = [mem EXCEPT ![q][t] = new]
              /\ \/ new = task
                 \/ task.status \in PREEMPTABLE /\ new = Move(t, task, "cancelled", NoReason)
                 \/ verb # "none" /\ ~task.handled /\ new \in {Seen(task), Commanded(t, Seen(task), verb)}
              /\ LET retried == verb = "retry" /\ Ended(task) /\ new.status = "pending" IN
                 /\ delivered' = IF retried THEN [delivered EXCEPT ![t] = 0] ELSE delivered
                 /\ deaths' = IF retried THEN [deaths EXCEPT ![t] = 0] ELSE deaths
<1> DEFINE task == mem[q][t]
           verb == view[q][t].command
           new == IF ~view[q][t].open
                  THEN IF task.status \in PREEMPTABLE THEN Move(t, task, "cancelled", NoReason)
                                                      ELSE task
                  ELSE IF verb = "none" \/ task.handled THEN task
                  ELSE IF verb = "retry" /\ task.ended THEN Seen(task)
                  ELSE Commanded(t, Seen(task), verb)
           retried == verb = "retry" /\ Ended(task) /\ new.status = "pending"
<1>1. /\ mem' = [mem EXCEPT ![q][t] = new]
      /\ delivered' = IF retried THEN [delivered EXCEPT ![t] = 0] ELSE delivered
      /\ deaths' = IF retried THEN [deaths EXCEPT ![t] = 0] ELSE deaths
  BY DEF Control
<1>2. \/ new = task
      \/ task.status \in PREEMPTABLE /\ new = Move(t, task, "cancelled", NoReason)
      \/ verb # "none" /\ ~task.handled /\ new \in {Seen(task), Commanded(t, Seen(task), verb)}
  BY DEF RecordsOK
<1> HIDE DEF new
<1> QED BY <1>1, <1>2

\* A record whose command has been seen is as alive as before (issueSync.js).
LEMMA SeenFields ==
  ASSUME NEW task \in Record
  PROVE  /\ Seen(task) \in Record /\ Seen(task).handled = TRUE
         /\ Seen(task).status = task.status /\ Seen(task).attempts = task.attempts
<1>1. task \in Task
  BY RecordFacts
<1>2. /\ Seen(task) \in Task /\ Seen(task).handled = TRUE
      /\ Seen(task).status = task.status /\ Seen(task).attempts = task.attempts /\ Seen(task).waitReason = task.waitReason
  BY <1>1 DEF Seen, Task
<1> HIDE DEF Seen
<1> QED BY <1>2 DEF Record, Ended

\* A command: a retry begins a new count, any other leaves the attempts (reconcileIssueState).
LEMMA ControlKeepsTally ==
  ASSUME FrameOK, RecordsOK, CurrentOK, SoloOK, CountsOK, NEW q \in Pulses, NEW t \in Tasks, Control(q, t)
  PROVE  CountsOK'
<1> DEFINE task == mem[q][t]
           verb == view[q][t].command
<1>1. PICK new :
        /\ mem' = [mem EXCEPT ![q][t] = new]
        /\ \/ new = task
           \/ task.status \in PREEMPTABLE /\ new = Move(t, task, "cancelled", NoReason)
           \/ verb # "none" /\ ~task.handled /\ new \in {Seen(task), Commanded(t, Seen(task), verb)}
        /\ LET retried == verb = "retry" /\ Ended(task) /\ new.status = "pending" IN
           /\ delivered' = IF retried THEN [delivered EXCEPT ![t] = 0] ELSE delivered
           /\ deaths' = IF retried THEN [deaths EXCEPT ![t] = 0] ELSE deaths
  BY ControlResults
<1>2. task \in Record /\ task \in Task /\ task.attempts \in Nat /\ deaths[t] \in Nat /\ delivered[t] \in Nat
      /\ disk[t].attempts \in Nat
  BY CountTypes
<1> DEFINE retried == verb = "retry" /\ Ended(task) /\ new.status = "pending"
<1>3. /\ Alive(new) /\ ~retried => /\ Alive(task) /\ new.attempts = task.attempts
                                   /\ task.status = "running" => new.status = "running"
      /\ retried => new.attempts \in Nat
  <2>1. CASE new = task
    BY <1>2, <2>1, Living DEF Alive
  <2>2. CASE new = Move(t, task, "cancelled", NoReason)
    BY <1>2, <2>2, MoveFields, Living, NamesAreLegal
  <2>3. CASE new = Seen(task)
    BY <1>2, <2>3, SeenFields DEF Alive, Present, Ended
  <2>4. CASE new = Commanded(t, Seen(task), verb)
    <3>1. /\ Seen(task) \in Record /\ Seen(task).status = task.status /\ Seen(task).attempts = task.attempts
          /\ (Alive(Seen(task)) <=> Alive(task)) /\ (Ended(Seen(task)) <=> Ended(task))
      BY <1>2, SeenFields DEF Alive, Present, Ended
    <3>2. PICK seen \in Record : seen = Seen(task)
      BY <3>1
    <3>3. /\ Alive(new) /\ Alive(seen) => /\ new.attempts = seen.attempts
                                          /\ seen.status = "running" => new.status = "running"
          /\ Alive(new) /\ ~Alive(seen) => verb = "retry" /\ Ended(seen) /\ new.status = "pending"
          /\ new.attempts \in Nat
      BY <2>4, <3>2, CommandedKeeps
    <3> QED BY <3>1, <3>2, <3>3
  <2> QED BY <1>1, <2>1, <2>2, <2>3, <2>4
<1>4. CASE retried
  <2>1. delivered' = [delivered EXCEPT ![t] = 0] /\ deaths' = [deaths EXCEPT ![t] = 0]
    BY <1>1, <1>4
  <2>2. deaths'[t] = 0 /\ delivered'[t] = 0 /\ \A u \in Tasks \ {t} : deaths'[u] = deaths[u] /\ delivered'[u] = delivered[u]
    BY <2>1 DEF FrameOK
  <2>3. Tally("by", new, disk[t], 0, 0)
    BY <1>2, <1>3, <1>4 DEF Tally, Charges, Answered
  <2>4. pc[q] = "control" /\ UNCHANGED <<disk, pc, cur>>
    BY DEF Control, diskVars, fileVars
  <2>5. Rewrites(q, t, new)
    BY <1>1, <2>2, <2>3, <2>4 DEF Rewrites
  <2> QED BY <2>5, TallyOneRecord
<1>5. CASE ~retried
  <2>1. delivered' = delivered /\ deaths' = deaths
    BY <1>1, <1>5
  <2>2. Tally("by", task, disk[t], deaths[t], delivered[t]) => Tally("by", new, disk[t], deaths[t], delivered[t])
    BY <1>2, <1>3, <1>5, TallyRewritten
  <2>3. pc[q] = "control" /\ UNCHANGED <<disk, pc, cur>>
    BY DEF Control, diskVars, fileVars
  <2>4. Rewrites(q, t, new)
    BY <1>1, <2>1, <2>2, <2>3 DEF Rewrites
  <2> QED BY <2>4, TallyOneRecord
<1> QED BY <1>4, <1>5

\* The answer of a pull request ends its task, and parking a task whose dependencies are not complete
\* takes it from the queue (revisitSelfImprovePr, claimAndRun).
LEMMA LoopsKeepTally ==
  ASSUME FrameOK, RecordsOK, CurrentOK, LoopsOK, SoloOK, CountsOK, NEW q \in Pulses, NEW t \in Tasks,
         Revisit(q, t) \/ ParkOnDependency(q, t)
  PROVE  CountsOK'
<1> DEFINE task == mem[q][t]
<1>1. task \in Record /\ task \in Task /\ task.attempts \in Nat /\ deaths[t] \in Nat /\ delivered[t] \in Nat
  BY CountTypes
<1>2. PICK new :
        /\ mem' = [mem EXCEPT ![q][t] = new]
        /\ \/ new = task
           \/ \E to \in {"complete", "failed", "dead-lettered"} : new = Move(t, task, to, NoReason)
           \/ task.status = "pending" /\ new = Move(t, task, "waiting", "dependency")
  <2>1. CASE Revisit(q, t)
    <3>1. PICK to \in {"pr-open", "complete", "failed"} :
            mem' = IF to = "pr-open" THEN mem ELSE [mem EXCEPT ![q][t] = Move(t, @, to, NoReason)]
      BY <2>1 DEF Revisit
    <3>2. CASE to = "pr-open"
      <4>1. mem' = [mem EXCEPT ![q][t] = task]
        BY <3>1, <3>2 DEF RecordsOK
      <4> QED BY <4>1
    <3>3. CASE to # "pr-open"
      BY <3>1, <3>3
    <3> QED BY <3>2, <3>3
  <2>2. CASE ParkOnDependency(q, t)
    <3>1. Active(q) /\ t \in todo[q] /\ pc[q] = "claim"
      BY <2>2 DEF ParkOnDependency, Considers, Active
    <3>2. Obj(q, t) = task /\ task.status = "pending"
      BY <3>1, ObjAlone DEF LoopsOK, LoopOK
    <3>3. PutObj(q, t, IF DepState(q, t) = "waiting" THEN Move(t, task, "waiting", "dependency")
                                                     ELSE Move(t, task, "dead-lettered", NoReason))
      BY <2>2, <3>2 DEF ParkOnDependency
    <3>4. \A x : PutObj(q, t, x) => mem' = [mem EXCEPT ![q][t] = x]
      BY <3>1, ObjAlone
    <3> QED BY <3>2, <3>3, <3>4
  <2> QED BY <2>1, <2>2
<1>3. Alive(new) => Alive(task) /\ new.attempts = task.attempts /\ (task.status = "running" => new.status = "running")
  BY <1>1, <1>2, MoveFields, Living, NamesAreLegal
<1>4. Tally("by", task, disk[t], deaths[t], delivered[t]) => Tally("by", new, disk[t], deaths[t], delivered[t])
  BY <1>1, <1>3, TallyRewritten
<1>5. /\ pc[q] \in {"revisit", "claim"} /\ UNCHANGED <<disk, pc, cur>>
      /\ UNCHANGED <<deaths, delivered>>
  BY DEF Revisit, ParkOnDependency, Considers, diskVars, fileVars, history
<1>6. Rewrites(q, t, new)
  BY <1>2, <1>4, <1>5 DEF Rewrites
<1> QED BY <1>6, TallyOneRecord

\* A pulse that works on a task is at a stage of its run, and at none of any other's.
LEMMA WorkStage ==
  ASSUME CurrentOK, FrameOK, NEW q \in Pulses, pc[q] \in {"claimed", "run", "ran"}
  PROVE  /\ Active(q) /\ cur[q] \in Tasks
         /\ \A t \in Tasks : Stage(q, t) = IF t = cur[q] THEN pc[q] ELSE "by"
BY NoneAssumption DEF CurrentOK, FrameOK, Stage, Active

\* A claim and the end of its run write the record of the task, in memory only (claimAndRun).
LEMMA RunKeepsTally ==
  ASSUME FrameOK, RecordsOK, CurrentOK, LoopsOK, SoloOK, CountsOK, NEW q \in Pulses,
         (\E t \in Tasks : Claim(q, t)) \/ EndRun(q)
  PROVE  CountsOK'
<1> USE DEF Goto, diskVars, fileVars, history
<1>0. pc \in [Pulses -> PC] /\ cur \in [Pulses -> Tasks \cup {None}] /\ mem \in [Pulses -> [Tasks -> Record]]
  BY DEF FrameOK, RecordsOK
<1>1. ASSUME NEW t \in Tasks, Claim(q, t) PROVE CountsOK'
  <2>1. /\ pc[q] = "claim" /\ t \in todo[q] /\ pc' = [pc EXCEPT ![q] = "claimed"] /\ cur' = [cur EXCEPT ![q] = t]
        /\ UNCHANGED <<disk, deaths, delivered>>
    BY <1>1 DEF Claim, Considers
  <2>2. Active(q) /\ \A u \in Tasks : Stage(q, u) = "by"
    BY <2>1, ByStage
  <2>3. Tallied(q) /\ mem[q][t].status = "pending"
    <3>1. Tallied(q)
      BY <2>2 DEF SoloOK, CountsOK
    <3>2. Obj(q, t).status = "pending"
      BY <2>1 DEF LoopsOK, LoopOK
    <3> QED BY <2>2, <3>1, <3>2, ObjAlone
  <2>4. PICK new : /\ mem' = [mem EXCEPT ![q][t] = new]
                   /\ new = [Move(t, mem[q][t], "running", NoReason) EXCEPT !.lease = q]
    <3>1. PutObj(q, t, [Move(t, mem[q][t], "running", NoReason) EXCEPT !.lease = q])
      BY <1>1, <2>2, ObjAlone DEF Claim
    <3>2. \A x : PutObj(q, t, x) => mem' = [mem EXCEPT ![q][t] = x]
      BY <2>2, ObjAlone
    <3> QED BY <3>1, <3>2
  <2>5. new.attempts = mem[q][t].attempts
    <3>1. mem[q][t] \in Task
      BY CountTypes
    <3>2. Move(t, mem[q][t], "running", NoReason).attempts = mem[q][t].attempts
      BY <3>1, MoveFields
    <3>3. Move(t, mem[q][t], "running", NoReason) \in Task
      BY <3>1, NamesAreLegal DEF Move, Transition, Task
    <3>4. PICK moved \in Task : moved = Move(t, mem[q][t], "running", NoReason)
      BY <3>3
    <3>5. [moved EXCEPT !.lease = q].attempts = moved.attempts
      BY DEF Task
    <3> QED BY <2>4, <3>2, <3>4, <3>5
  <2>6. Tally("claimed", new, disk[t], deaths[t], delivered[t])
    <3>1. Tally("by", mem[q][t], disk[t], deaths[t], delivered[t])
      BY <2>2, <2>3 DEF Tallied
    <3> QED BY <2>3, <2>5, <3>1, CountTypes, TallyClaimed
  <2>7. \A u \in Tasks : Stage(q, u)' = IF u = t THEN "claimed" ELSE "by"
    BY <1>0, <2>1, <2>2 DEF CurrentOK, Stage, Active
  <2>8. mem'[q][t] = new /\ \A u \in Tasks \ {t} : mem'[q][u] = mem[q][u]
    BY <1>0, <2>4
  <2>9. Tallied(q)'
    BY <2>1, <2>2, <2>3, <2>6, <2>7, <2>8 DEF Tallied
  <2> QED BY <2>1, <2>2, <2>9, OneTally
<1>2. ASSUME EndRun(q) PROVE CountsOK'
  <2> DEFINE t == cur[q]
  <2>1. pc[q] = "run" /\ pc' = [pc EXCEPT ![q] = "ran"] /\ UNCHANGED <<disk, cur, deaths>>
    BY <1>2 DEF EndRun
  <2>2. Active(q) /\ t \in Tasks /\ \A u \in Tasks : Stage(q, u) = IF u = t THEN "run" ELSE "by"
    BY <2>1, WorkStage
  <2>3. Tallied(q) /\ mem[q][t].status = "running" /\ Obj(q, t) = mem[q][t]
    <3>1. Tallied(q)
      BY <2>2 DEF SoloOK, CountsOK
    <3>2. Obj(q, t).status = "running"
      BY <2>1 DEF LoopsOK, LoopOK
    <3> QED BY <2>2, <3>1, <3>2, ObjAlone
  <2>4. PICK new \in RunResults(t, mem[q][t]) :
          /\ PutObj(q, t, new)
          /\ delivered' = IF new.status \in {"complete", "failed"}
                          THEN [delivered EXCEPT ![t] = @ + 1] ELSE delivered
    BY <1>2, <2>3 DEF EndRun
  <2>5. mem' = [mem EXCEPT ![q][t] = new]
    BY <2>2, <2>4, ObjAlone
  <2>6. new.attempts = mem[q][t].attempts
    BY <2>2, <2>4, CountTypes, RunResultsKeep
  <2>7. /\ \A u \in Tasks \ {t} : delivered'[u] = delivered[u]
        /\ delivered'[t] = delivered[t] \/ (delivered'[t] = delivered[t] + 1 /\ ~Alive(new))
    <3>1. new.status \in {"complete", "failed"} => ~Alive(new)
      BY Living, NamesAreLegal
    <3> QED BY <2>2, <2>4, <3>1 DEF FrameOK
  <2>8. Tally("ran", new, disk[t], deaths[t], delivered'[t])
    <3>1. Tally("run", mem[q][t], disk[t], deaths[t], delivered[t])
      BY <2>2, <2>3 DEF Tallied
    <3>2. deaths[t] \in Nat /\ delivered[t] \in Nat /\ delivered'[t] \in Nat
      BY <2>2, <2>7, CountTypes
    <3>3. PICK m \in Nat : m = delivered'[t]
      BY <3>2
    <3>4. Tally("ran", new, disk[t], deaths[t], m)
      BY <2>3, <2>6, <2>7, <3>1, <3>2, <3>3, TallyRun
    <3> QED BY <3>3, <3>4
  <2>9. \A u \in Tasks : Stage(q, u)' = IF u = t THEN "ran" ELSE "by"
    BY <1>0, <2>1, <2>2 DEF Stage, Active
  <2>10. mem'[q][t] = new /\ \A u \in Tasks \ {t} : mem'[q][u] = mem[q][u]
    BY <1>0, <2>2, <2>5
  <2>11. Tallied(q)'
    <3> HIDE DEF t
    <3> QED BY <2>1, <2>2, <2>3, <2>7, <2>8, <2>9, <2>10 DEF Tallied
  <2> QED BY <2>1, <2>2, <2>11, OneTally
<1> QED BY <1>1, <1>2

\* A save puts what was in memory into the file (saveTasks).
LEMMA SavesKeepTally ==
  ASSUME FrameOK, RecordsOK, CurrentOK, LoopsOK, SoloOK, CountsOK, NEW q \in Pulses,
         SaveClaim(q) \/ SaveRun(q) \/ SaveEnd(q)
  PROVE  CountsOK'
<1> USE DEF history
<1>0. pc \in [Pulses -> PC] /\ cur \in [Pulses -> Tasks \cup {None}]
  BY DEF FrameOK
<1>1. ASSUME NEW l \in PC, Active(q), Save(q, l), UNCHANGED <<deaths, delivered>>,
             \A t \in Tasks : \E other :
               /\ l # "done" => other = mem[q][t]
               /\ Tally(Stage(q, t), mem[q][t], disk[t], deaths[t], delivered[t])
                    => Tally(Stage(q, t)', other, mem[q][t], deaths[t], delivered[t])
      PROVE  CountsOK'
  <2>1. pc' = [pc EXCEPT ![q] = l] /\ disk' = mem[q] /\ (l # "done" => mem'[q] = mem[q])
    BY <1>1, SaveAlone
  <2>2. Tallied(q)
    BY <1>1 DEF SoloOK, CountsOK
  <2>3. l = "done" => \A t \in Tasks : Stage(q, t)' = "away"
    BY <1>0, <2>1 DEF Stage, Active
  <2>4. ASSUME NEW t \in Tasks PROVE Tally(Stage(q, t)', mem'[q][t], disk'[t], deaths'[t], delivered'[t])
    <3>1. PICK other : /\ l # "done" => other = mem[q][t]
                       /\ Tally(Stage(q, t)', other, mem[q][t], deaths[t], delivered[t])
      BY <1>1, <2>2 DEF Tallied
    <3>2. CASE l # "done"
      BY <1>1, <2>1, <3>1, <3>2
    <3>3. CASE l = "done"
      BY <1>1, <2>1, <2>3, <3>1, <3>3 DEF Tally
    <3> QED BY <3>2, <3>3
  <2>5. Tallied(q)'
    BY <2>4 DEF Tallied
  <2> QED BY <1>1, <2>1, <2>5, OneTally
<1>2. \A t \in Tasks : deaths[t] \in Nat /\ delivered[t] \in Nat
  BY CountTypes
<1>3. CASE SaveClaim(q)
  <2>1. pc[q] = "claimed" /\ Save(q, "run") /\ "run" \in PC /\ UNCHANGED <<cur, deaths, delivered>>
    BY <1>3 DEF SaveClaim, PC
  <2>2. Active(q) /\ cur[q] \in Tasks /\ \A t \in Tasks : Stage(q, t) = IF t = cur[q] THEN "claimed" ELSE "by"
    BY <2>1, WorkStage
  <2>3. pc'[q] = "run"
    BY <1>0, <2>1, <2>2, SaveAlone
  <2>4. \A t \in Tasks : Stage(q, t)' = IF t = cur[q] THEN "run" ELSE "by"
    BY <2>1, <2>3 DEF Stage, Active
  <2>5. mem[q][cur[q]].status = "running"
    BY <2>1, <2>2, ObjAlone DEF LoopsOK, LoopOK
  <2>6. \A t \in Tasks : Tally(Stage(q, t), mem[q][t], disk[t], deaths[t], delivered[t])
                           => Tally(Stage(q, t)', mem[q][t], mem[q][t], deaths[t], delivered[t])
    BY <1>2, <2>2, <2>4, <2>5, TallySaved
  <2> QED BY <1>1, <2>1, <2>2, <2>6
<1>4. CASE SaveRun(q)
  <2>1. /\ pc[q] = "ran" /\ Save(q, "claim") /\ "claim" \in PC /\ cur' = [cur EXCEPT ![q] = None]
        /\ UNCHANGED <<deaths, delivered>>
    BY <1>4 DEF SaveRun, PC
  <2>2. Active(q) /\ cur[q] \in Tasks /\ \A t \in Tasks : Stage(q, t) = IF t = cur[q] THEN "ran" ELSE "by"
    BY <2>1, WorkStage
  <2>3. pc'[q] = "claim" /\ cur'[q] = None
    BY <1>0, <2>1, <2>2, SaveAlone
  <2>4. \A t \in Tasks : Stage(q, t)' = "by"
    BY <2>3, NoneAssumption DEF Stage, Active
  <2>5. \A t \in Tasks : Tally(Stage(q, t), mem[q][t], disk[t], deaths[t], delivered[t])
                           => Tally(Stage(q, t)', mem[q][t], mem[q][t], deaths[t], delivered[t])
    BY <1>2, <2>2, <2>4, TallySaved
  <2> QED BY <1>1, <2>1, <2>2, <2>5
<1>5. CASE SaveEnd(q)
  <2>1. pc[q] = "end" /\ Save(q, "done") /\ "done" \in PC /\ UNCHANGED <<cur, deaths, delivered>>
    BY <1>5 DEF SaveEnd, PC
  <2>2. Active(q) /\ \A t \in Tasks : Stage(q, t) = "by"
    BY <2>1, ByStage
  <2>3. pc'[q] = "done"
    BY <1>0, <2>1, <2>2, SaveAlone
  <2>4. \A t \in Tasks : Stage(q, t)' = "away"
    BY <2>3 DEF Stage, Active
  <2>5. \A t \in Tasks : Tally(Stage(q, t), mem[q][t], disk[t], deaths[t], delivered[t])
                           => Tally(Stage(q, t)', mem[q][t], mem[q][t], deaths[t], delivered[t])
    BY <1>2, <2>2, <2>4, TallySaved
  <2> QED BY <1>1, <2>1, <2>2, <2>5
<1> QED BY <1>3, <1>4, <1>5

\* A pulse that loads the file has its tally; one that queues a new task begins its count; and what goes
\* to the archive is over (loadTasks, syncIssuesIntoTasks, archiveOldTasks).
LEMMA BeginningsKeepTally ==
  ASSUME Serialized, FrameOK, RecordsOK, CurrentOK, SoloOK, CountsOK, NEW q \in Pulses,
         Load(q) \/ Intake(q) \/ BeginClaims(q) \/ StopClaims(q)
  PROVE  CountsOK'
<1> USE DEF Goto, diskVars, fileVars, history
<1>0. pc \in [Pulses -> PC] /\ mem \in [Pulses -> [Tasks -> Record]]
  BY DEF FrameOK, RecordsOK
<1>1. CASE Load(q)
  <2>1. /\ pc[q] = "idle" /\ \A r \in Pulses : ~Active(r)
        /\ pc' = [pc EXCEPT ![q] = "reconcile"] /\ mem' = [mem EXCEPT ![q] = disk]
        /\ UNCHANGED <<disk, cur, deaths, delivered>>
    BY <1>1 DEF Load
  <2>2. Tallied(q) /\ \A t \in Tasks : Stage(q, t) = "away"
    BY <2>1 DEF CountsOK, Alone, Stage
  <2>3. \A t \in Tasks : Stage(q, t)' = "by"
    BY <1>0, <2>1, NoneAssumption DEF CurrentOK, Stage, Active
  <2>4. mem'[q] = disk
    BY <1>0, <2>1
  <2>5. ASSUME NEW t \in Tasks PROVE Tally("by", disk[t], disk[t], deaths[t], delivered[t])
    <3>1. Tally("away", mem[q][t], disk[t], deaths[t], delivered[t])
      BY <2>2 DEF Tallied
    <3> QED BY <3>1, CountTypes, TallyLoaded
  <2>6. Tallied(q)'
    BY <2>1, <2>3, <2>4, <2>5 DEF Tallied
  <2>7. \A r \in Pulses : r # q => ~Active(r)'
    BY <1>0, <2>1 DEF Active
  <2>8. Active(q)'
    BY <1>0, <2>1 DEF Active
  <2>9. \A r \in Pulses : Alone(r)' => r = q
    BY <2>7, <2>8 DEF Alone
  <2> QED BY <2>6, <2>9 DEF CountsOK
<1>2. CASE Intake(q)
  <2>1. PICK listing \in Listings :
          LET new == {t \in Tasks : listing[t].open /\ ~Present(mem[q][t])} IN
          /\ mem' = [mem EXCEPT ![q] = [t \in Tasks |-> IF t \in new THEN NewTask ELSE mem[q][t]]]
          /\ delivered' = [t \in Tasks |-> IF t \in new THEN 0 ELSE delivered[t]]
          /\ deaths' = [t \in Tasks |-> IF t \in new THEN 0 ELSE deaths[t]]
    BY <1>2 DEF Intake
  <2>2. pc[q] = "intake" /\ pc' = [pc EXCEPT ![q] = "control"] /\ UNCHANGED <<disk, cur>>
    BY <1>2 DEF Intake
  <2>3. Active(q) /\ \A t \in Tasks : Stage(q, t) = "by"
    BY <2>2, ByStage
  <2>4. \A t \in Tasks : Stage(q, t)' = "by"
    BY <1>0, <2>2, <2>3 DEF Stage, Active
  <2>5. Tallied(q)
    BY <2>3 DEF SoloOK, CountsOK
  <2>6. ASSUME NEW t \in Tasks PROVE Tally("by", mem'[q][t], disk[t], deaths'[t], delivered'[t])
    <3>1. disk[t].attempts \in Nat /\ NewTask.attempts = 0
      BY CountTypes DEF NewTask
    <3>2. Tally("by", NewTask, disk[t], 0, 0)
      BY <3>1 DEF Tally, Charges, Answered
    <3>3. \/ mem'[q][t] = NewTask /\ deaths'[t] = 0 /\ delivered'[t] = 0
          \/ mem'[q][t] = mem[q][t] /\ deaths'[t] = deaths[t] /\ delivered'[t] = delivered[t]
      BY <1>0, <2>1
    <3>4. Tally("by", mem[q][t], disk[t], deaths[t], delivered[t])
      BY <2>3, <2>5 DEF Tallied
    <3> QED BY <3>2, <3>3, <3>4
  <2>7. Tallied(q)'
    BY <2>2, <2>4, <2>6 DEF Tallied
  <2> QED BY <2>2, <2>3, <2>7, OneTally
<1>3. CASE BeginClaims(q) \/ StopClaims(q)
  <2>1. /\ pc[q] \in {"revisit", "claim"} /\ UNCHANGED <<disk, cur, deaths, delivered>>
        /\ \E l \in {"end", "claim"} : pc' = [pc EXCEPT ![q] = l]
    BY <1>3 DEF BeginClaims, StopClaims
  <2>2. Active(q) /\ \A t \in Tasks : Stage(q, t) = "by"
    BY <2>1, ByStage
  <2>3. \A t \in Tasks : Stage(q, t)' = "by"
    BY <1>0, <2>1, <2>2 DEF Stage, Active
  <2>4. Tallied(q)
    BY <2>2 DEF SoloOK, CountsOK
  <2>5. TidyUp(q) \/ mem' = mem
    BY <1>3 DEF BeginClaims, StopClaims
  <2>6. \A t \in Tasks : mem'[q][t] \in {mem[q][t], NoTask}
    BY <1>0, <2>5 DEF TidyUp
  <2>7. ASSUME NEW t \in Tasks PROVE Tally("by", mem'[q][t], disk[t], deaths[t], delivered[t])
    <3>1. Tally("by", mem[q][t], disk[t], deaths[t], delivered[t])
      BY <2>2, <2>4 DEF Tallied
    <3>2. ~Alive(NoTask)
      BY DEF NoTask, NewTask, Alive, Present
    <3>3. Tally("by", NoTask, disk[t], deaths[t], delivered[t])
      BY <3>1, <3>2, CountTypes, TallyRewritten
    <3> QED BY <2>6, <3>1, <3>3
  <2>8. Tallied(q)'
    BY <2>1, <2>3, <2>7 DEF Tallied
  <2> QED BY <2>1, <2>2, <2>8, OneTally
<1> QED BY <1>1, <1>2, <1>3

\* A death in a run counts, once: its pulse had not used up the task's attempts (Spent).
LEMMA SpentEffect ==
  ASSUME FrameOK, RecordsOK, CurrentOK, SoloOK, CountsOK, NEW q \in Pulses, Active(q), Spent(q)
  PROVE  \A t \in Tasks : deaths'[t] = IF Stage(q, t) \in {"run", "ran"} THEN deaths[t] + 1 ELSE deaths[t]
<1>1. CASE pc[q] \in {"run", "ran"}
  <2> DEFINE t == cur[q]
  <2>1. t \in Tasks /\ \A u \in Tasks : Stage(q, u) = IF u = t THEN pc[q] ELSE "by"
    BY <1>1, WorkStage
  <2>2. Tally(Stage(q, t), mem[q][t], disk[t], deaths[t], delivered[t])
    BY <2>1 DEF SoloOK, CountsOK, Tallied
  <2>3. deaths[t] < MaxAttempts
    BY <1>1, <2>1, <2>2, CountTypes, TallyCeiling
  <2>4. deaths' = [deaths EXCEPT ![t] = @ + 1]
    BY <1>1, <2>3 DEF Spent
  <2> HIDE DEF t
  <2> QED BY <1>1, <2>1, <2>4 DEF FrameOK
<1>2. CASE pc[q] \notin {"run", "ran"}
  BY <1>2 DEF Spent, Stage
<1> QED BY <1>1, <1>2

\* A pulse that throws or is killed leaves its deaths due (runPulse).
LEMMA FailuresKeepTally ==
  ASSUME FrameOK, RecordsOK, CurrentOK, LoopsOK, SoloOK, CountsOK, NEW q \in Pulses, Throw(q) \/ Crash(q)
  PROVE  CountsOK'
<1>0. pc \in [Pulses -> PC] /\ cur \in [Pulses -> Tasks \cup {None}]
  BY DEF FrameOK
<1>1. Active(q) /\ Spent(q) /\ disk' = disk /\ delivered' = delivered /\ cur' = [cur EXCEPT ![q] = None]
  BY DEF Throw, Crash, Active, diskVars, fileVars
<1>2. Tallied(q) /\ \A t \in Tasks : deaths'[t] = IF Stage(q, t) \in {"run", "ran"} THEN deaths[t] + 1 ELSE deaths[t]
  BY <1>1, SpentEffect DEF SoloOK, CountsOK
<1>3. CASE Throw(q)
  <2>1. pc[q] \in {"intake", "control", "revisit", "run"} /\ pc' = [pc EXCEPT ![q] = "end"] /\ mem' = mem
    BY <1>3 DEF Throw, Goto
  <2>2. \A t \in Tasks : Stage(q, t)' = "by"
    BY <1>0, <1>1, <2>1, NoneAssumption DEF Stage, Active
  <2>3. ASSUME NEW t \in Tasks PROVE Tally("by", mem[q][t], disk[t], deaths'[t], delivered[t])
    <3>1. Tally(Stage(q, t), mem[q][t], disk[t], deaths[t], delivered[t])
      BY <1>2 DEF Tallied
    <3>2. CASE Stage(q, t) = "run"
      <4>1. pc[q] = "run" /\ t = cur[q]
        BY <1>1, <3>2 DEF Stage
      <4>2. mem[q][t].status = "running"
        BY <1>1, <4>1, ObjAlone DEF LoopsOK, LoopOK
      <4>3. deaths'[t] = deaths[t] + 1 /\ deaths[t] \in Nat /\ delivered[t] \in Nat
        BY <1>2, <3>2, CountTypes
      <4>4. PICK e \in Nat : e = deaths'[t] /\ e = deaths[t] + 1
        BY <4>3
      <4>5. Tally("by", mem[q][t], disk[t], e, delivered[t])
        BY <3>1, <3>2, <4>2, <4>3, <4>4, CountTypes, TallyThrown
      <4> QED BY <4>4, <4>5
    <3>3. CASE Stage(q, t) # "run"
      <4>1. Stage(q, t) = "by"
        BY <1>1, <2>1, <3>3, ByStage, WorkStage
      <4> QED BY <1>2, <3>1, <4>1
    <3> QED BY <3>2, <3>3
  <2>4. Tallied(q)'
    BY <1>1, <2>1, <2>2, <2>3 DEF Tallied
  <2> QED BY <1>1, <2>1, <2>4, OneTally
<1>4. CASE Crash(q)
  <2>1. pc' = [pc EXCEPT ![q] = "dead"]
    BY <1>4 DEF Crash, Goto
  <2>2. \A t \in Tasks : Stage(q, t)' = "away"
    BY <1>0, <2>1 DEF Stage, Active
  <2>3. ASSUME NEW t \in Tasks PROVE Tally("away", mem'[q][t], disk[t], deaths'[t], delivered[t])
    <3>1. Tally(Stage(q, t), mem[q][t], disk[t], deaths[t], delivered[t])
      BY <1>2 DEF Tallied
    <3>2. deaths[t] \in Nat /\ delivered[t] \in Nat /\ disk[t].attempts \in Nat /\ deaths'[t] \in Nat
      BY <1>2, CountTypes
    <3>3. PICK e \in Nat : e = deaths'[t]
      BY <3>2
    <3>4. \A other : Tally("away", other, disk[t], e, delivered[t])
      BY <1>2, <3>1, <3>2, <3>3, TallyKilled
    <3> QED BY <3>3, <3>4
  <2>4. Tallied(q)'
    BY <1>1, <2>2, <2>3 DEF Tallied
  <2> QED BY <1>1, <2>1, <2>4, OneTally
<1> QED BY <1>3, <1>4

\* No step of a pulse, of a user or of the clock upsets the tally.
LEMMA CountsInductive ==
  ASSUME Serialized, FrameOK, RecordsOK, CurrentOK, LoopsOK, SoloOK, CountsOK, [Next]_vars
  PROVE  CountsOK'
<1> USE DEF Goto, diskVars, fileVars, history
<1>1. ASSUME UNCHANGED <<disk, mem, deaths, delivered, pc, cur>> PROVE CountsOK'
  <2>1. ASSUME NEW q \in Pulses
        PROVE  /\ Alone(q)' => Alone(q)
               /\ \A t \in Tasks : Stage(q, t)' = Stage(q, t)
    BY <1>1 DEF Alone, Stage, Active
  <2> QED BY <1>1, <2>1 DEF CountsOK, Tallied
<1>2. CASE UserOrClock
  <2>1. UNCHANGED <<disk, mem, deaths, delivered, pc, cur>>
    BY <1>2 DEF UserOrClock, Post, CloseIssue, LeaseRunsOut, MirrorRunsOut
  <2> QED BY <1>1, <2>1
<1>3. ASSUME NEW q \in Pulses, SweepOrphans(q) \/ ControlDone(q) PROVE CountsOK'
  <2>1. pc[q] \in {"reconcile", "control"} /\ UNCHANGED <<disk, mem, deaths, delivered, cur>>
    BY <1>3 DEF SweepOrphans, ControlDone
  <2>2. PICK l \in {"end", "intake", "revisit"} : pc' = [pc EXCEPT ![q] = l]
    BY <1>3 DEF SweepOrphans, ControlDone
  <2>3. Active(q) /\ \A t \in Tasks : Stage(q, t) = "by"
    BY <2>1, ByStage
  <2>4. \A t \in Tasks : Stage(q, t)' = "by"
    BY <2>1, <2>2, <2>3 DEF FrameOK, Stage, Active
  <2>5. Tallied(q)
    BY <2>3 DEF SoloOK, CountsOK
  <2>6. Tallied(q)'
    BY <2>1, <2>3, <2>4, <2>5 DEF Tallied
  <2> QED BY <2>2, <2>3, <2>6, OneTally
<1>4. ASSUME NEW q \in Pulses, Persist(q) \/ ReadFile(q) \/ Baseline(q) PROVE CountsOK'
  <2>1. ReadFile(q) => mem' = mem
    BY ReadAlone
  <2> QED BY <1>1, <1>4, <2>1 DEF Persist, ReadFile, Baseline
<1>5. ASSUME NEW q \in Pulses, NEW t \in Tasks, ClaimRefused(q, t) PROVE CountsOK'
  BY <1>1, <1>5 DEF ClaimRefused
<1>6. CASE UNCHANGED vars
  BY <1>1, <1>6 DEF vars
<1>7. ASSUME NEW q \in Pulses, Load(q) \/ Intake(q) \/ BeginClaims(q) \/ StopClaims(q) PROVE CountsOK'
  BY <1>7, BeginningsKeepTally
<1>8. ASSUME NEW q \in Pulses, NEW t \in Tasks, Reconcile(q, t) PROVE CountsOK'
  BY <1>8, SweepKeepsTally
<1>9. ASSUME NEW q \in Pulses, NEW t \in Tasks, Control(q, t) PROVE CountsOK'
  BY <1>9, ControlKeepsTally
<1>10. ASSUME NEW q \in Pulses, NEW t \in Tasks, Revisit(q, t) \/ ParkOnDependency(q, t) PROVE CountsOK'
  BY <1>10, LoopsKeepTally
<1>11. ASSUME NEW q \in Pulses, (\E t \in Tasks : Claim(q, t)) \/ EndRun(q) PROVE CountsOK'
  BY <1>11, RunKeepsTally
<1>12. ASSUME NEW q \in Pulses, SaveClaim(q) \/ SaveRun(q) \/ SaveEnd(q) PROVE CountsOK'
  BY <1>12, SavesKeepTally
<1>13. ASSUME NEW q \in Pulses, Throw(q) \/ Crash(q) PROVE CountsOK'
  BY <1>13, FailuresKeepTally
<1> QED
  BY <1>2, <1>3, <1>4, <1>5, <1>6, <1>7, <1>8, <1>9, <1>10, <1>11, <1>12, <1>13 DEF Next, PulseStep

\* The tally is right from the first pulse on: no task has been run.
LEMMA Counts == ASSUME Serialized PROVE Spec => [](SoloOK /\ CountsOK)
<1>1. Init => SoloOK /\ CountsOK
  <2> SUFFICES ASSUME Init PROVE SoloOK /\ CountsOK
    OBVIOUS
  <2>1. \A p \in Pulses : ~Active(p)
    BY DEF Init, Active
  <2>2. ASSUME NEW t \in Tasks, NEW task PROVE Tally("away", task, disk[t], 0, 0)
    <3>1. disk[t] \in {NewTask, NoTask}
      BY DEF Init
    <3>2. disk[t].attempts = 0
      BY <3>1 DEF NewTask, NoTask
    <3> QED BY <3>2 DEF Tally, Charges, Answered
  <2>3. CountsOK
    BY <2>1, <2>2 DEF Init, CountsOK, Tallied, Stage
  <2>4. \A p \in Pulses : save[p] # "same"
    BY DEF Init
  <2> QED BY <2>1, <2>3, <2>4 DEF SoloOK
<1>2. FrameOK /\ CurrentOK /\ RecordsOK /\ LoopsOK /\ SoloOK /\ CountsOK /\ [Next]_vars => (SoloOK /\ CountsOK)'
  BY SoloInductive, CountsInductive
<1> QED BY <1>1, <1>2, Engine, PTL DEF Spec

\* A task that has killed as many pulses as it has attempts is not run again (reconcile.js:67-80): for any
\* number of pulses, kills, exceptions, commands and attempts, as long as pulses do not overlap.
THEOREM DeathsAreBounded == ASSUME Serialized PROVE Spec => []AttemptCeiling
<1>1. FrameOK /\ CurrentOK /\ RecordsOK /\ SoloOK /\ CountsOK => AttemptCeiling
  <2> SUFFICES ASSUME FrameOK, CurrentOK, RecordsOK, SoloOK, CountsOK, NEW p \in Pulses, NEW t \in Tasks,
                      pc[p] = "run", cur[p] = t
               PROVE  ~(deaths[t] >= MaxAttempts)
    BY DEF AttemptCeiling
  <2>1. Active(p) /\ Stage(p, t) = "run"
    BY WorkStage
  <2>2. Tally(Stage(p, t), mem[p][t], disk[t], deaths[t], delivered[t])
    BY <2>1 DEF SoloOK, CountsOK, Tallied
  <2>3. deaths[t] < MaxAttempts
    BY <2>1, <2>2, CountTypes, TallyCeiling
  <2> QED BY <2>3, CountTypes, LimitsAreNumbers
<1> QED BY <1>1, Counts, Engine, PTL

\* A result is delivered once for each time a user asks for it, and at most once more for each pulse that
\* died in a run, whatever waits, commands, sweeps and saves come between (lifecycle.js:35): where pulses do
\* not overlap, which is what this theorem assumes.
THEOREM ResultsAreBounded == ASSUME Serialized PROVE Spec => []DeliveredOnce
<1>1. Init => DeliveredOnce
  BY DEF Init, DeliveredOnce
<1>2. FrameOK /\ RecordsOK /\ CurrentOK /\ LoopsOK /\ SoloOK /\ CountsOK /\ DeliveredOnce /\ [Next]_vars => DeliveredOnce'
  <2> SUFFICES ASSUME FrameOK, RecordsOK, CurrentOK, LoopsOK, SoloOK, CountsOK, DeliveredOnce, [Next]_vars PROVE DeliveredOnce'
    OBVIOUS
  <2>1. CASE deaths' = deaths /\ delivered' = delivered
    BY <2>1 DEF DeliveredOnce
  <2>2. CASE ~(deaths' = deaths /\ delivered' = delivered)
    <3>1. PICK q \in Pulses : PulseStep(q) \/ Throw(q) \/ Crash(q)
      BY <2>2 DEF Next, UserOrClock, Post, CloseIssue, LeaseRunsOut, MirrorRunsOut, vars, history
    <3>2. \E r \in Pulses : Alone(r)'
      <4>1. CASE \A r \in Pulses : ~Active(r)'
        BY <3>1, <4>1 DEF Alone
      <4>2. CASE \E r \in Pulses : Active(r)'
        BY <4>2, SoloInductive DEF SoloOK
      <4> QED BY <4>1, <4>2
    <3>3. PICK r \in Pulses : Tallied(r)'
      BY <3>2, CountsInductive DEF CountsOK
    <3> QED BY <3>3 DEF Tallied, Tally, DeliveredOnce
  <2> QED BY <2>1, <2>2
<1> QED BY <1>1, <1>2, Counts, Engine, PTL DEF Spec
-----------------------------------------------------------------------------
(***************************************************************************)
(* Tasks that ended.                                                       *)
(***************************************************************************)

\* What a pulse knows of a command is what was posted.
ViewsOK == \A p \in Pulses, t \in Tasks : view[p][t].command \in {"none", issue[t].command}

\* Of a task that ended in the file, the record in memory has ended the same way, is gone to the archive
\* as the pulse ends, or was taken up by a retry that the file does not know of.
Settled(ending, task, file, verb) ==
  Ended(file) =>
    \/ task.status = file.status /\ (file.handled => task.handled)
    \/ ~Present(task) /\ ending
    \/ Present(task) /\ verb = "retry" /\ ~file.handled /\ task.handled
SettledOK ==
  \A p \in Pulses : Active(p) => \A t \in Tasks : Settled(pc[p] = "end", mem[p][t], disk[t], issue[t].command)

\* A pulse lists the issues as they are, and forgets them when it ends.
LEMMA ViewsInductive == ASSUME FrameOK, ViewsOK, [Next]_vars PROVE ViewsOK'
<1> USE DEF diskVars, fileVars, leaseVars, history
<1>0. view \in [Pulses -> [Tasks -> Issue]] /\ issue \in [Tasks -> Issue]
  BY DEF FrameOK
<1>1. ASSUME NEW t \in Tasks, NEW verb \in Verbs, Post(t, verb) PROVE ViewsOK'
  BY <1>0, <1>1 DEF Post, ViewsOK, Issue
<1>2. ASSUME view' = view, \A t \in Tasks : issue'[t].command = issue[t].command PROVE ViewsOK'
  BY <1>2 DEF ViewsOK
<1>3. ASSUME NEW q \in Pulses, Intake(q) PROVE ViewsOK'
  <2>1. PICK listing \in Listings : view' = [view EXCEPT ![q] = listing] /\ issue' = issue
    BY <1>3 DEF Intake
  <2>2. \A t \in Tasks : listing[t].command = issue[t].command
    BY <1>0, <2>1 DEF Listings, Issue
  <2> QED BY <1>0, <2>1, <2>2 DEF ViewsOK
<1>4. ASSUME NEW q \in Pulses, SaveEnd(q) \/ Crash(q) PROVE ViewsOK'
  <2>1. view' = [view EXCEPT ![q] = [t \in Tasks |-> Closed]] /\ issue' = issue
    BY <1>4 DEF SaveEnd, Crash
  <2>2. Closed.command = "none"
    BY DEF Closed
  <2> QED BY <1>0, <2>1, <2>2 DEF ViewsOK
<1>5. ASSUME NEW t \in Tasks, CloseIssue(t) PROVE ViewsOK'
  BY <1>0, <1>2, <1>5 DEF CloseIssue, Issue
<1>6. ASSUME NEW t \in Tasks, LeaseRunsOut(t) \/ \E p \in Pulses : MirrorRunsOut(p, t) PROVE ViewsOK'
  BY <1>2, <1>6 DEF LeaseRunsOut, MirrorRunsOut
<1>7. ASSUME NEW q \in Pulses, NEW t \in Tasks, Revisit(q, t) PROVE ViewsOK'
  <2>1. view' = view /\ (issue' = issue \/ issue' = [issue EXCEPT ![t].open = FALSE])
    BY <1>7 DEF Revisit
  <2> QED BY <1>0, <1>2, <2>1 DEF Issue
<1>8. ASSUME NEW q \in Pulses, EndRun(q) PROVE ViewsOK'
  <2>1. view' = view /\ (issue' = issue \/ issue' = [issue EXCEPT ![cur[q]].open = FALSE])
    BY <1>8 DEF EndRun
  <2> QED BY <1>0, <1>2, <2>1 DEF Issue
<1>9. ASSUME NEW q \in Pulses, Load(q) \/ SweepOrphans(q) \/ ControlDone(q) \/ BeginClaims(q) \/ StopClaims(q) \/ Persist(q)
      PROVE  ViewsOK'
  BY <1>2, <1>9 DEF Load, SweepOrphans, ControlDone, BeginClaims, StopClaims, Persist
<1>10. ASSUME NEW q \in Pulses, ReadFile(q) \/ Baseline(q) \/ SaveClaim(q) \/ SaveRun(q) \/ Throw(q)
       PROVE  ViewsOK'
  BY <1>2, <1>10 DEF ReadFile, Baseline, SaveClaim, SaveRun, Throw
<1>11. ASSUME NEW q \in Pulses, NEW t \in Tasks,
              Reconcile(q, t) \/ Control(q, t) \/ ParkOnDependency(q, t) \/ ClaimRefused(q, t) \/ Claim(q, t)
       PROVE  ViewsOK'
  BY <1>2, <1>11 DEF Reconcile, Control, ParkOnDependency, ClaimRefused, Claim
<1>12. CASE UNCHANGED vars
  BY <1>2, <1>12 DEF vars
<1> QED
  BY <1>1, <1>3, <1>4, <1>5, <1>6, <1>7, <1>8, <1>9, <1>10, <1>11, <1>12 DEF Next, UserOrClock, PulseStep

\* A step of the only pulse need only keep what that pulse holds.
LEMMA OneSettled ==
  ASSUME FrameOK, SoloOK, NEW q \in Pulses, Active(q), NEW l, pc' = [pc EXCEPT ![q] = l],
         Active(q)' => \A t \in Tasks : Settled(pc'[q] = "end", mem'[q][t], disk'[t], issue'[t].command)
  PROVE  SettledOK'
<1>1. ASSUME NEW r \in Pulses, r # q PROVE ~Active(r)'
  BY <1>1 DEF SoloOK, Alone, Active, FrameOK
<1> QED BY <1>1 DEF SettledOK

\* A record that did not end may be moved on, if what was said of commands is kept.
LEMMA SettledRewritten ==
  ASSUME NEW task, NEW new, NEW file, NEW verb, Settled(FALSE, task, file, verb),
         Ended(task) => new.status = task.status, Present(task) => Present(new), task.handled => new.handled
  PROVE  Settled(FALSE, new, file, verb)
  BY DEF Settled, Ended, Present

\* One record rewritten, in memory only, by a pulse that goes on.
Settles(q, t, new) ==
  /\ mem' = [mem EXCEPT ![q][t] = new] /\ disk' = disk
  /\ \A u \in Tasks : issue'[u].command = issue[u].command
  /\ pc'[q] # "end"
  /\ \/ ~Settled(FALSE, mem[q][t], disk[t], issue[t].command)
     \/ Settled(FALSE, new, disk[t], issue[t].command)

\* Such a step keeps what is settled.
LEMMA SettledOneRecord ==
  ASSUME FrameOK, RecordsOK, SoloOK, SettledOK, NEW q \in Pulses, NEW t \in Tasks, NEW new, Settles(q, t, new),
         Active(q), pc[q] # "end", NEW l, pc' = [pc EXCEPT ![q] = l]
  PROVE  SettledOK'
<1>1. \A u \in Tasks : Settled(FALSE, mem[q][u], disk[u], issue[u].command)
  BY DEF SettledOK
<1>2. mem'[q][t] = new /\ \A u \in Tasks \ {t} : mem'[q][u] = mem[q][u]
  BY DEF Settles, RecordsOK
<1>3. \A u \in Tasks : Settled(FALSE, mem'[q][u], disk'[u], issue'[u].command)
  BY <1>1, <1>2 DEF Settles
<1>4. (pc'[q] = "end") = FALSE
  BY DEF Settles
<1>5. \A u \in Tasks : Settled(pc'[q] = "end", mem'[q][u], disk'[u], issue'[u].command)
  BY <1>3, <1>4
<1> QED BY <1>5, OneSettled

\* A save settles all: the file is what was in memory.
LEMMA SavesSettle ==
  ASSUME FrameOK, RecordsOK, SoloOK, SettledOK, NEW q \in Pulses, Active(q), NEW l \in PC, Save(q, l), issue' = issue
  PROVE  SettledOK'
<1>1. pc' = [pc EXCEPT ![q] = l] /\ disk' = mem[q] /\ (l # "done" => mem'[q] = mem[q])
  BY SaveAlone
<1>2. Active(q)' => l # "done"
  BY <1>1 DEF Active, FrameOK
<1>3. \A t \in Tasks : l # "done" => Settled(pc'[q] = "end", mem'[q][t], disk'[t], issue'[t].command)
  BY <1>1 DEF Settled
<1> QED BY <1>1, <1>2, <1>3, OneSettled

\* A command takes up a task that ended only if it is a retry that no pulse has handled (reconcileIssueState).
LEMMA ControlSettles ==
  ASSUME FrameOK, RecordsOK, SoloOK, ViewsOK, SettledOK, NEW q \in Pulses, NEW t \in Tasks, Control(q, t)
  PROVE  SettledOK'
<1> DEFINE task == mem[q][t]
           verb == view[q][t].command
<1>1. PICK new :
        /\ mem' = [mem EXCEPT ![q][t] = new]
        /\ \/ new = task
           \/ task.status \in PREEMPTABLE /\ new = Move(t, task, "cancelled", NoReason)
           \/ verb # "none" /\ ~task.handled /\ new \in {Seen(task), Commanded(t, Seen(task), verb)}
  BY ControlResults
<1>2. pc[q] = "control" /\ Active(q) /\ pc' = [pc EXCEPT ![q] = "control"] /\ UNCHANGED <<disk, issue>>
  BY DEF Control, diskVars, fileVars, Active, FrameOK
<1>3. task \in Record /\ task \in Task
  BY CountTypes
<1>4. Settled(FALSE, task, disk[t], issue[t].command)
  BY <1>2 DEF SettledOK
<1>5. Settled(FALSE, new, disk[t], issue[t].command)
  <2>1. CASE new = task
    BY <1>4, <2>1
  <2>2. CASE task.status \in PREEMPTABLE /\ new = Move(t, task, "cancelled", NoReason)
    <3>1. new.status = "cancelled" /\ new.handled = task.handled
      BY <1>3, <2>2, MoveFields
    <3>2. ~Ended(task) /\ Present(new)
      BY <2>2, <3>1, NamesAreLegal DEF Ended, PREEMPTABLE, Present, Absent
    <3> QED BY <1>4, <3>1, <3>2, SettledRewritten
  <2>3. CASE verb # "none" /\ ~task.handled /\ new \in {Seen(task), Commanded(t, Seen(task), verb)}
    <3>1. PICK seen \in Record : seen = Seen(task)
      BY <1>3, SeenFields
    <3>2. seen.handled = TRUE /\ seen.status = task.status
      BY <1>3, <3>1, SeenFields
    <3>3. CASE new = seen
      BY <1>4, <3>2, <3>3, SettledRewritten DEF Present
    <3>4. CASE new = Commanded(t, seen, verb)
      <4>1. /\ new.handled = seen.handled /\ (Ended(seen) /\ verb # "retry" => new = seen)
            /\ (Ended(seen) /\ verb = "retry" => new.status = "pending")
        BY <3>4, CommandedKeeps
      <4>2. Present(task) => Present(new)
        BY <3>2, <3>4, CommandedIsRecord DEF Present
      <4>3. CASE Ended(task) /\ verb = "retry"
        <5>1. new.status = "pending" /\ new.handled = TRUE
          BY <3>2, <4>1, <4>3 DEF Ended
        <5>2. issue[t].command = "retry"
          BY <2>3, <4>3 DEF ViewsOK
        <5> QED BY <1>4, <2>3, <5>1, <5>2 DEF Settled, Present, Absent
      <4>4. CASE ~(Ended(task) /\ verb = "retry")
        <5>1. Ended(task) => new.status = task.status
          BY <3>2, <4>1, <4>4 DEF Ended
        <5> QED BY <1>4, <3>2, <4>1, <4>2, <5>1, SettledRewritten
      <4> QED BY <4>3, <4>4
    <3> QED BY <2>3, <3>1, <3>3, <3>4
  <2> QED BY <1>1, <2>1, <2>2, <2>3
<1>6. pc'[q] # "end"
  BY <1>2 DEF FrameOK
<1>7. Settles(q, t, new)
  BY <1>1, <1>2, <1>5, <1>6 DEF Settles
<1> QED BY <1>2, <1>7, SettledOneRecord

\* The sweep leaves a task that ended alone, and keeps what was said of commands.
LEMMA SweepSettles ==
  ASSUME FrameOK, RecordsOK, SoloOK, SettledOK, NEW q \in Pulses, NEW t \in Tasks, Reconcile(q, t)
  PROVE  SettledOK'
<1>1. PICK new : \E ttl \in BOOLEAN, late \in BOOLEAN :
                   new = Reconciled(q, t, ttl, late) /\ mem' = [mem EXCEPT ![q][t] = new]
  BY DEF Reconcile
<1>2. /\ new.handled = mem[q][t].handled /\ (Ended(mem[q][t]) => new = mem[q][t])
      /\ Present(mem[q][t]) => Present(new)
  BY <1>1, ReconciledKeeps, ReconciledIsRecord
<1>3. pc[q] = "reconcile" /\ Active(q) /\ pc' = [pc EXCEPT ![q] = "reconcile"] /\ UNCHANGED <<disk, issue>>
  BY DEF Reconcile, fileVars, Active, FrameOK
<1>4. Settled(FALSE, mem[q][t], disk[t], issue[t].command)
  BY <1>3 DEF SettledOK
<1>5. Settled(FALSE, new, disk[t], issue[t].command)
  BY <1>2, <1>4, SettledRewritten
<1>6. pc'[q] # "end"
  BY <1>3 DEF FrameOK
<1>7. Settles(q, t, new)
  BY <1>1, <1>3, <1>5, <1>6 DEF Settles
<1> QED BY <1>3, <1>7, SettledOneRecord

\* The loops of a pulse move only tasks that did not end (pulse.js).
LEMMA LoopsSettle ==
  ASSUME FrameOK, RecordsOK, CurrentOK, LoopsOK, SoloOK, SettledOK, NEW q \in Pulses, NEW t \in Tasks,
         Revisit(q, t) \/ ParkOnDependency(q, t) \/ Claim(q, t) \/ (cur[q] = t /\ EndRun(q))
  PROVE  SettledOK'
<1> DEFINE task == mem[q][t]
<1>1. task \in Record /\ task \in Task
  BY CountTypes
<1>2. Active(q) /\ pc[q] # "end"
  BY DEF Revisit, ParkOnDependency, Claim, EndRun, Considers, Active
<1>3. Obj(q, t) = task /\ \A x : PutObj(q, t, x) => mem' = [mem EXCEPT ![q][t] = x]
  BY <1>2, ObjAlone
<1>4. \E l \in {"revisit", "claim", "claimed", "ran"} : pc' = [pc EXCEPT ![q] = l]
  <2>1. pc[q] = "revisit" \/ pc[q] = "claim" => pc = [pc EXCEPT ![q] = pc[q]]
    BY DEF FrameOK
  <2> QED BY <2>1 DEF Revisit, ParkOnDependency, Claim, EndRun, Considers, Goto
<1>5. disk' = disk /\ \A u \in Tasks : issue'[u].command = issue[u].command
  <2>1. disk' = disk /\ (issue' = issue \/ issue' = [issue EXCEPT ![t].open = FALSE])
    BY DEF Revisit, ParkOnDependency, Claim, EndRun, diskVars, fileVars
  <2>2. issue \in [Tasks -> Issue]
    BY DEF FrameOK
  <2> QED BY <2>1, <2>2 DEF Issue
<1>6. ASSUME NEW new, mem' = [mem EXCEPT ![q][t] = new],
             \/ new = task
             \/ ~Ended(task) /\ Present(new) /\ new.handled = task.handled
      PROVE  SettledOK'
  <2>1. Settled(FALSE, task, disk[t], issue[t].command)
    BY <1>2 DEF SettledOK
  <2>2. Settled(FALSE, new, disk[t], issue[t].command)
    <3>1. CASE new = task
      BY <2>1, <3>1
    <3>2. CASE ~Ended(task) /\ Present(new) /\ new.handled = task.handled
      BY <2>1, <3>2, SettledRewritten
    <3> QED BY <1>6, <3>1, <3>2
  <2>3. pc'[q] # "end"
    BY <1>4 DEF FrameOK
  <2>4. Settles(q, t, new)
    BY <1>5, <1>6, <2>2, <2>3 DEF Settles
  <2> QED BY <1>2, <1>4, <2>4, SettledOneRecord
<1>7. \A to, why : /\ Move(t, task, to, why).handled = task.handled
                   /\ to # Absent => Present(Move(t, task, to, why))
  BY <1>1, MoveFields DEF Present
<1>8. CASE Revisit(q, t)
  <2>1. ~Ended(task)
    BY <1>8, NamesAreLegal DEF LoopsOK, LoopOK, Revisit, Ended
  <2>2. PICK to \in {"pr-open", "complete", "failed"} :
          mem' = IF to = "pr-open" THEN mem ELSE [mem EXCEPT ![q][t] = Move(t, @, to, NoReason)]
    BY <1>8 DEF Revisit
  <2>3. CASE to = "pr-open"
    <3>1. mem' = [mem EXCEPT ![q][t] = task]
      BY <2>2, <2>3 DEF RecordsOK
    <3> QED BY <1>6, <3>1
  <2>4. CASE to # "pr-open"
    <3>1. mem' = [mem EXCEPT ![q][t] = Move(t, task, to, NoReason)]
      BY <2>2, <2>4
    <3>2. to # Absent
      BY NamesAreLegal
    <3> QED BY <1>6, <1>7, <2>1, <3>1, <3>2
  <2> QED BY <2>3, <2>4
<1>9. CASE ParkOnDependency(q, t)
  <2>1. ~Ended(task)
    <3>1. Obj(q, t).status = "pending"
      BY <1>9 DEF LoopsOK, LoopOK, ParkOnDependency, Considers
    <3> QED BY <1>3, <3>1, NamesAreLegal DEF Ended
  <2>2. PICK new \in {Move(t, task, "waiting", "dependency"), Move(t, task, "dead-lettered", NoReason)} : PutObj(q, t, new)
    BY <1>3, <1>9 DEF ParkOnDependency
  <2>3. Present(new) /\ new.handled = task.handled
    BY <1>7, <2>2, NamesAreLegal
  <2> QED BY <1>3, <1>6, <2>1, <2>2, <2>3
<1>10. CASE Claim(q, t)
  <2>1. ~Ended(task)
    <3>1. Obj(q, t).status = "pending"
      BY <1>10 DEF LoopsOK, LoopOK, Claim, Considers
    <3> QED BY <1>3, <3>1, NamesAreLegal DEF Ended
  <2>2. PICK new : new = [Move(t, task, "running", NoReason) EXCEPT !.lease = q] /\ PutObj(q, t, new)
    BY <1>3, <1>10 DEF Claim
  <2>3. Present(new) /\ new.handled = task.handled
    <3>1. Move(t, task, "running", NoReason) \in Task
      BY <1>1, NamesAreLegal DEF Move, Transition, Task
    <3>2. new.status = Move(t, task, "running", NoReason).status /\ new.handled = Move(t, task, "running", NoReason).handled
      BY <2>2, <3>1 DEF Task
    <3> QED BY <1>1, <3>2, MoveFields, NamesAreLegal DEF Present
  <2> QED BY <1>3, <1>6, <2>1, <2>2, <2>3
<1>11. CASE cur[q] = t /\ EndRun(q)
  <2>1. task.status = "running"
    BY <1>3, <1>11 DEF LoopsOK, LoopOK, EndRun
  <2>2. PICK new \in RunResults(t, task) : PutObj(q, t, new)
    BY <1>3, <1>11 DEF EndRun
  <2>3. Present(new) /\ new.handled = task.handled /\ ~Ended(task)
    BY <1>1, <2>1, <2>2, RunResultsAreRecords, RunResultsKeep, NamesAreLegal DEF Ended
  <2> QED BY <1>3, <1>6, <2>2, <2>3
<1> QED BY <1>8, <1>9, <1>10, <1>11

\* Intake finds each task that ended in the file in memory, and housekeeping comes when a pulse ends.
LEMMA BeginningsSettle ==
  ASSUME Serialized, FrameOK, RecordsOK, SoloOK, SettledOK, NEW q \in Pulses,
         Load(q) \/ Intake(q) \/ BeginClaims(q) \/ StopClaims(q)
  PROVE  SettledOK'
<1> USE DEF Goto, diskVars, fileVars, history
<1>0. pc \in [Pulses -> PC] /\ mem \in [Pulses -> [Tasks -> Record]]
  BY DEF FrameOK, RecordsOK
<1>1. CASE Load(q)
  <2>1. /\ \A r \in Pulses : ~Active(r)
        /\ pc' = [pc EXCEPT ![q] = "reconcile"] /\ mem' = [mem EXCEPT ![q] = disk] /\ disk' = disk
    BY <1>1 DEF Load
  <2>2. mem'[q] = disk' /\ \A r \in Pulses : Active(r)' => r = q
    BY <1>0, <2>1 DEF Active
  <2> QED BY <2>2 DEF SettledOK, Settled
<1>2. CASE Intake(q)
  <2>1. /\ pc[q] = "intake" /\ Active(q) /\ pc' = [pc EXCEPT ![q] = "control"] /\ UNCHANGED <<disk, issue>>
        /\ \A t \in Tasks : Present(mem[q][t]) => mem'[q][t] = mem[q][t]
    BY <1>0, <1>2 DEF Intake, Active
  <2>2. \A t \in Tasks : Settled(FALSE, mem[q][t], disk[t], issue[t].command)
    BY <2>1 DEF SettledOK
  <2>3. \A t \in Tasks : Ended(disk[t]) => Present(mem[q][t])
    BY <2>2, NamesAreLegal DEF Settled, Ended, Present, IsTerminal
  <2>4. \A t \in Tasks : Settled(FALSE, mem'[q][t], disk'[t], issue'[t].command)
    BY <2>1, <2>2, <2>3 DEF Settled
  <2>5. (pc'[q] = "end") = FALSE
    BY <1>0, <2>1
  <2>6. \A t \in Tasks : Settled(pc'[q] = "end", mem'[q][t], disk'[t], issue'[t].command)
    BY <2>4, <2>5
  <2> QED BY <2>1, <2>6, OneSettled
<1>3. CASE BeginClaims(q) \/ StopClaims(q)
  <2>1. pc[q] \in {"revisit", "claim"} /\ Active(q) /\ UNCHANGED <<disk, issue>>
    BY <1>3 DEF BeginClaims, StopClaims, Active
  <2>2. PICK l \in {"end", "claim"} : pc' = [pc EXCEPT ![q] = l] /\ (mem' = mem \/ (l = "end" /\ TidyUp(q)))
    BY <1>3 DEF BeginClaims, StopClaims
  <2>3. \A t \in Tasks : mem'[q][t] = mem[q][t] \/ (l = "end" /\ mem'[q][t] = NoTask)
    BY <1>0, <2>2 DEF TidyUp
  <2>4. \A t \in Tasks : Settled(FALSE, mem[q][t], disk[t], issue[t].command)
    BY <2>1 DEF SettledOK
  <2>5. ~Present(NoTask)
    BY DEF NoTask, NewTask, Present
  <2>6. \A t \in Tasks : Settled(l = "end", mem'[q][t], disk[t], issue[t].command)
    BY <2>3, <2>4, <2>5 DEF Settled
  <2>7. pc'[q] = l
    BY <1>0, <2>2
  <2> QED BY <2>1, <2>2, <2>6, <2>7, OneSettled
<1> QED BY <1>1, <1>2, <1>3

\* No step of a pulse, of a user or of the clock unsettles a task that ended.
LEMMA SettledInductive ==
  ASSUME Serialized, FrameOK, RecordsOK, CurrentOK, LoopsOK, SoloOK, ViewsOK, SettledOK, [Next]_vars
  PROVE  SettledOK'
<1> USE DEF Goto, diskVars, fileVars, leaseVars, history
<1>1. ASSUME NEW t \in Tasks, NEW verb \in Verbs, Post(t, verb) PROVE SettledOK'
  <2>1. UNCHANGED <<disk, mem, pc>> /\ \A u \in Tasks : issue[u].command # "none" => issue'[u].command = issue[u].command
    BY <1>1 DEF Post, FrameOK
  <2>2. SettledOK' <=> \A p \in Pulses : Active(p) => \A u \in Tasks : Settled(pc[p] = "end", mem[p][u], disk[u], issue'[u].command)
    BY <2>1 DEF SettledOK, Active
  <2>3. ASSUME NEW p \in Pulses, Active(p), NEW u \in Tasks PROVE Settled(pc[p] = "end", mem[p][u], disk[u], issue'[u].command)
    <3>1. Settled(pc[p] = "end", mem[p][u], disk[u], issue[u].command)
      BY <2>3 DEF SettledOK
    <3>2. issue[u].command = "retry" => issue'[u].command = "retry"
      BY <2>1
    <3> QED BY <3>1, <3>2 DEF Settled
  <2> QED BY <2>2, <2>3
<1>2. ASSUME UNCHANGED <<disk, mem, pc>>, \A u \in Tasks : issue'[u].command = issue[u].command PROVE SettledOK'
  BY <1>2 DEF SettledOK, Active
<1>3. ASSUME NEW t \in Tasks, CloseIssue(t) PROVE SettledOK'
  <2>1. UNCHANGED <<disk, mem, pc>> /\ issue' = [issue EXCEPT ![t].open = FALSE] /\ issue \in [Tasks -> Issue]
    BY <1>3 DEF CloseIssue, FrameOK
  <2> QED BY <1>2, <2>1 DEF Issue
<1>4. ASSUME NEW t \in Tasks, LeaseRunsOut(t) \/ \E p \in Pulses : MirrorRunsOut(p, t) PROVE SettledOK'
  BY <1>2, <1>4 DEF LeaseRunsOut, MirrorRunsOut
<1>5. ASSUME NEW q \in Pulses, SweepOrphans(q) \/ ControlDone(q) \/ Throw(q) PROVE SettledOK'
  <2>1. pc[q] \in {"reconcile", "intake", "control", "revisit", "run"} /\ Active(q) /\ UNCHANGED <<disk, mem, issue>>
    BY <1>5 DEF SweepOrphans, ControlDone, Throw, Active
  <2>2. PICK l \in {"end", "intake", "revisit"} : pc' = [pc EXCEPT ![q] = l]
    BY <1>5 DEF SweepOrphans, ControlDone, Throw
  <2>3. \A t \in Tasks : Settled(FALSE, mem[q][t], disk[t], issue[t].command)
    BY <2>1 DEF SettledOK
  <2>4. \A t \in Tasks : Settled(pc'[q] = "end", mem'[q][t], disk'[t], issue'[t].command)
    BY <2>1, <2>3 DEF Settled
  <2> QED BY <2>1, <2>2, <2>4, OneSettled
<1>6. ASSUME NEW q \in Pulses, Crash(q) PROVE SettledOK'
  <2>1. Active(q) /\ pc' = [pc EXCEPT ![q] = "dead"]
    BY <1>6 DEF Crash
  <2>2. ~Active(q)'
    BY <2>1 DEF Active, FrameOK
  <2> QED BY <2>1, <2>2, OneSettled
<1>7. ASSUME NEW q \in Pulses,
             Persist(q) \/ ReadFile(q) \/ Baseline(q) \/ \E t \in Tasks : ClaimRefused(q, t)
      PROVE  SettledOK'
  <2>1. ReadFile(q) => mem' = mem
    BY ReadAlone
  <2> QED BY <1>2, <1>7, <2>1 DEF Persist, ReadFile, Baseline, ClaimRefused
<1>8. CASE UNCHANGED vars
  BY <1>2, <1>8 DEF vars
<1>9. ASSUME NEW q \in Pulses, SaveClaim(q) \/ SaveRun(q) \/ SaveEnd(q) PROVE SettledOK'
  <2>1. Active(q) /\ issue' = issue /\ \E l \in PC : Save(q, l)
    BY <1>9 DEF SaveClaim, SaveRun, SaveEnd, Active, PC
  <2> QED BY <2>1, SavesSettle
<1>10. ASSUME NEW q \in Pulses, Load(q) \/ Intake(q) \/ BeginClaims(q) \/ StopClaims(q) PROVE SettledOK'
  BY <1>10, BeginningsSettle
<1>11. ASSUME NEW q \in Pulses, NEW t \in Tasks, Reconcile(q, t) PROVE SettledOK'
  BY <1>11, SweepSettles
<1>12. ASSUME NEW q \in Pulses, NEW t \in Tasks, Control(q, t) PROVE SettledOK'
  BY <1>12, ControlSettles
<1>13. ASSUME NEW q \in Pulses, NEW t \in Tasks, Revisit(q, t) \/ ParkOnDependency(q, t) \/ Claim(q, t) PROVE SettledOK'
  BY <1>13, LoopsSettle
<1>14. ASSUME NEW q \in Pulses, EndRun(q) PROVE SettledOK'
  <2>1. cur[q] \in Tasks
    BY <1>14, WorkStage DEF EndRun
  <2> QED BY <1>14, <2>1, LoopsSettle
<1> QED
  BY <1>1, <1>3, <1>4, <1>5, <1>6, <1>7, <1>8, <1>9, <1>10, <1>11, <1>12, <1>13, <1>14 DEF Next, UserOrClock, PulseStep

\* Of any number of pulses that do not overlap, none brings a task that ended back to life in the file but
\* for a retry that no pulse has handled before, which it records as handled (lifecycle.js:35).
THEOREM OnlyARetryRevives == ASSUME Serialized PROVE Spec => RevivedOnlyByRetry
<1>1. Init => ViewsOK /\ SettledOK
  BY DEF Init, ViewsOK, SettledOK, Active, Closed
<1>2. FrameOK /\ CurrentOK /\ RecordsOK /\ LoopsOK /\ SoloOK /\ ViewsOK /\ SettledOK /\ [Next]_vars => (ViewsOK /\ SettledOK)'
  BY ViewsInductive, SettledInductive
<1>3. Spec => [](FrameOK /\ RecordsOK /\ SoloOK /\ SettledOK)
  BY <1>1, <1>2, Counts, Engine, PTL DEF Spec
<1>4. ASSUME FrameOK, RecordsOK, SoloOK, SettledOK, [Next]_vars, NEW t \in Tasks,
             Ended(disk[t]), disk'[t].status \notin {disk[t].status, Absent}
      PROVE  issue[t].command = "retry" /\ ~disk[t].handled /\ disk'[t].handled
  <2>1. PICK q \in Pulses : SaveClaim(q) \/ SaveRun(q) \/ SaveEnd(q)
    BY <1>4, OnlySavesWrite
  <2>2. Active(q) /\ \E l \in PC : Save(q, l)
    BY <2>1 DEF SaveClaim, SaveRun, SaveEnd, Active, PC
  <2>3. disk' = mem[q]
    BY <1>4, <2>2, SaveAlone
  <2>4. Settled(pc[q] = "end", mem[q][t], disk[t], issue[t].command)
    BY <1>4, <2>2 DEF SettledOK
  <2> QED BY <1>4, <2>3, <2>4 DEF Settled, Present
<1>5. FrameOK /\ RecordsOK /\ SoloOK /\ SettledOK /\ [Next]_vars
        => [\A t \in Tasks : Ended(disk[t]) /\ disk'[t].status \notin {disk[t].status, Absent}
              => issue[t].command = "retry" /\ ~disk[t].handled /\ disk'[t].handled]_vars
  BY <1>4
<1> QED BY <1>3, <1>5, PTL DEF Spec, RevivedOnlyByRetry
=============================================================================
