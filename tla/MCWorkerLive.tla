------------------------------ MODULE MCWorkerLive ------------------------------
(*******************************************************************************)
(* The parts of the Worker in which something has to happen, for TLC.  Each    *)
(* part works on tables of its own.  What one gives to another (a task that a  *)
(* schedule puts in the queue) is, in the other, something that may come at    *)
(* any time: Create.  So the behaviours of the Worker are those of its parts,  *)
(* shuffled, and it is enough to follow one part at a time: `part' says which, *)
(* the others rest.                                                            *)
(*******************************************************************************)
EXTENDS WorkerTasks, Fleet, CallbackToken, PulseKeeper, Schedules

VARIABLE part

wholeVars == <<part, tVars, vVars, kVars, pVars, sVars>>

WInit ==
  /\ part \in {"tasks", "vms", "token", "keeper", "schedules"}
  /\ TasksInit /\ FleetInit /\ TokenInit /\ KeeperInit /\ SchedulesInit

WNext ==
  /\ part' = part
  /\ \/ part = "tasks" /\ TasksNext /\ UNCHANGED <<vVars, kVars, pVars, sVars>>
     \/ part = "vms" /\ FleetNext /\ UNCHANGED <<tVars, kVars, pVars, sVars>>
     \/ part = "token" /\ TokenNext /\ UNCHANGED <<tVars, vVars, pVars, sVars>>
     \/ part = "keeper" /\ KeeperNext /\ UNCHANGED <<tVars, vVars, kVars, sVars>>
     \/ part = "schedules" /\ SchedulesNext /\ UNCHANGED <<tVars, vVars, kVars, pVars>>

\* Time passes, the tick comes every minute, and a request that has begun goes on unless it fails or dies.
WFairness ==
  /\ TasksFairness /\ FleetFairness /\ SchedulesFairness
  /\ WF_kVars(part = "token" /\ Issue("tick")) /\ WF_kVars(WaitEnds)
  /\ \A c \in Callers : WF_kVars(IssuerGoes(c))
  /\ WF_kVars(\E t \in Tokens : GraceEnds(t)) /\ WF_kVars(\E t \in Tokens : GrowOld(t))
  /\ WF_pVars(SentGetsOld) /\ WF_pVars(FailedGetsOld) /\ WF_pVars(BeatGetsOld)
  /\ \A k \in Keepers : WF_pVars(part = "keeper" /\ KeeperGoes(k))

WSpec == WInit /\ [][WNext]_wholeVars /\ WFairness
---------------------------------------------------------------------------------
(* tasks.js, legacy.js: whatever is lost (the dispatch, the tick that marks the row, the run, its      *)
(* report), neither a task that was sent nor a machine that was asked for stays so; schedules.js: a    *)
(* schedule that is on and due has its turn, however many are due with it.                             *)
WorkSettles == TasksSettle /\ VmsSettle /\ DueGetsItsTurn

(* callback.js, keeper.js: whatever fails, dies or overlaps, the Worker comes to have a secret again   *)
(* with which runs are accepted, and a pulse that is waiting or has just run.                          *)
WorkerHeals == (part = "token" => CallbackHeals) /\ (part = "keeper" => PulseKept)
=================================================================================
