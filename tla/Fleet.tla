-------------------------------- MODULE Fleet --------------------------------
(***************************************************************************)
(* The rented virtual machines of the Worker: rows that the owner asks     *)
(* for, the tick that starts a workflow run for each, the reports of the   *)
(* run, and the rule that ends every machine.                              *)
(*   src/worker/src/legacy.js                                              *)
(*                                                                         *)
(* A tick reads the requested rows, then posts and marks one after the     *)
(* other; ticks may overlap or die.  Addresses, sizes and summaries are    *)
(* left out; a deadline is a bit: it has passed.                           *)
(***************************************************************************)
EXTENDS Naturals, FiniteSets

CONSTANTS
  Vms, VmTicks, VmBatch,  \* rows; ticks that may overlap; rows one of them reads (LIMIT 3)
  MaxRuns, MaxReports     \* bounds: runs started, reports made

NoVm == "none"
ASSUME FleetAssumption == NoVm \notin Vms /\ VmBatch \in Nat \ {0} /\ {MaxRuns, MaxReports} \subseteq Nat

VARIABLES
  vRow,      \* status; `due': the deadline it was given has passed; `old': it is older than the lifetime cap
  vTick,     \* a tick: the rows it has yet to post, the row just posted
  vRuns,     \* the machines for which a run has been started
  vMade, vReports

vVars == <<vRow, vTick, vRuns, vMade, vReports>>

VRow(st, due, old) == [st |-> st, due |-> due, old |-> old]
NoRequest == VRow("absent", FALSE, FALSE)
VmTickIdle == [todo |-> {}, posted |-> NoVm]
Alive == {"requested", "provisioning", "live"}
VmStatuses == Alive \cup {"claimed", "expired", "failed"}

FleetTypeOK ==
  /\ vRow \in [Vms -> [st : VmStatuses \cup {"absent"}, due : BOOLEAN, old : BOOLEAN]]
  /\ vTick \in [VmTicks -> [todo : SUBSET Vms, posted : Vms \cup {NoVm}]]
  /\ vRuns \subseteq Vms /\ vMade \in 0..MaxRuns /\ vReports \in 0..MaxReports

FleetInit ==
  /\ vRow = [v \in Vms |-> NoRequest] /\ vTick = [k \in VmTicks |-> VmTickIdle]
  /\ vRuns = {} /\ vMade = 0 /\ vReports = 0

\* handleProvisionVm()
Provision(v) ==
  /\ vRow[v] = NoRequest /\ vRow' = [vRow EXCEPT ![v].st = "requested"]
  /\ UNCHANGED <<vTick, vRuns, vMade, vReports>>

(* dispatchQueuedVms() *)

ReadRequested(k) ==
  LET requested == {v \in Vms : vRow[v].st = "requested"} IN
  /\ vTick[k] = VmTickIdle /\ requested # {}
  /\ \E V \in SUBSET requested :
       /\ Cardinality(V) = IF Cardinality(requested) < VmBatch THEN Cardinality(requested) ELSE VmBatch
       /\ vTick' = [vTick EXCEPT ![k].todo = V]
  /\ UNCHANGED <<vRow, vRuns, vMade, vReports>>

\* A run is started, and the answer says so or is lost; or none is, and the row stays requested.
PostVm(k, v) ==
  /\ v \in vTick[k].todo /\ vTick[k].posted = NoVm
  /\ \/ /\ vMade < MaxRuns /\ vMade' = vMade + 1 /\ vRuns' = vRuns \cup {v}
        /\ \E answered \in BOOLEAN :
             vTick' = [vTick EXCEPT ![k] = [todo |-> @.todo \ {v}, posted |-> IF answered THEN v ELSE NoVm]]
     \/ vTick' = [vTick EXCEPT ![k].todo = @ \ {v}] /\ UNCHANGED <<vMade, vRuns>>
  /\ UNCHANGED <<vRow, vReports>>

\* The UPDATE by id, over whatever the run reported meanwhile.
MarkVm(k) ==
  /\ vTick[k].posted # NoVm
  /\ vRow' = [vRow EXCEPT ![vTick[k].posted].st = "provisioning"]
  /\ vTick' = [vTick EXCEPT ![k].posted = NoVm]
  /\ UNCHANGED <<vRuns, vMade, vReports>>

VmTickDies(k) ==
  /\ vTick[k] # VmTickIdle /\ vTick' = [vTick EXCEPT ![k] = VmTickIdle]
  /\ UNCHANGED <<vRow, vRuns, vMade, vReports>>

\* handleInternalVmStatus(): any status over any other; one that is live has a deadline from now on.
ReportVm(v) ==
  /\ v \in vRuns /\ vReports < MaxReports /\ vReports' = vReports + 1
  /\ \E status \in VmStatuses :
       vRow' = [vRow EXCEPT ![v].st = status, ![v].due = @ /\ status # "live"]
  /\ UNCHANGED <<vTick, vRuns, vMade>>

DeadlinePasses(v) ==
  /\ vRow[v].st \in Alive \ {"requested"} /\ ~vRow[v].due /\ vRow' = [vRow EXCEPT ![v].due = TRUE]
  /\ UNCHANGED <<vTick, vRuns, vMade, vReports>>

LifetimeEnds(v) ==
  /\ vRow[v] # NoRequest /\ ~vRow[v].old /\ vRow' = [vRow EXCEPT ![v].old = TRUE]
  /\ UNCHANGED <<vTick, vRuns, vMade, vReports>>

\* (A slip: a machine ends by the deadline it carries.)
Due(v) == vRow[v].st \in Alive /\ vRow[v].due

Expired(v) == vRow[v].st \in Alive /\ (vRow[v].due \/ vRow[v].old)

\* expireStaleVms()
ExpireVms ==
  /\ \E v \in Vms : Expired(v)
  /\ vRow' = [v \in Vms |-> IF Expired(v) THEN [vRow[v] EXCEPT !.st = "expired"] ELSE vRow[v]]
  /\ UNCHANGED <<vTick, vRuns, vMade, vReports>>

FleetNext ==
  \/ \E v \in Vms : Provision(v) \/ ReportVm(v) \/ DeadlinePasses(v) \/ LifetimeEnds(v)
  \/ \E k \in VmTicks : ReadRequested(k) \/ MarkVm(k) \/ VmTickDies(k) \/ \E v \in Vms : PostVm(k, v)
  \/ ExpireVms

\* Time passes for every machine, and a tick comes every minute.  No report has to come.
MachineAges(v) == WF_vVars(LifetimeEnds(v))
MachinesAge == \A v \in Vms : MachineAges(v)
FleetFairness == WF_vVars(ExpireVms) /\ MachinesAge

FleetSpec == FleetInit /\ [][FleetNext]_vVars /\ FleetFairness
-----------------------------------------------------------------------------
(* legacy.js:512: whatever is lost or reported late, no machine stays requested, provisioning or live. *)
VmSettles(v) == vRow[v].st \in Alive ~> vRow[v].st \notin Alive
VmsSettle == \A v \in Vms : VmSettles(v)

\* What the guards of the fair actions are: where they hold, the action can be taken and changes the rows.
MayAge(v) == ENABLED <<LifetimeEnds(v)>>_vVars
FleetGuards ==
  /\ (\E v \in Vms : Expired(v)) => ENABLED <<ExpireVms>>_vVars
  /\ \A v \in Vms : vRow[v] # NoRequest /\ ~vRow[v].old => MayAge(v)
==============================================================================
