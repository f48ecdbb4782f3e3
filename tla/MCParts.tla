-------------------------------- MODULE MCParts --------------------------------
(*******************************************************************************)
(* The parts in which something must not happen, for TLC: four of the Worker,  *)
(* seven of the engine and the lease files.  As in MCWorkerLive each part has  *)
(* tables or files of its own, what it gets from another may come at any time  *)
(* (a call through a connection, an event, a post, a step that calls a model,  *)
(* a write under state/), and so one part moves in a behaviour and the others  *)
(* rest.                                                                       *)
(*******************************************************************************)
EXTENDS Approvals, Notices, Hooks, ProviderKeys, ProviderCalls, RunRecords, Plans,
        UsageReports, IssueCommands, Checkpointer, EventLog, LeaseFiles

VARIABLE part

wholeVars == <<part, aVars, nVars, hVars, wVars, cVars, fVars, planVars, uVars, iVars, gVars, eVars, vars>>

Parts == {"approvals", "notices", "hooks", "keys", "calls", "records", "plans", "usage",
          "commands", "git", "events", "lease files"}

TwinsByTitle(d, e) == d # e
Signed == [p \in Posts |-> IF p = "p1" THEN 2 ELSE 4]
Months == [r \in Records |-> IF r <= 2 THEN 1 ELSE 2]

PartsInit ==
  /\ part \in Parts
  /\ ApprovalsInit /\ NoticesInit /\ HooksInit /\ KeysInit /\ CallsInit /\ RecordsInit /\ PlansInit
  /\ UsageInit /\ IssueCommandsInit /\ CheckpointerInit /\ EventLogInit /\ Init
  \* Of a part that rests, one initial state will do.
  /\ part # "approvals" => aKind = [oauth |-> FALSE, personal |-> FALSE, remote |-> FALSE]
  /\ part # "notices" => ~nQuiet
  /\ part # "calls" => ~cGateway
  /\ part # "records" => fLocal
  /\ part # "plans" => \A size \in Sizes : size <= pMost
  /\ part # "git" => There(gRemote) = {}
  /\ part # "lease files" => file = Absent

PartsNext ==
  /\ part' = part
  /\ \/ part = "approvals" /\ ApprovalsNext
        /\ UNCHANGED <<nVars, hVars, wVars, cVars, fVars, planVars, uVars, iVars, gVars, eVars, vars>>
     \/ part = "notices" /\ NoticesNext
        /\ UNCHANGED <<aVars, hVars, wVars, cVars, fVars, planVars, uVars, iVars, gVars, eVars, vars>>
     \/ part = "hooks" /\ HooksNext
        /\ UNCHANGED <<aVars, nVars, wVars, cVars, fVars, planVars, uVars, iVars, gVars, eVars, vars>>
     \/ part = "keys" /\ KeysNext
        /\ UNCHANGED <<aVars, nVars, hVars, cVars, fVars, planVars, uVars, iVars, gVars, eVars, vars>>
     \/ part = "calls" /\ CallsNext
        /\ UNCHANGED <<aVars, nVars, hVars, wVars, fVars, planVars, uVars, iVars, gVars, eVars, vars>>
     \/ part = "records" /\ RecordsNext
        /\ UNCHANGED <<aVars, nVars, hVars, wVars, cVars, planVars, uVars, iVars, gVars, eVars, vars>>
     \/ part = "plans" /\ PlansNext
        /\ UNCHANGED <<aVars, nVars, hVars, wVars, cVars, fVars, uVars, iVars, gVars, eVars, vars>>
     \/ part = "usage" /\ UsageNext
        /\ UNCHANGED <<aVars, nVars, hVars, wVars, cVars, fVars, planVars, iVars, gVars, eVars, vars>>
     \/ part = "commands" /\ IssueCommandsNext
        /\ UNCHANGED <<aVars, nVars, hVars, wVars, cVars, fVars, planVars, uVars, gVars, eVars, vars>>
     \/ part = "git" /\ CheckpointerNext
        /\ UNCHANGED <<aVars, nVars, hVars, wVars, cVars, fVars, planVars, uVars, iVars, eVars, vars>>
     \/ part = "events" /\ EventLogNext
        /\ UNCHANGED <<aVars, nVars, hVars, wVars, cVars, fVars, planVars, uVars, iVars, gVars, vars>>
     \/ part = "lease files" /\ Next
        /\ UNCHANGED <<aVars, nVars, hVars, wVars, cVars, fVars, planVars, uVars, iVars, gVars, eVars>>

PartsSpec == PartsInit /\ [][PartsNext]_wholeVars
=================================================================================
