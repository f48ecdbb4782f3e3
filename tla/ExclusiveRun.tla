---------------------------- MODULE ExclusiveRun ----------------------------
(***************************************************************************)
(* What a lease promises to the tasks (src/src/task/leases.js:3): a pulse  *)
(* runs a task, and until it stops no other pulse runs that task.  How     *)
(* that is arranged (files, expiry, renewal) is Leases' business.          *)
(***************************************************************************)
CONSTANTS Tasks, Pulses, None

VARIABLE runner     \* runner[t]: the pulse that runs t, or None

Init == runner = [t \in Tasks |-> None]

Begin(p, t) ==
  /\ runner[t] = None
  /\ \A u \in Tasks : runner[u] # p
  /\ runner' = [runner EXCEPT ![t] = p]

End(t) ==
  /\ runner[t] # None
  /\ runner' = [runner EXCEPT ![t] = None]

Next == \E t \in Tasks : End(t) \/ \E p \in Pulses : Begin(p, t)

Spec == Init /\ [][Next]_runner
=============================================================================
