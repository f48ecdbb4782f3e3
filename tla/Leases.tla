------------------------------- MODULE Leases -------------------------------
(***************************************************************************)
(* Lease-based ownership of work (src/src/task/leases.js) as the pulse     *)
(* engine uses it (src/src/engine/pulse.js): a pulse runs a task only      *)
(* between the acquire and the release of the task's lease, and renews the *)
(* lease at every persist of the task's checkpoint.                        *)
(*                                                                         *)
(* Each method of LeaseManager is synchronous, so it is one step here;     *)
(* LeaseFiles models the system calls inside one.  Time is discrete.  A    *)
(* lease file carries the time it has left instead of an absolute expiry,  *)
(* and a working pulse the time since it last renewed: nothing grows, so   *)
(* no bound on time is needed.                                             *)
(***************************************************************************)
EXTENDS Naturals

CONSTANTS
  Tasks,      \* task ids
  Pulses,     \* lease owner ids (a pulse id carries a nonce: one process, one id)
  None,       \* no owner, no task
  TTL,        \* ticks a lease lasts (LeaseManager.ttlMs)
  RenewGap    \* longest time, in ticks, between two persists of a running task

ASSUME TTLAssumption == TTL \in Nat \ {0}
ASSUME RenewGapAssumption == RenewGap \in Nat
ASSUME NoneAssumption == None \notin Pulses /\ None \notin Tasks

VARIABLES
  file,   \* file[t]: state/leases/<t>.json, its owner (None: no file) and the time it has left
  alive,  \* the pulses whose process runs
  work,   \* work[p]: the task p is processing, None outside claimAndRun's processTask
  gap,    \* gap[p]: the time since p last wrote the lease of work[p]
  over    \* the pulses that an exception threw out of the claim loop, and that live on

vars == <<file, alive, work, gap, over>>

Lease == [owner : Pulses \cup {None}, left : 0..TTL]
NoLease == [owner |-> None, left |-> 0]

TypeOK ==
  /\ file \in [Tasks -> Lease]
  /\ alive \subseteq Pulses
  /\ work \in [Pulses -> Tasks \cup {None}]
  /\ gap \in [Pulses -> 0..RenewGap]
  /\ over \subseteq alive
  /\ \A p \in over : work[p] = None

Init ==
  /\ file = [t \in Tasks |-> NoLease]
  /\ alive = {}
  /\ work = [p \in Pulses |-> None]
  /\ gap = [p \in Pulses |-> 0]
  /\ over = {}
-----------------------------------------------------------------------------
\* Slips of the lease code that the properties must catch, each beside what it would replace:
\* expiry ignored, or found a tick early.
HeldByOtherForever(p, t) == file[t].owner # None /\ file[t].owner # p
HeldByOtherUntilLastTick(p, t) == HeldByOtherForever(p, t) /\ file[t].left > 1

\* The refusal of acquire, renew and release alike: someone else's lease is still running.
HeldByOther(p, t) ==
  /\ file[t].owner # None
  /\ file[t].owner # p
  /\ file[t].left > 0

Fresh(p) == [owner |-> p, left |-> TTL]

\* A new process: its id is on no lease file, because the id has a nonce.
Start(p) ==
  /\ p \notin alive
  /\ \A t \in Tasks : file[t].owner # p
  /\ alive' = alive \cup {p}
  /\ UNCHANGED <<file, work, gap, over>>

\* claimAndRun: acquire succeeds and the task starts.  A refused claim changes nothing.
Acquire(p, t) ==
  /\ p \in alive \ over
  /\ work[p] = None
  /\ ~HeldByOther(p, t)
  /\ file' = [file EXCEPT ![t] = Fresh(p)]
  /\ work' = [work EXCEPT ![p] = t]
  /\ gap' = [gap EXCEPT ![p] = 0]
  /\ UNCHANGED <<alive, over>>

\* (A slip: persist saves the checkpoint and forgets the lease.)
RenewForgotten(p) ==
  /\ p \in alive
  /\ work[p] # None
  /\ gap' = [gap EXCEPT ![p] = 0]
  /\ UNCHANGED <<file, alive, work, over>>

\* persist(): renew writes the lease unless another owner's is running; the caller
\* ignores the answer and goes on with the task either way.
Renew(p) ==
  /\ p \in alive
  /\ work[p] # None
  /\ file' = IF HeldByOther(p, work[p]) THEN file
                                        ELSE [file EXCEPT ![work[p]] = Fresh(p)]
  /\ gap' = [gap EXCEPT ![p] = 0]
  /\ UNCHANGED <<alive, work, over>>

\* (A slip: release unlinks without looking whose lease it is.)
ReleasedUnread(p, t) == [file EXCEPT ![t] = NoLease]

\* The file after LeaseManager.release: removed unless another owner's lease is running.
Released(p, t) ==
  IF HeldByOther(p, t) THEN file ELSE [file EXCEPT ![t] = NoLease]

\* (A slip: a task that throws is given up and the next one claimed, its lease forgotten.)
FinishUnreleased(p) ==
  /\ p \in alive
  /\ work[p] # None
  /\ work' = [work EXCEPT ![p] = None]
  /\ gap' = [gap EXCEPT ![p] = 0]
  /\ UNCHANGED <<file, alive, over>>

\* The end of a task in claimAndRun: processTask returns, whatever came of the task.
Finish(p) ==
  /\ p \in alive
  /\ work[p] # None
  /\ file' = Released(p, work[p])
  /\ work' = [work EXCEPT ![p] = None]
  /\ gap' = [gap EXCEPT ![p] = 0]
  /\ UNCHANGED <<alive, over>>

\* An exception, out of processTask or from anywhere else in the pulse.  The release after
\* processTask has no finally, so the task's lease stays, in the name of a pulse that goes
\* on to its last save but claims, renews and sweeps no more.
Throw(p) ==
  /\ p \in alive \ over
  /\ over' = over \cup {p}
  /\ work' = [work EXCEPT ![p] = None]
  /\ gap' = [gap EXCEPT ![p] = 0]
  /\ UNCHANGED <<file, alive>>

\* reconcile() releases the lease of a task it ended or reclaimed, before any claim.
Sweep(p, t) ==
  /\ p \in alive \ over
  /\ work[p] = None
  /\ file[t].owner # None
  /\ file' = Released(p, t)
  /\ UNCHANGED <<alive, work, gap, over>>

\* The process exits, or is killed in the middle of a task and leaves its lease file behind.
Stop(p) ==
  /\ p \in alive
  /\ alive' = alive \ {p}
  /\ over' = over \ {p}
  /\ work' = [work EXCEPT ![p] = None]
  /\ gap' = [gap EXCEPT ![p] = 0]
  /\ UNCHANGED file

\* A tick of the clock.  A pulse that works on a task persists at least every RenewGap ticks.
Tick ==
  /\ \A p \in Pulses : work[p] # None => gap[p] < RenewGap
  /\ file' = [t \in Tasks |-> [file[t] EXCEPT !.left = IF @ = 0 THEN 0 ELSE @ - 1]]
  /\ gap' = [p \in Pulses |-> IF work[p] = None THEN 0 ELSE gap[p] + 1]
  /\ UNCHANGED <<alive, work, over>>

Next ==
  \/ \E p \in Pulses : Start(p) \/ Renew(p) \/ Finish(p) \/ Throw(p) \/ Stop(p)
  \/ \E p \in Pulses, t \in Tasks : Acquire(p, t) \/ Sweep(p, t)
  \/ Tick

Spec == Init /\ [][Next]_vars

\* The clock never stops, and a process runs on: it persists when it must (a due
\* renewal is what lets the clock move).
Fairness ==
  /\ WF_vars(Tick)
  /\ \A p \in Pulses : WF_vars(Renew(p))

FairSpec == Spec /\ Fairness
-----------------------------------------------------------------------------
(***************************************************************************)
(* Properties                                                              *)
(***************************************************************************)

\* No two processes work on the same task at the same time: the reason claimAndRun takes a
\* lease before it runs a task (leases.js:3, "a pulse may run a task only while it holds
\* the task's lease").  It holds when RenewGap < TTL and not otherwise.
MutualExclusion ==
  \A p, q \in Pulses : p # q /\ work[p] # None => work[p] # work[q]

\* What makes it so: a working pulse's lease file names it, and has at least the time left
\* that its next renewal may still take.
WorkerHoldsLease ==
  \A p \in Pulses : work[p] # None =>
     /\ p \in alive
     /\ file[work[p]].owner = p
     /\ file[work[p]].left + gap[p] = TTL

\* A pulse keeps at most one task from the others, dead or alive: while it claims, every lease
\* in its name is that of the task it works on, so a finished task is free at once; and when
\* an exception or a kill ends its claims (pulse.js:460, 582), one lease at most is left behind.
OwnsOnlyItsWork ==
  \A p \in Pulses, t \in Tasks :
    file[t].owner = p =>
      /\ p \in alive \ over => work[p] = t
      /\ \A u \in Tasks : file[u].owner = p => u = t

\* A lease that is running ends only when its owner finishes the task: neither a second claim,
\* nor a stray renewal, nor another pulse's reconciliation sweep takes it away, and the lease
\* of a pulse that died or threw is left to run out.
LiveLeaseKept ==
  [][\A t \in Tasks : \A p \in Pulses :
       file[t].owner = p /\ file[t].left > 0 /\ file'[t].owner # p
         => work[p] = t /\ work'[p] = None /\ file'[t].owner = None]_vars

\* Who works on a task.
Runner(t) ==
  IF \E p \in Pulses : work[p] = t THEN CHOOSE p \in Pulses : work[p] = t ELSE None

\* A pulse that died, or was thrown out, in the middle of a task does not keep the task: a time
\* comes when no claim would be refused for its sake (leases.js:3-6), unless the task was
\* claimed meanwhile.
LeftLeaseRunsOut ==
  \A t \in Tasks :
    file[t].owner # None /\ Runner(t) = None
      ~> (Runner(t) # None \/ \A p \in Pulses : ~HeldByOther(p, t))
-----------------------------------------------------------------------------
\* What the leases are for, without leases: a task is run by one pulse at a time.
Exclusive == INSTANCE ExclusiveRun WITH runner <- [t \in Tasks |-> Runner(t)]

\* Every behaviour of the lease protocol is one of exclusive running: a claim, a renewal, a
\* release, a crash or a sweep begins a run, ends one, or changes nothing a task can see.
ImplementsExclusiveRun == Exclusive!Spec
=============================================================================
