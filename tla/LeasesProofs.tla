---------------------------- MODULE LeasesProofs ----------------------------
(***************************************************************************)
(* Proofs about Leases, for any tasks, pulses and lease length.            *)
(***************************************************************************)
EXTENDS Leases, TLAPS

\* The inductive invariant: typing, and that a working pulse's lease file names it with
\* exactly the time left that the pulse has not yet used since its last renewal.
IInv == TypeOK /\ WorkerHoldsLease

\* LeaseManager's three writes leave a well-formed lease behind.
LEMMA FreshIsLease == ASSUME NEW p \in Pulses PROVE Fresh(p) \in Lease
  BY TTLAssumption DEF Fresh, Lease

\* release() leaves no lease, which is one with no owner.
LEMMA NoLeaseIsLease == NoLease \in Lease
  BY TTLAssumption DEF NoLease, Lease

\* Every variable keeps its type.
THEOREM TypeCorrect == Spec => []TypeOK
<1>1. Init => TypeOK
  BY NoLeaseIsLease, RenewGapAssumption DEF Init, TypeOK
<1>2. TypeOK /\ [Next]_vars => TypeOK'
  <2> SUFFICES ASSUME TypeOK, [Next]_vars PROVE TypeOK'
    OBVIOUS
  <2> USE FreshIsLease, NoLeaseIsLease, TTLAssumption, RenewGapAssumption DEF TypeOK
  <2>1. ASSUME NEW p \in Pulses, Start(p) PROVE TypeOK'
    BY <2>1 DEF Start
  <2>2. ASSUME NEW p \in Pulses, NEW t \in Tasks, Acquire(p, t) PROVE TypeOK'
    BY <2>2 DEF Acquire
  <2>3. ASSUME NEW p \in Pulses, Renew(p) PROVE TypeOK'
    BY <2>3 DEF Renew
  <2>4. ASSUME NEW p \in Pulses, Finish(p) PROVE TypeOK'
    BY <2>4 DEF Finish, Released
  <2>5. ASSUME NEW p \in Pulses, NEW t \in Tasks, Sweep(p, t) PROVE TypeOK'
    BY <2>5 DEF Sweep, Released
  <2>6. ASSUME NEW p \in Pulses, Stop(p) PROVE TypeOK'
    BY <2>6 DEF Stop
  <2>7. CASE Tick
    <3>1. file' \in [Tasks -> Lease]
      BY <2>7 DEF Tick, Lease
    <3>2. gap' \in [Pulses -> 0..RenewGap]
      <4> SUFFICES ASSUME NEW p \in Pulses
                   PROVE (IF work[p] = None THEN 0 ELSE gap[p] + 1) \in 0..RenewGap
        BY <2>7 DEF Tick
      <4> QED BY <2>7 DEF Tick
    <3> QED BY <2>7, <3>1, <3>2 DEF Tick
  <2>8. ASSUME NEW p \in Pulses, Throw(p) PROVE TypeOK'
    BY <2>8 DEF Throw
  <2>9. CASE UNCHANGED vars
    BY <2>9 DEF vars
  <2> QED BY <2>1, <2>2, <2>3, <2>4, <2>5, <2>6, <2>7, <2>8, <2>9 DEF Next
<1> QED BY <1>1, <1>2, PTL DEF Spec
-----------------------------------------------------------------------------
\* When every renewal comes before the lease runs out, nobody else's lease stands in the
\* way of a working pulse, and nobody else may take the lease it works under.
LEMMA WorkersAreProtected ==
  ASSUME RenewGap < TTL, IInv,
         NEW p \in Pulses, NEW q \in Pulses, work[q] # None, p # q
  PROVE  /\ HeldByOther(p, work[q])
         /\ ~HeldByOther(q, work[q])
         /\ work[p] # work[q]
  BY TTLAssumption, RenewGapAssumption, NoneAssumption
  DEF IInv, TypeOK, WorkerHoldsLease, HeldByOther, Lease

\* A pulse that works on a task is not refused its own renewals.
LEMMA WorkerNotRefused ==
  ASSUME IInv, NEW q \in Pulses, work[q] # None
  PROVE  ~HeldByOther(q, work[q])
  BY DEF IInv, WorkerHoldsLease, HeldByOther

\* Every method of LeaseManager leaves each worker's file with the time that the worker has left.
LEMMA Inductive == RenewGap < TTL => (IInv /\ [Next]_vars => WorkerHoldsLease')
<1> SUFFICES ASSUME RenewGap < TTL, IInv, [Next]_vars,
                    NEW q \in Pulses, work'[q] # None
             PROVE  /\ q \in alive'
                    /\ file'[work'[q]].owner = q
                    /\ file'[work'[q]].left + gap'[q] = TTL
  BY DEF WorkerHoldsLease
<1> USE TTLAssumption, RenewGapAssumption, NoneAssumption DEF IInv, TypeOK
<1>1. ASSUME NEW p \in Pulses, Start(p)
      PROVE  q \in alive' /\ file'[work'[q]].owner = q /\ file'[work'[q]].left + gap'[q] = TTL
  BY <1>1 DEF Start, WorkerHoldsLease
<1>2. ASSUME NEW p \in Pulses, NEW t \in Tasks, Acquire(p, t)
      PROVE  q \in alive' /\ file'[work'[q]].owner = q /\ file'[work'[q]].left + gap'[q] = TTL
  <2>1. CASE p = q
    BY <1>2, <2>1 DEF Acquire, Fresh
  <2>2. CASE p # q
    <3>1. work[q] # None /\ work'[q] = work[q] /\ gap'[q] = gap[q] /\ alive' = alive
      BY <1>2, <2>2 DEF Acquire
    <3>2. t # work[q]
      BY <1>2, <2>2, <3>1, WorkersAreProtected DEF Acquire
    <3> QED BY <1>2, <3>1, <3>2 DEF Acquire, WorkerHoldsLease
  <2> QED BY <2>1, <2>2
<1>3. ASSUME NEW p \in Pulses, Renew(p)
      PROVE  q \in alive' /\ file'[work'[q]].owner = q /\ file'[work'[q]].left + gap'[q] = TTL
  <2>0. work' = work /\ alive' = alive /\ work[p] # None
    BY <1>3 DEF Renew
  <2>1. CASE p = q
    <3>1. ~HeldByOther(q, work[q])
      BY <2>0, <2>1, WorkerNotRefused
    <3> QED BY <1>3, <2>0, <2>1, <3>1 DEF Renew, Fresh, WorkerHoldsLease
  <2>2. CASE p # q
    <3>1. work[p] # work[q]
      BY <2>0, <2>2, WorkersAreProtected
    <3> QED BY <1>3, <2>0, <2>2, <3>1 DEF Renew, WorkerHoldsLease
  <2> QED BY <2>1, <2>2
<1>4. ASSUME NEW p \in Pulses, Finish(p)
      PROVE  q \in alive' /\ file'[work'[q]].owner = q /\ file'[work'[q]].left + gap'[q] = TTL
  <2>1. p # q /\ work'[q] = work[q] /\ gap'[q] = gap[q] /\ alive' = alive
    BY <1>4 DEF Finish
  <2>2. work[p] # work[q]
    BY <1>4, <2>1, WorkersAreProtected
  <2> QED BY <1>4, <2>1, <2>2 DEF Finish, Released, WorkerHoldsLease
<1>5. ASSUME NEW p \in Pulses, NEW t \in Tasks, Sweep(p, t)
      PROVE  q \in alive' /\ file'[work'[q]].owner = q /\ file'[work'[q]].left + gap'[q] = TTL
  <2>1. p # q /\ work' = work /\ gap' = gap /\ alive' = alive
    BY <1>5 DEF Sweep
  <2>2. HeldByOther(p, work[q])
    BY <2>1, WorkersAreProtected
  <2> QED BY <1>5, <2>1, <2>2 DEF Sweep, Released, WorkerHoldsLease
<1>6. ASSUME NEW p \in Pulses, Stop(p)
      PROVE  q \in alive' /\ file'[work'[q]].owner = q /\ file'[work'[q]].left + gap'[q] = TTL
  BY <1>6 DEF Stop, WorkerHoldsLease
<1>7. ASSUME Tick
      PROVE  q \in alive' /\ file'[work'[q]].owner = q /\ file'[work'[q]].left + gap'[q] = TTL
  <2>1. work[q] # None /\ work' = work /\ alive' = alive /\ work[q] \in Tasks
    BY <1>7 DEF Tick
  <2>2. gap[q] < RenewGap /\ gap'[q] = gap[q] + 1
    BY <1>7, <2>1 DEF Tick
  <2>3. file[work[q]].left + gap[q] = TTL /\ file[work[q]].owner = q /\ q \in alive
    BY <2>1 DEF WorkerHoldsLease
  <2>4. file[work[q]] \in Lease /\ gap[q] \in Nat
    BY <2>1
  <2>5. file[work[q]].left # 0
    BY <2>2, <2>3, <2>4 DEF Lease
  <2>6. file'[work[q]] = [file[work[q]] EXCEPT !.left = file[work[q]].left - 1]
    BY <1>7, <2>1, <2>5 DEF Tick
  <2> QED BY <2>1, <2>2, <2>3, <2>4, <2>6 DEF Lease
<1>8. ASSUME NEW p \in Pulses, Throw(p)
      PROVE  q \in alive' /\ file'[work'[q]].owner = q /\ file'[work'[q]].left + gap'[q] = TTL
  BY <1>8 DEF Throw, WorkerHoldsLease
<1>9. CASE UNCHANGED vars
  BY <1>9 DEF vars, WorkerHoldsLease
<1> QED BY <1>1, <1>2, <1>3, <1>4, <1>5, <1>6, <1>7, <1>8, <1>9 DEF Next

\* leases.js:3: while a pulse works on a task its lease file names it, with time left; given
\* that persists come more often than leases expire.
THEOREM LeaseHeld == ASSUME RenewGap < TTL PROVE Spec => []WorkerHoldsLease
<1>1. Init => WorkerHoldsLease
  BY DEF Init, WorkerHoldsLease
<1>2. TypeOK /\ WorkerHoldsLease /\ [Next]_vars => WorkerHoldsLease'
  BY Inductive DEF IInv
<1> QED BY <1>1, <1>2, TypeCorrect, PTL DEF Spec

\* No two processes work on the same task at once, however many there are and however
\* claims, crashes, renewals and sweeps interleave; given that persists come more often
\* than leases expire.
THEOREM Exclusion == ASSUME RenewGap < TTL PROVE Spec => []MutualExclusion
<1>1. TypeOK /\ WorkerHoldsLease => MutualExclusion
  BY DEF TypeOK, WorkerHoldsLease, MutualExclusion
<1> QED BY <1>1, TypeCorrect, LeaseHeld, PTL
-----------------------------------------------------------------------------
\* One lease at most is kept in a pulse's name, and while it claims that is the lease of its
\* task: after exceptions and kills too, and at whatever pace it renews.
THEOREM NoLeftovers == Spec => []OwnsOnlyItsWork
<1>1. Init => OwnsOnlyItsWork
  BY NoneAssumption DEF Init, OwnsOnlyItsWork, NoLease
<1>2. TypeOK /\ OwnsOnlyItsWork /\ [Next]_vars => OwnsOnlyItsWork'
  <2> SUFFICES ASSUME TypeOK, OwnsOnlyItsWork, [Next]_vars,
                      NEW q \in Pulses, NEW u \in Tasks, file'[u].owner = q
               PROVE  /\ q \in alive' \ over' => work'[q] = u
                      /\ \A v \in Tasks : file'[v].owner = q => v = u
    BY DEF OwnsOnlyItsWork
  <2> DEFINE Goal == /\ q \in alive' \ over' => work'[q] = u
                     /\ \A v \in Tasks : file'[v].owner = q => v = u
  <2> USE TTLAssumption, NoneAssumption DEF TypeOK, OwnsOnlyItsWork, Fresh, NoLease
  <2>1. ASSUME NEW p \in Pulses, Start(p) PROVE Goal
    BY <2>1 DEF Start
  <2>2. ASSUME NEW p \in Pulses, NEW t \in Tasks, Acquire(p, t) PROVE Goal
    BY <2>2 DEF Acquire
  <2>3. ASSUME NEW p \in Pulses, Renew(p) PROVE Goal
    BY <2>3 DEF Renew
  <2>4. ASSUME NEW p \in Pulses, Finish(p) PROVE Goal
    BY <2>4 DEF Finish, Released, HeldByOther
  <2>5. ASSUME NEW p \in Pulses, NEW t \in Tasks, Sweep(p, t) PROVE Goal
    BY <2>5 DEF Sweep, Released
  <2>6. ASSUME NEW p \in Pulses, Stop(p) PROVE Goal
    BY <2>6 DEF Stop
  <2>7. CASE Tick
    BY <2>7 DEF Tick, Lease
  <2>8. ASSUME NEW p \in Pulses, Throw(p) PROVE Goal
    BY <2>8 DEF Throw
  <2>9. CASE UNCHANGED vars
    BY <2>9 DEF vars
  <2> QED BY <2>1, <2>2, <2>3, <2>4, <2>5, <2>6, <2>7, <2>8, <2>9 DEF Next
<1> QED BY <1>1, <1>2, TypeCorrect, PTL DEF Spec

\* A lease that is running ends only with its owner's release at the end of the task; it
\* needs no assumption on the pace of renewals.
THEOREM LeaseKept == Spec => LiveLeaseKept
<1> DEFINE Kept == \A t \in Tasks : \A p \in Pulses :
             file[t].owner = p /\ file[t].left > 0 /\ file'[t].owner # p
               => work[p] = t /\ work'[p] = None /\ file'[t].owner = None
<1>1. TypeOK /\ OwnsOnlyItsWork /\ Next => Kept
  <2> SUFFICES ASSUME TypeOK, OwnsOnlyItsWork, Next, NEW t \in Tasks, NEW p \in Pulses,
                      file[t].owner = p, file[t].left > 0, file'[t].owner # p
               PROVE  work[p] = t /\ work'[p] = None /\ file'[t].owner = None
    OBVIOUS
  <2> USE TTLAssumption, RenewGapAssumption, NoneAssumption DEF TypeOK
  <2>1. ASSUME NEW q \in Pulses, Start(q) PROVE FALSE
    BY <2>1 DEF Start
  <2>2. ASSUME NEW q \in Pulses, NEW u \in Tasks, Acquire(q, u) PROVE FALSE
    BY <2>2 DEF Acquire, HeldByOther, Fresh
  <2>3. ASSUME NEW q \in Pulses, Renew(q) PROVE FALSE
    BY <2>3 DEF Renew, HeldByOther, Fresh
  <2>4. ASSUME NEW q \in Pulses, Finish(q)
        PROVE work[p] = t /\ work'[p] = None /\ file'[t].owner = None
    BY <2>4 DEF Finish, Released, HeldByOther, NoLease
  <2>5. ASSUME NEW q \in Pulses, NEW u \in Tasks, Sweep(q, u)
        PROVE work[p] = t /\ work'[p] = None /\ file'[t].owner = None
    BY <2>5 DEF Sweep, Released, HeldByOther, NoLease, OwnsOnlyItsWork
  <2>6. ASSUME NEW q \in Pulses, Stop(q) PROVE FALSE
    BY <2>6 DEF Stop
  <2>7. CASE Tick
    BY <2>7 DEF Tick, Lease
  <2>8. ASSUME NEW q \in Pulses, Throw(q) PROVE FALSE
    BY <2>8 DEF Throw
  <2> QED BY <2>1, <2>2, <2>3, <2>4, <2>5, <2>6, <2>7, <2>8 DEF Next
<1>2. TypeOK /\ OwnsOnlyItsWork /\ [Next]_vars => [Kept]_vars
  BY <1>1 DEF vars
<1> QED BY <1>2, TypeCorrect, NoLeftovers, PTL DEF Spec, LiveLeaseKept
-----------------------------------------------------------------------------
\* The runner of a task is the pulse that works on it.
LEMMA RunnerIsWorker ==
  ASSUME MutualExclusion, TypeOK, NEW p \in Pulses, work[p] # None
  PROVE  Runner(work[p]) = p
<1>1. \A q \in Pulses : work[q] = work[p] <=> q = p
  BY DEF MutualExclusion
<1>2. (CHOOSE q \in Pulses : work[q] = work[p]) = p
  BY <1>1
<1> QED BY <1>2 DEF Runner

\* A task that no pulse works on has no runner.
LEMMA NoWorkerNoRunner ==
  ASSUME NEW t \in Tasks, \A p \in Pulses : work[p] # t PROVE Runner(t) = None
  BY DEF Runner

\* Whoever is named as a runner works on the task.
LEMMA RunnerWorks ==
  ASSUME TypeOK, NEW t \in Tasks, NEW p \in Pulses, Runner(t) = p
  PROVE  work[p] = t
<1>1. CASE \E q \in Pulses : work[q] = t
  BY <1>1 DEF Runner
<1>2. CASE ~\E q \in Pulses : work[q] = t
  BY <1>2, NoneAssumption DEF Runner
<1> QED BY <1>1, <1>2

\* The lease protocol implements exclusive running: each step begins one task's run, ends
\* one, or leaves who runs what unchanged.
THEOREM Refinement == ASSUME RenewGap < TTL PROVE Spec => ImplementsExclusiveRun
<1> USE NoneAssumption
<1>1. Init => Exclusive!Init
  BY DEF Init, Exclusive!Init, Runner
<1>2. IInv /\ IInv' /\ MutualExclusion /\ MutualExclusion' /\ [Next]_vars
        => [Exclusive!Next]_([t \in Tasks |-> Runner(t)])
  <2> SUFFICES ASSUME IInv, IInv', MutualExclusion, MutualExclusion', [Next]_vars
               PROVE  [Exclusive!Next]_([t \in Tasks |-> Runner(t)])
    OBVIOUS
  <2> USE DEF IInv, TypeOK
  <2>1. ASSUME work' = work PROVE [Exclusive!Next]_([t \in Tasks |-> Runner(t)])
    BY <2>1 DEF Runner
  <2>2. ASSUME NEW p \in Pulses, NEW t \in Tasks, Acquire(p, t) PROVE Exclusive!Begin(p, t)
    <3>1. work[p] = None /\ work' = [work EXCEPT ![p] = t] /\ ~HeldByOther(p, t)
      BY <2>2 DEF Acquire
    <3>2. \A q \in Pulses : work[q] # t
      BY <3>1, WorkersAreProtected
    <3>3. Runner(t) = None
      BY <3>2, NoWorkerNoRunner
    <3>4. \A u \in Tasks : Runner(u) # p
      BY <3>1, RunnerWorks
    <3>5. Runner(t)' = p
      <4>1. \A q \in Pulses : work'[q] = t <=> q = p
        BY <3>1, <3>2
      <4>2. (CHOOSE q \in Pulses : work'[q] = t) = p
        BY <4>1
      <4> QED BY <4>1, <4>2 DEF Runner
    <3>6. ASSUME NEW u \in Tasks, u # t PROVE Runner(u)' = Runner(u)
      <4>1. \A q \in Pulses : work'[q] = u <=> work[q] = u
        BY <3>1, <3>6
      <4> QED BY <4>1 DEF Runner
    <3> QED BY <3>3, <3>4, <3>5, <3>6 DEF Exclusive!Begin
  <2>3. ASSUME NEW p \in Pulses, NEW t \in Tasks, work[p] = t,
               work' = [work EXCEPT ![p] = None]
        PROVE  Exclusive!End(t)
    <3>1. Runner(t) = p
      BY <2>3, RunnerIsWorker
    <3>2. Runner(t)' = None
      BY <2>3 DEF Runner, MutualExclusion
    <3>3. ASSUME NEW u \in Tasks, u # t PROVE Runner(u)' = Runner(u)
      <4>1. \A q \in Pulses : work'[q] = u <=> work[q] = u
        BY <2>3, <3>3
      <4> QED BY <4>1 DEF Runner
    <3> QED BY <3>1, <3>2, <3>3 DEF Exclusive!End
  <2>4. ASSUME NEW p \in Pulses, Stop(p) PROVE [Exclusive!Next]_([t \in Tasks |-> Runner(t)])
    <3>1. CASE work[p] = None
      BY <2>4, <3>1, <2>1 DEF Stop
    <3>2. CASE work[p] # None
      BY <2>4, <3>2, <2>3 DEF Stop, Exclusive!Next
    <3> QED BY <3>1, <3>2
  <2>5. ASSUME NEW p \in Pulses, Finish(p) PROVE Exclusive!Next
    BY <2>5, <2>3 DEF Finish, Exclusive!Next
  <2>6. ASSUME NEW p \in Pulses, Throw(p) PROVE [Exclusive!Next]_([t \in Tasks |-> Runner(t)])
    <3>1. CASE work[p] = None
      BY <2>6, <3>1, <2>1 DEF Throw
    <3>2. CASE work[p] # None
      BY <2>6, <3>2, <2>3 DEF Throw, Exclusive!Next
    <3> QED BY <3>1, <3>2
  <2> QED BY <2>1, <2>2, <2>4, <2>5, <2>6
          DEF Next, vars, Start, Renew, Sweep, Tick, Exclusive!Next
<1> QED BY <1>1, <1>2, TypeCorrect, LeaseHeld, Exclusion, PTL
        DEF Spec, IInv, ImplementsExclusiveRun, Exclusive!Spec
=============================================================================
