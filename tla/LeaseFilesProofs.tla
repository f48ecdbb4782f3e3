-------------------------- MODULE LeaseFilesProofs --------------------------
(***************************************************************************)
(* Proofs about LeaseFiles, for any number of processes.                   *)
(***************************************************************************)
EXTENDS LeaseFiles, TLAPS

\* What LeaseManager puts at the path is a file, with nobody's lease live in a torn one.
LEMMA FilesAreFiles ==
  /\ Absent \in File
  /\ ExpiredOf(Ghost) \in File
  /\ \A p \in Procs : Torn(p) \in File /\ LeaseOf(p) \in File
  BY DEF Absent, ExpiredOf, Torn, LeaseOf, File

\* Every variable keeps its type, whatever the processes find and wherever they die.
THEOREM TypeCorrect == Spec => []TypeOK
<1>1. Init => TypeOK
  BY FilesAreFiles DEF Init, TypeOK, PC
<1>2. TypeOK /\ [Next]_vars => TypeOK'
  <2> SUFFICES ASSUME TypeOK, [Next]_vars PROVE TypeOK'
    OBVIOUS
  <2> USE FilesAreFiles DEF TypeOK, PC, Goto
  <2>1. CASE Expire
    BY <2>1 DEF Expire, File
  <2>2. ASSUME NEW p \in Procs, Step(p) PROVE TypeOK'
    <3>1. CASE Create(p) \/ CreateFails(p) \/ Fill(p) \/ Replace(p)
      BY <3>1 DEF Create, CreateFails, Fill, Replace
    <3>2. CASE Look(p) \/ RenewRead(p) \/ ReleaseRead(p)
      BY <3>2 DEF Look, RenewRead, ReleaseRead
    <3>3. CASE RenewWrite(p) \/ ReleaseUnlink(p) \/ Crash(p)
      BY <3>3 DEF RenewWrite, ReleaseUnlink, Crash
    <3> QED BY <2>2, <3>1, <3>2, <3>3 DEF Step
  <2>3. CASE UNCHANGED vars
    BY <2>3 DEF vars
  <2> QED BY <2>1, <2>2, <2>3 DEF Next
<1> QED BY <1>1, <1>2, PTL DEF Spec
-----------------------------------------------------------------------------
\* The inductive invariant: only a process of this checkout has a live lease (what was there
\* before has expired), and it holds that lease or died with it.
GInv == TypeOK /\ (file.kind = "lease" /\ file.live => file.owner \in Procs) /\ NoGhostLease

\* A step that leaves the file alone, and moves nobody out of the lease but the process whose
\* lease it is not, keeps NoGhostLease: so do all reads of acquire, renew and release.
LEMMA ReadsAreSafe ==
  ASSUME GInv, file' = file, NEW p \in Procs, NEW l, Goto(p, l),
         \/ ~Holding(p) /\ pc[p] # "dead"
         \/ l \in {"working", "renewing", "releasing", "dead"}
         \/ ~(file.kind = "lease" /\ file.live /\ file.owner = p)
  PROVE  NoGhostLease'
  BY DEF GInv, TypeOK, NoGhostLease, Holding, Goto

\* Every step of acquire, renew, release and a crash keeps GInv.
LEMMA GInvHolds == Spec => []GInv
<1>1. Init => GInv
  <2> SUFFICES ASSUME Init PROVE GInv
    OBVIOUS
  <2>1. TypeOK
    BY FilesAreFiles DEF Init, TypeOK, PC
  <2>2. ~(file.kind = "lease" /\ file.live)
    BY DEF Init, Absent, ExpiredOf, LeaseOf
  <2> QED BY <2>1, <2>2 DEF GInv, NoGhostLease
<1>2. GInv /\ TypeOK' /\ [Next]_vars => GInv'
  <2> SUFFICES ASSUME GInv, TypeOK', [Next]_vars
               PROVE  /\ (file'.kind = "lease" /\ file'.live => file'.owner \in Procs)
                      /\ NoGhostLease'
    BY DEF GInv
  <2>1. CASE Expire
    BY <2>1 DEF Expire, GInv, TypeOK, File, NoGhostLease
  <2>2. ASSUME NEW p \in Procs, Step(p)
        PROVE  /\ (file'.kind = "lease" /\ file'.live => file'.owner \in Procs)
               /\ NoGhostLease'
    <3>1. CASE Create(p)
      BY <3>1 DEF Create, Torn, NoGhostLease
    <3>2. CASE ReleaseUnlink(p)
      BY <3>2 DEF ReleaseUnlink, Absent, NoGhostLease
    <3>3. CASE Replace(p) \/ RenewWrite(p)
      BY <3>3 DEF Replace, RenewWrite, LeaseOf, Goto, GInv, TypeOK, NoGhostLease, Holding
    <3>4. CASE Fill(p)
      <4>1. CASE file = Torn(p)
        BY <3>4, <4>1 DEF Fill, LeaseOf, Goto, GInv, TypeOK, NoGhostLease, Holding
      <4>2. CASE file # Torn(p)
        BY <3>4, <4>2 DEF Fill, Goto, GInv, TypeOK, NoGhostLease, Holding
      <4> QED BY <4>1, <4>2
    <3>5. CASE CreateFails(p) \/ Look(p)
      <4>1. file' = file /\ ~Holding(p) /\ pc[p] # "dead"
        BY <3>5 DEF CreateFails, Look, Holding
      <4>2. PICK l : Goto(p, l)
        BY <3>5 DEF CreateFails, Look
      <4> QED BY <4>1, <4>2, ReadsAreSafe DEF GInv
    <3>6. CASE RenewRead(p)
      BY <3>6 DEF RenewRead, Goto, GInv, TypeOK, NoGhostLease, Holding
    <3>7. CASE ReleaseRead(p)
      <4>1. CASE SawOther(p)
        BY <3>7, <4>1 DEF ReleaseRead, SawOther, Goto, GInv, TypeOK, NoGhostLease, Holding
      <4>2. CASE ~SawOther(p)
        BY <3>7, <4>2 DEF ReleaseRead, Goto, GInv, TypeOK, NoGhostLease, Holding
      <4> QED BY <4>1, <4>2
    <3>8. CASE Crash(p)
      BY <3>8 DEF Crash, Goto, GInv, TypeOK, NoGhostLease, Holding
    <3> QED BY <2>2, <3>1, <3>2, <3>3, <3>4, <3>5, <3>6, <3>7, <3>8 DEF Step
  <2>3. CASE UNCHANGED vars
    BY <2>3 DEF vars, GInv, NoGhostLease, Holding
  <2> QED BY <2>1, <2>2, <2>3 DEF Next
<1> QED BY <1>1, <1>2, TypeCorrect, PTL DEF Spec

\* A live lease on disk always names a process that holds it or died holding it
\* (leases.js:80-89, 93-104, 106-115), for any processes, crashes and stalls.
THEOREM NoGhosts == Spec => []NoGhostLease
<1>1. GInv => NoGhostLease
  BY DEF GInv
<1> QED BY <1>1, GInvHolds, PTL

\* acquire() refuses a claim only when it has read a live lease, and that names a process which
\* holds it (NoGhosts): of any number of processes, not all are refused.
THEOREM NotAllRefused == ASSUME Procs # {} PROVE Spec => []SomebodyWins
<1>1. Init => SomebodyWins
  BY DEF Init, SomebodyWins
<1>2. GInv /\ SomebodyWins /\ [Next]_vars => SomebodyWins'
  <2> SUFFICES ASSUME GInv, SomebodyWins, [Next]_vars, \A p \in Procs : pc'[p] # "dead"
               PROVE  \E p \in Procs : pc'[p] # "refused"
    BY DEF SomebodyWins
  <2>1. CASE UNCHANGED pc
    BY <2>1 DEF SomebodyWins
  <2>2. ASSUME NEW p \in Procs, Look(p), SawOther(p)
        PROVE  \E q \in Procs : pc'[q] # "refused"
    <3>1. seen'[p] = file /\ pc' = [pc EXCEPT ![p] = "refused"]
      BY <2>2 DEF Look, Goto, GInv, TypeOK
    <3>2. file.owner \in Procs /\ file.owner # p /\ (Holding(file.owner) \/ pc[file.owner] = "dead")
      BY <2>2, <3>1 DEF SawOther, GInv, NoGhostLease
    <3>3. pc'[file.owner] = pc[file.owner]
      BY <3>1, <3>2 DEF GInv, TypeOK
    <3> QED BY <3>2, <3>3 DEF Holding
  <2>3. ASSUME NEW p \in Procs, Step(p), ~(Look(p) /\ SawOther(p))
        PROVE  pc'[p] # "refused"
    <3>1. CASE Create(p) \/ CreateFails(p) \/ Fill(p) \/ Look(p)
      BY <2>3, <3>1 DEF Create, CreateFails, Fill, Look, Goto, GInv, TypeOK
    <3>2. CASE Replace(p) \/ RenewRead(p) \/ RenewWrite(p) \/ ReleaseRead(p) \/ ReleaseUnlink(p) \/ Crash(p)
      BY <3>2 DEF Replace, RenewRead, RenewWrite, ReleaseRead, ReleaseUnlink, Crash, Goto, GInv, TypeOK
    <3> QED BY <2>3, <3>1, <3>2 DEF Step
  <2>4. CASE Expire \/ UNCHANGED vars
    BY <2>1, <2>4 DEF Expire, vars
  <2> QED BY <2>2, <2>3, <2>4 DEF Next
<1>3. Spec => []GInv
  BY GInvHolds
<1> QED BY <1>1, <1>2, <1>3, PTL DEF Spec
=============================================================================
