----------------------------- MODULE LeaseFiles -----------------------------
(***************************************************************************)
(* LeaseManager (src/src/task/leases.js) at the level of system calls, for *)
(* one task: what several processes on one checkout can see of each other  *)
(* inside acquire, renew and release.  Leases takes each method as one     *)
(* step, which it is between the pulses of one process.                    *)
(*                                                                         *)
(* writeFileSync(path, text, { flag: 'wx' }) is two calls: the exclusive   *)
(* open creates an empty file, and a write fills it.  Between the two, a   *)
(* reader parses an empty string, which read() reports as "no lease".  The *)
(* write goes to the file that was opened: if the path has been renamed    *)
(* over or unlinked meanwhile, it changes nothing that can be seen.  A     *)
(* replacement (a private temporary file, then rename) is one visible step.*)
(***************************************************************************)
CONSTANTS
  Procs,      \* the processes, each with its own lease owner id
  Ghost,      \* the owner of a lease that is on disk at the start
  MayCrash,   \* the processes that may be killed
  Slow,       \* the processes whose lease may run out while they hold it
  Leftovers   \* what may be on disk at the start: subset of {"nothing", "expired lease"}

ASSUME ProcsAssumption == MayCrash \subseteq Procs /\ Slow \subseteq Procs /\ Ghost \notin Procs
ASSUME LeftoversAssumption == Leftovers \subseteq {"nothing", "expired lease"}

VARIABLES
  file,   \* state/leases/<task>.json as a reader finds it
  pc,     \* pc[p]: where p is in acquire, in its task, or in renew and release
  seen    \* seen[p]: what p's last read() returned

vars == <<file, pc, seen>>

Absent        == [kind |-> "absent", owner |-> Ghost, live |-> FALSE]
Torn(p)       == [kind |-> "torn", owner |-> p, live |-> FALSE]
LeaseOf(p)    == [kind |-> "lease", owner |-> p, live |-> TRUE]
ExpiredOf(p)  == [LeaseOf(p) EXCEPT !.live = FALSE]

File == [kind : {"absent", "torn", "lease"}, owner : Procs \cup {Ghost}, live : BOOLEAN]
PC == {"start", "fill", "look", "replace", "working", "renewing", "releasing",
       "done", "refused", "dead"}

TypeOK ==
  /\ file \in File
  /\ pc \in [Procs -> PC]
  /\ seen \in [Procs -> File]

Init ==
  /\ file \in {IF l = "nothing" THEN Absent ELSE ExpiredOf(Ghost) : l \in Leftovers}
  /\ pc = [p \in Procs |-> "start"]
  /\ seen = [p \in Procs |-> Absent]

Goto(p, l) == pc' = [pc EXCEPT ![p] = l]

\* Slips of the lease code that the properties must catch, here and below: expiry ignored.
SawOtherEver(p) == seen'[p].kind = "lease" /\ seen'[p].owner # p

\* The lease p read is somebody else's and not expired: acquire, renew and release all stop.
SawOther(p) == seen'[p].kind = "lease" /\ seen'[p].owner # p /\ seen'[p].live
-----------------------------------------------------------------------------
\* acquire: open with O_CREAT|O_EXCL succeeds.
Create(p) ==
  /\ pc[p] = "start"
  /\ file.kind = "absent"
  /\ file' = Torn(p)
  /\ Goto(p, "fill")
  /\ UNCHANGED seen

\* acquire: EEXIST.
CreateFails(p) ==
  /\ pc[p] = "start"
  /\ file.kind # "absent"
  /\ Goto(p, "look")
  /\ UNCHANGED <<file, seen>>

\* acquire: the text is written to the file that Create opened.
Fill(p) ==
  /\ pc[p] = "fill"
  /\ file' = IF file = Torn(p) THEN LeaseOf(p) ELSE file
  /\ Goto(p, "working")
  /\ UNCHANGED seen

\* acquire: read() the existing lease, and refuse or go on to replace it.
Look(p) ==
  /\ pc[p] = "look"
  /\ seen' = [seen EXCEPT ![p] = file]
  /\ Goto(p, IF SawOther(p) THEN "refused" ELSE "replace")
  /\ UNCHANGED file

\* acquire: expired, torn, gone or ours; renameSync puts ours in its place.
Replace(p) ==
  /\ pc[p] = "replace"
  /\ file' = LeaseOf(p)
  /\ Goto(p, "working")
  /\ UNCHANGED seen

\* renew: read(), and give up (the caller ignores it) or go on.
RenewRead(p) ==
  /\ pc[p] = "working"
  /\ seen' = [seen EXCEPT ![p] = file]
  /\ Goto(p, IF SawOther(p) THEN "working" ELSE "renewing")
  /\ UNCHANGED file

\* renew: renameSync.
RenewWrite(p) ==
  /\ pc[p] = "renewing"
  /\ file' = LeaseOf(p)
  /\ Goto(p, "working")
  /\ UNCHANGED seen

\* release: read(), and leave another owner's running lease alone.
ReleaseRead(p) ==
  /\ pc[p] = "working"
  /\ seen' = [seen EXCEPT ![p] = file]
  /\ Goto(p, IF SawOther(p) THEN "done" ELSE "releasing")
  /\ UNCHANGED file

\* (A slip: a failed unlink that is not reported.)
ReleaseLeavesFile(p) ==
  /\ pc[p] = "releasing"
  /\ Goto(p, "done")
  /\ UNCHANGED <<file, seen>>

\* release: unlinkSync removes whatever the path names by now.
ReleaseUnlink(p) ==
  /\ pc[p] = "releasing"
  /\ file' = Absent
  /\ Goto(p, "done")
  /\ UNCHANGED seen

\* The process is killed between two system calls.
Crash(p) ==
  /\ p \in MayCrash
  /\ pc[p] \notin {"done", "refused", "dead"}
  /\ Goto(p, "dead")
  /\ UNCHANGED <<file, seen>>

\* The lease on disk runs out: its owner died, or is slow.
Expire ==
  /\ file.kind = "lease"
  /\ file.live
  /\ file.owner \in Slow \/ pc[file.owner] = "dead"
  /\ file' = [file EXCEPT !.live = FALSE]
  /\ UNCHANGED <<pc, seen>>

Step(p) ==
  \/ Create(p) \/ CreateFails(p) \/ Fill(p) \/ Look(p) \/ Replace(p)
  \/ RenewRead(p) \/ RenewWrite(p) \/ ReleaseRead(p) \/ ReleaseUnlink(p) \/ Crash(p)

Next == Expire \/ \E p \in Procs : Step(p)

Spec == Init /\ [][Next]_vars
-----------------------------------------------------------------------------
(***************************************************************************)
(* Properties                                                              *)
(***************************************************************************)
Holding(p) == pc[p] \in {"working", "renewing", "releasing"}

\* An unexpired lease on disk is never a leftover: it names a process that holds it, or one
\* that died holding it.  So release, which reads and unlinks in two calls and may remove a
\* lease another process has just written, at least never leaves its own behind, and a claim
\* is only ever refused for the sake of a holder (leases.js:80-83, 106-115).
NoGhostLease ==
  file.kind = "lease" /\ file.live => Holding(file.owner) \/ pc[file.owner] = "dead"

\* A claim race is always won by somebody: with nobody killed, the claims are not all refused
\* (the "exactly one" of leases.test.js:58 is never none).
SomebodyWins ==
  (\A p \in Procs : pc[p] # "dead") => \E p \in Procs : pc[p] # "refused"

\* At most one process holds the lease, among processes that hold it within its time.
\* leases.js:10-12 and leases.test.js:58 promise it of an acquire race; the code does not
\* keep it, because only the exclusive create is atomic and not the read and rename after it.
OneWinner ==
  \A p, q \in Procs : Holding(p) /\ Holding(q) => p = q
=============================================================================
