------------------------------ MODULE RunRecords ------------------------------
(***************************************************************************)
(* The run records: one file for each run, until it is old; then a line in *)
(* the compressed archive of its month.  A job rolls the records of its    *)
(* checkout and publishes what it has; it may fail or die at any step.     *)
(*   src/src/state/archive.js, src/src/state/prune.js                      *)
(*   src/src/engine/checkpointer.js, .github/workflows (group titan-state) *)
(*                                                                         *)
(* A record is written by rename, whole or not at all; an archive is       *)
(* written in place, and cut short if the job dies or the disk is full in  *)
(* the middle: it can then not be read, and nothing is added to it ever    *)
(* again.  The jobs of the group titan-state run one at a time.  Digests   *)
(* and the summaries of the events are rolled by the same function, and    *)
(* the events and the finished tasks in the same order of steps.           *)
(***************************************************************************)
EXTENDS Naturals, FiniteSets

CONSTANTS
  MaxRecords,              \* bound: records are 1..MaxRecords, by age
  MonthOf,                 \* the month of a record
  KeepNewest, MaxFiles     \* files that always stay (10); files that may stay (60)

Records == 1..MaxRecords
ASSUME RunRecordsAssumption ==
  /\ MaxRecords \in Nat /\ MonthOf \in [Records -> Nat] /\ KeepNewest \in Nat /\ MaxFiles \in Nat

VARIABLES
  fHere,    \* the checkout: the files; the records in the archives that can be read; the months whose
            \* archive cannot; (history) the records that were in such an archive before it was cut
  fRepo,    \* the same on GitHub
  fLocal,   \* the state directory is this machine's own, and nothing is published
  fMade, fAged,   \* the latest record; the latest of those older than keepDays
  fJob,     \* where a job is: the records it is to roll, those of the month it is to delete now, those
            \* it writes into the archive
  fSafe     \* (history) the records that were once published or, on a machine of one's own, written

fVars == <<fHere, fRepo, fLocal, fMade, fAged, fJob, fSafe>>

MonthsOf(records) == {MonthOf[r] : r \in records}
Store == [files : SUBSET Records, archived : SUBSET Records, torn : SUBSET MonthsOf(Records), cut : SUBSET Records]
NoJobYet == [at |-> "none", roll |-> {}, delete |-> {}, write |-> {}]
Held(store) == store.files \cup store.archived

RecordsTypeOK ==
  /\ fHere \in Store /\ fRepo \in Store /\ fLocal \in BOOLEAN
  /\ fMade \in 0..MaxRecords /\ fAged \in 0..fMade
  /\ fJob \in [at : {"none", "work", "rolling", "writing", "done"},
               roll : SUBSET Records, delete : SUBSET Records, write : SUBSET Records]
  /\ fSafe \subseteq Records

RecordsInit ==
  /\ fHere = [files |-> {}, archived |-> {}, torn |-> {}, cut |-> {}] /\ fRepo = fHere /\ fLocal \in BOOLEAN
  /\ fMade = 0 /\ fAged = 0 /\ fJob = NoJobYet /\ fSafe = {}

\* What a change of the checkout makes safe.
Keep(here) ==
  /\ fHere' = here
  /\ fSafe' = IF fLocal THEN fSafe \cup Held(here) ELSE fSafe

\* A job begins with a checkout of what was published.
JobStarts ==
  /\ fJob.at = "none" /\ fJob' = [fJob EXCEPT !.at = "work"]
  /\ fHere' = IF fLocal THEN fHere ELSE fRepo
  /\ UNCHANGED <<fRepo, fLocal, fMade, fAged, fSafe>>

\* A run of the pulse, and its record.
WriteRecord ==
  /\ fJob.at = "work" /\ fMade < MaxRecords /\ fMade' = fMade + 1
  /\ Keep([fHere EXCEPT !.files = @ \cup {fMade'}])
  /\ UNCHANGED <<fRepo, fLocal, fAged, fJob>>

DaysPass ==
  /\ fJob.at = "none" /\ fAged < fMade /\ fAged' = fAged + 1
  /\ UNCHANGED <<fHere, fRepo, fLocal, fMade, fJob, fSafe>>

\* The files that are to go: past the newest ones that stay, too old or too many.
OldFiles(files) ==
  {r \in files : LET newer == Cardinality({n \in files : n > r}) IN
                   newer >= KeepNewest /\ (r <= fAged \/ newer >= MaxFiles)}

\* rollOldFiles() reads the directory once.
BeginRoll ==
  /\ fJob.at = "work"
  /\ fJob' = [fJob EXCEPT !.at = "rolling", !.roll = OldFiles(fHere.files)]
  /\ UNCHANGED <<fHere, fRepo, fLocal, fMade, fAged, fSafe>>

Of(month, records) == {r \in records : MonthOf[r] = month}

\* (A slip: the archive of the month is written anew, with what is rolled now alone.)
Replaced(archived, batch) == batch

\* writeMonthlyArchive(): what the archive of the month has already, and the new ones.
Merged(archived, batch) == archived \cup batch

\* The records of one month go into its archive, if that can be read: writeFileSync() empties the
\* file and begins to write, unless the bytes would be the same...
ArchiveMonth ==
  /\ fJob.at = "rolling" /\ fJob.delete = {}
  /\ \E month \in MonthsOf(fJob.roll) \ fHere.torn :
       LET batch == Of(month, fJob.roll)
           before == Of(month, fHere.archived)
           merged == Merged(before, batch) IN
       IF merged = before
       THEN fJob' = [fJob EXCEPT !.roll = @ \ batch, !.delete = batch] /\ UNCHANGED fHere
       ELSE /\ fJob' = [fJob EXCEPT !.at = "writing", !.roll = @ \ batch, !.delete = batch, !.write = merged]
            /\ fHere' = [fHere EXCEPT !.archived = @ \ before, !.torn = @ \cup {month}, !.cut = @ \cup before]
  /\ UNCHANGED <<fRepo, fLocal, fMade, fAged, fSafe>>

\* ...and only when it has written are their files deleted.
ArchiveWritten ==
  /\ fJob.at = "writing"
  /\ LET months == MonthsOf(fJob.write) IN
     Keep([fHere EXCEPT !.archived = @ \cup fJob.write, !.torn = @ \ months,
                        !.cut = {r \in @ : MonthOf[r] \notin months}])
  /\ fJob' = [fJob EXCEPT !.at = "rolling", !.write = {}]
  /\ UNCHANGED <<fRepo, fLocal, fMade, fAged>>

DeleteFile(r) ==
  /\ fJob.at = "rolling" /\ r \in fJob.delete /\ fJob' = [fJob EXCEPT !.delete = @ \ {r}]
  /\ Keep([fHere EXCEPT !.files = @ \ {r}])
  /\ UNCHANGED <<fRepo, fLocal, fMade, fAged>>

\* Every month is done, or a step failed (an archive cannot be read, or there is no room to write it
\* all): pruneRuns() catches that, and the job goes on with what is there.
RollEnds ==
  /\ fJob.at \in {"rolling", "writing"} /\ fJob' = [NoJobYet EXCEPT !.at = "done"]
  /\ UNCHANGED <<fHere, fRepo, fLocal, fMade, fAged, fSafe>>

\* The checkout is pushed, or the push is refused to the end and the work is lost.
Publish(pushed) ==
  /\ fJob.at = "done" /\ fJob' = NoJobYet
  /\ IF pushed /\ ~fLocal
     THEN fRepo' = fHere /\ fSafe' = fSafe \cup Held(fHere)
     ELSE UNCHANGED <<fRepo, fSafe>>
  /\ UNCHANGED <<fHere, fLocal, fMade, fAged>>

JobDies ==
  /\ fJob.at \in {"work", "rolling", "writing"} /\ fJob' = NoJobYet
  /\ UNCHANGED <<fHere, fRepo, fLocal, fMade, fAged, fSafe>>

RecordsNext ==
  \/ JobStarts \/ WriteRecord \/ DaysPass \/ BeginRoll \/ ArchiveMonth \/ ArchiveWritten
  \/ \E r \in Records : DeleteFile(r)
  \/ RollEnds \/ \E pushed \in BOOLEAN : Publish(pushed)
  \/ JobDies

RecordsSpec == RecordsInit /\ [][RecordsNext]_fVars
-------------------------------------------------------------------------------
\* A run record that was once published, or written to a state directory that lasts, is in its file
\* or in the archive from then on, whatever fails or dies in between (prune.js:6, "The archive holds
\* the whole record, so a run is never lost").  Only a write of the archive of its month that began
\* when the record was in it, and did not end (archive.js:48), takes it away.
RunNeverLost ==
  LET lasting == IF fLocal THEN fHere ELSE fRepo IN fSafe \subseteq Held(lasting) \cup lasting.cut

\* The sentence as it stands, between the writes of archives; such a write breaks it.
RunNeverLostAtAll == fJob.at # "writing" => fSafe \subseteq Held(IF fLocal THEN fHere ELSE fRepo)
===============================================================================
