------------------------------ MODULE Schedules ------------------------------
(***************************************************************************)
(* The schedules of the Worker: rows with a cron expression, a tick every  *)
(* minute that queues a task for at most three that are due, and the owner *)
(* who saves, toggles, runs and deletes them.                              *)
(*   src/worker/src/schedules.js                                           *)
(*                                                                         *)
(* A tick is a process, and two may overlap: it reads the due rows, then   *)
(* for each one moves its next run, then queues the task or sends the      *)
(* brief; it may die, or fail, between two statements.  What nextCronRuns  *)
(* computes is some later minute, or none; the rows that are due are kept  *)
(* in the order of their time.  A request of the owner is one step.        *)
(***************************************************************************)
EXTENDS Naturals, Sequences, SequencesExt

CONSTANTS
  Schedules, DailyBrief,  \* the ids; the one that is built in
  Clocks, DueLimit,       \* invocations that may overlap; rows one of them reads (LIMIT 3)
  MaxStops                \* bound: invocations that die or fail

ASSUME SchedulesAssumption == DailyBrief \in Schedules /\ DueLimit \in Nat \ {0} /\ MaxStops \in Nat

VARIABLES
  sRow,    \* the rows: enabled or not, and next_run_at
  sDue,    \* the rows with next_run_at in the past, the earliest first
  sTick,   \* an invocation: the rows it has yet to do as it read them; those it moved and has yet to fire
  sAuto,   \* the setting brief.autoEnabledOnce
  sStops

sVars == <<sRow, sDue, sTick, sAuto, sStops>>

None == [on |-> FALSE, next |-> "no row"]
SRow(on, next) == [on |-> on, next |-> next]
TickOver == [todo |-> <<>>, moved |-> <<>>]

SchedulesTypeOK ==
  /\ sRow \in [Schedules -> {None} \cup [on : BOOLEAN, next : {"none", "future", "due"}]]
  /\ \A s \in Schedules : sRow[s].next = "due" <=> s \in Range(sDue)
  /\ IsInjective(sDue)
  /\ \A k \in Clocks :
       /\ sTick[k].todo \in Seq(Schedules) /\ Len(sTick[k].todo) <= DueLimit
       /\ sTick[k].moved \in Seq(Schedules) /\ Len(sTick[k].moved) <= 1
  /\ sAuto \in BOOLEAN /\ sStops \in 0..MaxStops

SchedulesInit ==
  /\ sRow = [s \in Schedules |-> IF s = DailyBrief THEN SRow(FALSE, "none") ELSE None]
  /\ sDue = <<>> /\ sTick = [k \in Clocks |-> TickOver] /\ sAuto = FALSE /\ sStops = 0

\* An UPDATE that moves or clears next_run_at.
SetSchedule(s, row) ==
  /\ sRow' = [sRow EXCEPT ![s] = row]
  /\ sDue' = SelectSeq(sDue, LAMBDA u : u # s)

BecomesDue(s) ==
  /\ sRow[s].next = "future"
  /\ sRow' = [sRow EXCEPT ![s].next = "due"] /\ sDue' = Append(sDue, s)
  /\ UNCHANGED <<sTick, sAuto, sStops>>
-----------------------------------------------------------------------------
(* tickSchedules() *)

\* A notification channel is there for the first time.
EnableBrief ==
  /\ ~sAuto /\ sAuto' = TRUE
  /\ sRow' = [sRow EXCEPT ![DailyBrief] = SRow(TRUE, IF @.next = "none" THEN "future" ELSE @.next)]
  /\ UNCHANGED <<sDue, sTick, sStops>>

\* Rows without a time get one.
FillNext(s) ==
  /\ sRow[s] = SRow(TRUE, "none") /\ SetSchedule(s, SRow(TRUE, "future"))
  /\ UNCHANGED <<sTick, sAuto, sStops>>

Enabled(queue) == SelectSeq(queue, LAMBDA s : sRow[s].on)

\* (A slip: no limit.)
AllOf(queue) == queue

FirstOf(queue) == SubSeq(queue, 1, IF Len(queue) < DueLimit THEN Len(queue) ELSE DueLimit)

\* (A slip: the latest first.)
LatestFirst == FirstOf(Reverse(Enabled(sDue)))

\* ORDER BY next_run_at ASC LIMIT 3
DueRows == FirstOf(Enabled(sDue))

ReadDue(k) ==
  /\ sTick[k] = TickOver /\ Enabled(sDue) # <<>>
  /\ sTick' = [sTick EXCEPT ![k].todo = DueRows]
  /\ UNCHANGED <<sRow, sDue, sAuto, sStops>>

\* The UPDATE by id: also of a row that was paused, saved or moved by another tick since.
MoveNext(k) ==
  /\ sTick[k].todo # <<>> /\ sTick[k].moved = <<>>
  /\ LET s == Head(sTick[k].todo) IN
       /\ IF sRow[s] = None THEN UNCHANGED <<sRow, sDue>>
          ELSE \E next \in {"none", "future"} : SetSchedule(s, SRow(sRow[s].on, next))
       /\ sTick' = [sTick EXCEPT ![k] = [todo |-> Tail(@.todo), moved |-> <<s>>]]
  /\ UNCHANGED <<sAuto, sStops>>

FireSchedule(k) ==
  /\ sTick[k].moved # <<>> /\ sTick' = [sTick EXCEPT ![k].moved = <<>>]
  /\ UNCHANGED <<sRow, sDue, sAuto, sStops>>

\* It dies, or a statement fails: the rest waits for the next minute, a row that was moved does not fire.
Stops(k) ==
  /\ sTick[k] # TickOver /\ sStops < MaxStops /\ sStops' = sStops + 1
  /\ sTick' = [sTick EXCEPT ![k] = TickOver]
  /\ UNCHANGED <<sRow, sDue, sAuto>>
-----------------------------------------------------------------------------
(* handleSaveSchedule(), handleToggleSchedule(), handleRunScheduleNow(), handleDeleteSchedule() *)

\* An expression that no minute of the coming year matches has no next run.
SaveSchedule(s) ==
  /\ \E on \in BOOLEAN, next \in {"none", "future"} : SetSchedule(s, SRow(on, next))
  /\ UNCHANGED <<sTick, sAuto, sStops>>

ToggleSchedule(s) ==
  /\ sRow[s] # None
  /\ SetSchedule(s, IF sRow[s].on THEN SRow(FALSE, "none") ELSE SRow(TRUE, "future"))
  /\ UNCHANGED <<sTick, sAuto, sStops>>

RunNow(s) ==
  /\ sRow[s] # None /\ sRow[s].on
  /\ SetSchedule(s, SRow(TRUE, "future"))
  /\ UNCHANGED <<sTick, sAuto, sStops>>

DeleteSchedule(s) ==
  /\ s # DailyBrief /\ sRow[s] # None /\ SetSchedule(s, None)
  /\ UNCHANGED <<sTick, sAuto, sStops>>

TickGoes(k) == ReadDue(k) \/ MoveNext(k) \/ FireSchedule(k)

SchedulesNext ==
  \/ \E s \in Schedules : BecomesDue(s) \/ FillNext(s) \/ SaveSchedule(s) \/ ToggleSchedule(s) \/ RunNow(s) \/ DeleteSchedule(s)
  \/ EnableBrief
  \/ \E k \in Clocks : TickGoes(k) \/ Stops(k)

\* A tick comes every minute and goes on unless it stops.
SchedulesFairness == \A k \in Clocks : WF_sVars(TickGoes(k))

SchedulesSpec == SchedulesInit /\ [][SchedulesNext]_sVars /\ SchedulesFairness
-----------------------------------------------------------------------------
(* schedules.js:343: however many schedules are due at each tick, and though a tick may stop half way *)
(* and another overlap it, a schedule whose time has come gets its turn (or is paused or deleted).    *)
DueGetsItsTurn ==
  \A s \in Schedules : (sRow[s].on /\ sRow[s].next = "due") ~> ~(sRow[s].on /\ sRow[s].next = "due")
==============================================================================
