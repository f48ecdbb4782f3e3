------------------------------- MODULE EventLog -------------------------------
(*******************************************************************************)
(* observability/events.js: one file of events for each day, to which the      *)
(* pulses append, and which is compacted into counts when its day is old.  A   *)
(* pulse may be killed within an append, which leaves a torn last line or a    *)
(* whole one without its newline, and between the two writes of a compaction.  *)
(*                                                                             *)
(* An event is a number.  A line is the events whose text runs together on it: *)
(* it can be read when it is whole and holds one.                              *)
(*******************************************************************************)
EXTENDS Naturals, Sequences, FiniteSets

CONSTANTS
  Loggers,      \* the pulses
  RetainDays,   \* days a file is kept (14 in the code)
  LookBack,     \* last lines searched for the sequence number (5 in the code)
  Overlapping,  \* may two pulses run on one checkout?
  MaxEvents, MaxTorn, MaxDay

ASSUME EventLogAssumption ==
  /\ {RetainDays, LookBack, MaxEvents, MaxTorn, MaxDay} \subseteq Nat /\ LookBack > 0 /\ RetainDays > 0
  /\ MaxDay > 0
  /\ Overlapping \in BOOLEAN

Days == 1..MaxDay

VARIABLES
  eDay,      \* today
  eLines,    \* the lines of each day's file
  eOpen,     \* days whose file does not end in a newline
  eKept,     \* days whose file there is
  eCounted,  \* for each day, the events in its archived summary
  ePc,       \* each pulse: not yet started, logging, summary of a file written, over
  eOld,      \* the day it is compacting
  eFile,     \* currentFile: the day whose sequence number it has looked up, or 0
  eSeq,      \* its sequence number
  eNeeds,    \* needsNewline
  eWhole,    \* for each day, the events that were appended whole
  eLast,     \* events so far
  eTorn      \* appends cut short so far

eVars == <<eDay, eLines, eOpen, eKept, eCounted, ePc, eOld, eFile, eSeq, eNeeds, eWhole, eLast, eTorn>>
store == <<eLines, eOpen, eKept>>

Line == [events : SUBSET (1..MaxEvents), seq : 0..MaxEvents, whole : BOOLEAN]

EventLogTypeOK ==
  /\ eDay \in Days
  /\ eLines \in [Days -> Seq(Line)]
  /\ eOpen \subseteq Days /\ eKept \subseteq Days
  /\ eCounted \in [Days -> SUBSET (1..MaxEvents)] /\ eWhole \in [Days -> SUBSET (1..MaxEvents)]
  /\ ePc \in [Loggers -> {"new", "on", "summed", "over"}]
  /\ eOld \in [Loggers -> 0..MaxDay]
  /\ eFile \in [Loggers -> 0..MaxDay] /\ eSeq \in [Loggers -> 0..MaxEvents]
  /\ eNeeds \in [Loggers -> BOOLEAN]
  /\ eLast \in 0..MaxEvents /\ eTorn \in 0..MaxTorn

EventLogInit ==
  /\ eDay = 1
  /\ eLines = [d \in Days |-> <<>>] /\ eOpen = {} /\ eKept = {}
  /\ eCounted = [d \in Days |-> {}] /\ eWhole = [d \in Days |-> {}]
  /\ ePc = [p \in Loggers |-> "new"] /\ eOld = [p \in Loggers |-> 0]
  /\ eFile = [p \in Loggers |-> 0] /\ eSeq = [p \in Loggers |-> 0]
  /\ eNeeds = [p \in Loggers |-> FALSE]
  /\ eLast = 0 /\ eTorn = 0

-------------------------------------------------------------------------------
Readable(line) == line.whole /\ Cardinality(line.events) = 1
EventsIn(d) == UNION {eLines[d][i].events : i \in {j \in 1..Len(eLines[d]) : Readable(eLines[d][j])}}
Active(p) == ePc[p] \notin {"new", "over"}

StartLog(p) ==
  /\ ePc[p] = "new"
  /\ Overlapping \/ \A q \in Loggers : ~Active(q)
  /\ ePc' = [ePc EXCEPT ![p] = "on"]
  /\ UNCHANGED <<eDay, store, eCounted, eOld, eFile, eSeq, eNeeds, eWhole, eLast, eTorn>>

\* #ensureSeq: when the file is another than last time, go on from the last sequence
\* number that can be read in its last lines, and see whether it ends in a newline.
Recent(d) == {i \in 1..Len(eLines[d]) : i > Len(eLines[d]) - LookBack /\ Readable(eLines[d][i])}
LastSeq(d) == IF Recent(d) = {} THEN 0
              ELSE LET i == CHOOSE j \in Recent(d) : \A k \in Recent(d) : k <= j IN eLines[d][i].seq
NextSeq(p) ==
  1 + (IF eFile[p] = eDay \/ LastSeq(eDay) < eSeq[p] THEN eSeq[p] ELSE LastSeq(eDay))
NeverNeeds(p) == FALSE
Needs(p) == IF eFile[p] = eDay THEN eNeeds[p] ELSE eDay \in eOpen

\* The file with this event at its end, whole or not: on a line of its own, unless the
\* last line is open and no newline goes before it.
Appended(p, whole) ==
  LET file == eLines[eDay]
      line == [events |-> {eLast + 1}, seq |-> NextSeq(p), whole |-> whole]
  IN IF eDay \in eOpen /\ ~Needs(p)
     THEN [file EXCEPT ![Len(file)] =
             [line EXCEPT !.events = @ \union file[Len(file)].events, !.whole = FALSE]]
     ELSE Append(file, line)

AppendEvent(p) ==
  /\ ePc[p] = "on" /\ eLast < MaxEvents
  /\ eLines' = [eLines EXCEPT ![eDay] = Appended(p, TRUE)]
  /\ eOpen' = eOpen \ {eDay} /\ eKept' = eKept \union {eDay}
  /\ eFile' = [eFile EXCEPT ![p] = eDay] /\ eSeq' = [eSeq EXCEPT ![p] = NextSeq(p)]
  /\ eNeeds' = [eNeeds EXCEPT ![p] = FALSE]
  /\ eWhole' = [eWhole EXCEPT ![eDay] = @ \union {eLast + 1}]
  /\ eLast' = eLast + 1
  /\ UNCHANGED <<eDay, eCounted, ePc, eOld, eTorn>>

\* Killed within the append: what has reached the file is a part of the line, or all of
\* it but the newline (the newline alone that goes first leaves the file closed).
KilledAppending(p) ==
  /\ ePc[p] = "on" /\ eLast < MaxEvents /\ eTorn < MaxTorn
  /\ ePc' = [ePc EXCEPT ![p] = "over"]
  /\ eTorn' = eTorn + 1 /\ eLast' = eLast + 1
  /\ \/ \E whole \in BOOLEAN :
          /\ eLines' = [eLines EXCEPT ![eDay] = Appended(p, whole)]
          /\ eOpen' = eOpen \union {eDay} /\ eKept' = eKept \union {eDay}
          /\ eWhole' = IF whole THEN [eWhole EXCEPT ![eDay] = @ \union {eLast + 1}] ELSE eWhole
     \/ /\ Needs(p) /\ eDay \in eOpen
        /\ eOpen' = eOpen \ {eDay}
        /\ UNCHANGED <<eLines, eKept, eWhole>>
  /\ UNCHANGED <<eDay, eCounted, eOld, eFile, eSeq, eNeeds>>

\* compact(): the events of a file older than the retention are counted, the summary
\* is written, and then the file is removed.
EventsCounted(d) == EventsIn(d)

Summarise(p, d) ==
  /\ ePc[p] = "on" /\ d \in eKept /\ d + RetainDays <= eDay
  /\ eCounted' = [eCounted EXCEPT ![d] = EventsCounted(d)]
  /\ ePc' = [ePc EXCEPT ![p] = "summed"] /\ eOld' = [eOld EXCEPT ![p] = d]
  /\ UNCHANGED <<eDay, store, eFile, eSeq, eNeeds, eWhole, eLast, eTorn>>

RemoveOld(p) ==
  /\ ePc[p] = "summed"
  /\ eKept' = eKept \ {eOld[p]} /\ eOpen' = eOpen \ {eOld[p]}
  /\ eLines' = [eLines EXCEPT ![eOld[p]] = <<>>]
  /\ ePc' = [ePc EXCEPT ![p] = "on"] /\ eOld' = [eOld EXCEPT ![p] = 0]
  /\ UNCHANGED <<eDay, eCounted, eFile, eSeq, eNeeds, eWhole, eLast, eTorn>>

\* A pulse ends, or is killed between two writes.
LogEnds(p) ==
  /\ Active(p)
  /\ ePc' = [ePc EXCEPT ![p] = "over"] /\ eOld' = [eOld EXCEPT ![p] = 0]
  /\ UNCHANGED <<eDay, store, eCounted, eFile, eSeq, eNeeds, eWhole, eLast, eTorn>>

DayEnds ==
  /\ eDay < MaxDay
  /\ eDay' = eDay + 1
  /\ UNCHANGED <<store, eCounted, ePc, eOld, eFile, eSeq, eNeeds, eWhole, eLast, eTorn>>

EventLogNext ==
  \/ \E p \in Loggers :
        \/ StartLog(p) \/ AppendEvent(p) \/ KilledAppending(p) \/ RemoveOld(p) \/ LogEnds(p)
        \/ \E d \in Days : Summarise(p, d)
  \/ DayEnds

EventLogSpec == EventLogInit /\ [][EventLogNext]_eVars

-------------------------------------------------------------------------------
\* Whatever is killed within an append or a compaction, an event that was written whole
\* can be read from its day's file while there is one and is counted after that, and the
\* numbers of a file rise from line to line, across pulses (events.js:8-12).
EventsKeptInOrder ==
  \A d \in Days :
    /\ eWhole[d] \subseteq (IF d \in eKept THEN EventsIn(d) ELSE eCounted[d])
    /\ \A i, j \in 1..Len(eLines[d]) :
          i < j /\ Readable(eLines[d][i]) /\ Readable(eLines[d][j])
            => eLines[d][i].seq < eLines[d][j].seq
===============================================================================
