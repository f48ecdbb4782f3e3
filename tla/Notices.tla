------------------------------- MODULE Notices -------------------------------
(***************************************************************************)
(* The events of the Worker and their way to the notification channels.    *)
(*   src/worker/src/notify.js, src/worker/src/connectors/notifyRouter.js   *)
(*                                                                         *)
(* The tick takes the time, has other work to do first, reads a few        *)
(* unrouted events and then the rules, delivers an event to one channel    *)
(* after the other, and marks it.  Two ticks may overlap, and one may die, *)
(* or throw, between two statements.  There is one rule, whose pattern and *)
(* severity match; its quiet hours come and go, and are judged by the time *)
(* the tick began, however late it reads.  A message of a tool             *)
(* (notify.custom), which goes to every channel and leaves no record, is   *)
(* left out.                                                               *)
(***************************************************************************)
EXTENDS Naturals, Sequences, SequencesExt

CONSTANTS
  Events,                  \* the events
  Twin(_, _),              \* two events have the same type and title
  Channels,                \* the connections that are channels
  Routers, RouteBatch,     \* ticks that may overlap; events one of them reads
  MaxBreaks, MaxEdits      \* bounds: ticks that die; changes of rule, connection and hours

ASSUME NoticesAssumption == RouteBatch \in Nat \ {0} /\ {MaxBreaks, MaxEdits} \subseteq Nat

VARIABLES
  nWaiting,  \* the events with routed = 0, by id
  nRouted,
  nLive,     \* the channels that are connected
  nRule,     \* connection_ids of the rule, empty while it is off
  nQuiet,    \* quiet hours
  nTick,     \* a tick: its events, the rule it read, where it stands, whether it began in quiet hours
  nTried,    \* deliveries that were tried
  nLog,      \* those the table notify_deliveries has as ok
  nOwed,     \* (history) the channels that the rule has named, in no quiet hour, ever since the event
  nMuted,    \* (history) the events that a tick begun in quiet hours marked as routed
  nBreaks, nEdits

nVars == <<nWaiting, nRouted, nLive, nRule, nQuiet, nTick, nTried, nLog, nOwed, nMuted, nBreaks, nEdits>>

NoTick == [todo |-> <<>>, rule |-> {}, at |-> "off", left |-> {}, to |-> {}, quiet |-> FALSE]

NoticesTypeOK ==
  /\ Range(nWaiting) \subseteq Events /\ nRouted \subseteq Events /\ Range(nWaiting) \cap nRouted = {}
  /\ nLive \subseteq Channels /\ nRule \subseteq Channels /\ nQuiet \in BOOLEAN
  /\ \A k \in Routers :
       /\ Range(nTick[k].todo) \subseteq Events /\ nTick[k].at \in {"off", "read", "rules", "begin", "deliver", "record"}
       /\ nTick[k].rule \cup nTick[k].left \cup nTick[k].to \subseteq Channels /\ nTick[k].quiet \in BOOLEAN
  /\ nTried \subseteq Events \X Channels /\ nLog \subseteq nTried
  /\ nOwed \in [Events -> SUBSET Channels] /\ nMuted \subseteq nRouted /\ nBreaks \in 0..MaxBreaks /\ nEdits \in 0..MaxEdits

NoticesInit ==
  /\ nWaiting = <<>> /\ nRouted = {} /\ nLive = Channels /\ nRule = Channels /\ nQuiet \in BOOLEAN
  /\ nTick = [k \in Routers |-> NoTick] /\ nTried = {} /\ nLog = {}
  /\ nOwed = [e \in Events |-> {}] /\ nMuted = {} /\ nBreaks = 0 /\ nEdits = 0

\* emitEvent()
Emit(e) ==
  /\ e \notin nRouted \cup Range(nWaiting)
  /\ nWaiting' = Append(nWaiting, e)
  /\ nOwed' = [nOwed EXCEPT ![e] = IF nQuiet THEN {} ELSE nRule \cap nLive]
  /\ UNCHANGED <<nRouted, nLive, nRule, nQuiet, nTick, nTried, nLog, nMuted, nBreaks, nEdits>>

\* The owner edits the rule, a connection goes, or the quiet hours begin or end.
Edit ==
  /\ nEdits < MaxEdits /\ nEdits' = nEdits + 1
  /\ \/ nRule' \in (SUBSET Channels) \ {nRule} /\ UNCHANGED <<nLive, nQuiet>>
     \/ (\E c \in nLive : nLive' = nLive \ {c}) /\ UNCHANGED <<nRule, nQuiet>>
     \/ nQuiet' = ~nQuiet /\ UNCHANGED <<nRule, nLive>>
  /\ nOwed' = [e \in Events |-> IF nQuiet' THEN {} ELSE nOwed[e] \cap nRule' \cap nLive']
  /\ UNCHANGED <<nWaiting, nRouted, nTick, nTried, nLog, nMuted, nBreaks>>
-----------------------------------------------------------------------------
(* runTick() takes the time once, for all its steps; routeEvents() is the eighth. *)

BeginTick(k) ==
  /\ nTick[k] = NoTick
  /\ nTick' = [nTick EXCEPT ![k] = [NoTick EXCEPT !.at = "read", !.quiet = nQuiet]]
  /\ UNCHANGED <<nWaiting, nRouted, nLive, nRule, nQuiet, nTried, nLog, nOwed, nMuted, nBreaks, nEdits>>

ReadEvents(k) ==
  /\ nTick[k].at = "read"
  /\ LET n == IF Len(nWaiting) < RouteBatch THEN Len(nWaiting) ELSE RouteBatch IN
     nTick' = [nTick EXCEPT ![k] = IF n = 0 THEN NoTick
                                   ELSE [@ EXCEPT !.at = "rules", !.todo = SubSeq(nWaiting, 1, n)]]
  /\ UNCHANGED <<nWaiting, nRouted, nLive, nRule, nQuiet, nTried, nLog, nOwed, nMuted, nBreaks, nEdits>>

\* What the rules, as they are now, say for the time the tick began.
ReadRules(k) ==
  /\ nTick[k].at = "rules"
  /\ nTick' = [nTick EXCEPT ![k].at = "begin", ![k].rule = IF nTick[k].quiet THEN {} ELSE nRule]
  /\ UNCHANGED <<nWaiting, nRouted, nLive, nRule, nQuiet, nTried, nLog, nOwed, nMuted, nBreaks, nEdits>>

\* (A slip: only the channels that no delivery went to yet.)
ForNew(k) == {c \in nTick[k].rule : \A d \in Events : <<d, c>> \notin nTried}

For(k) == nTick[k].rule

BeginEvent(k) ==
  /\ nTick[k].at = "begin"
  /\ nTick' = [nTick EXCEPT ![k].at = "deliver", ![k].left = For(k)]
  /\ UNCHANGED <<nWaiting, nRouted, nLive, nRule, nQuiet, nTried, nLog, nOwed, nMuted, nBreaks, nEdits>>

\* deliveredRecently()
ToldLately(e, c) == \E d \in Events : (d = e \/ Twin(d, e)) /\ <<d, c>> \in nLog

Skip(k, c) ==
  LET e == Head(nTick[k].todo) IN
  /\ nTick[k].at = "deliver" /\ c \in nTick[k].left
  /\ c \in nLive => ToldLately(e, c)
  /\ nTick' = [nTick EXCEPT ![k].left = @ \ {c}]
  /\ UNCHANGED <<nWaiting, nRouted, nLive, nRule, nQuiet, nTried, nLog, nOwed, nMuted, nBreaks, nEdits>>

\* deliver(): the message is accepted or refused.
Deliver(k, c) ==
  LET e == Head(nTick[k].todo) IN
  /\ nTick[k].at = "deliver" /\ c \in nTick[k].left \cap nLive
  /\ ~ToldLately(e, c)
  /\ nTried' = nTried \cup {<<e, c>>}
  /\ \E ok \in BOOLEAN :
       nTick' = [nTick EXCEPT ![k].left = @ \ {c}, ![k].to = IF ok THEN {c} ELSE {}, ![k].at = "record"]
  /\ UNCHANGED <<nWaiting, nRouted, nLive, nRule, nQuiet, nLog, nOwed, nMuted, nBreaks, nEdits>>

\* (A slip: every channel of the rule is recorded.)
ToldAll(k) == nTick[k].rule

ToldNow(k) == nTick[k].to

Record(k) ==
  /\ nTick[k].at = "record"
  /\ nLog' = nLog \cup {<<Head(nTick[k].todo), c>> : c \in ToldNow(k)}
  /\ nTick' = [nTick EXCEPT ![k].at = "deliver", ![k].to = {}]
  /\ UNCHANGED <<nWaiting, nRouted, nLive, nRule, nQuiet, nTried, nOwed, nMuted, nBreaks, nEdits>>

\* (A slip: an event is marked before it is delivered.)
TriedOrNot(k) == nTick[k].at = "deliver"

AllTried(k) == nTick[k].at = "deliver" /\ nTick[k].left = {}

MarkRouted(k) ==
  /\ AllTried(k)
  /\ LET e == Head(nTick[k].todo) IN
       /\ nRouted' = nRouted \cup {e}
       /\ \/ e \notin Range(nWaiting) /\ UNCHANGED nWaiting
          \/ \E i \in DOMAIN nWaiting : nWaiting[i] = e /\ nWaiting' = RemoveAt(nWaiting, i)
       /\ nMuted' = IF nTick[k].quiet THEN nMuted \cup {e} ELSE nMuted
       /\ nTick' = [nTick EXCEPT ![k] = IF Len(nTick[k].todo) = 1 THEN NoTick
                                        ELSE [nTick[k] EXCEPT !.at = "begin", !.todo = Tail(@)]]
  /\ UNCHANGED <<nLive, nRule, nQuiet, nTried, nLog, nOwed, nBreaks, nEdits>>

RouterDies(k) ==
  /\ nTick[k] # NoTick /\ nBreaks < MaxBreaks /\ nBreaks' = nBreaks + 1
  /\ nTick' = [nTick EXCEPT ![k] = NoTick]
  /\ UNCHANGED <<nWaiting, nRouted, nLive, nRule, nQuiet, nTried, nLog, nOwed, nMuted, nEdits>>

NoticesNext ==
  \/ \E e \in Events : Emit(e)
  \/ Edit
  \/ \E k \in Routers :
       \/ BeginTick(k) \/ ReadEvents(k) \/ ReadRules(k) \/ BeginEvent(k) \/ Record(k) \/ MarkRouted(k)
       \/ RouterDies(k) \/ \E c \in Channels : Skip(k, c) \/ Deliver(k, c)

NoticesSpec == NoticesInit /\ [][NoticesNext]_nVars
-----------------------------------------------------------------------------
(* notifyRouter.js: an event counts as routed only when each channel that a rule has named ever since *)
(* the event was tried, or was told of an event with the same title: also when the tick that began it *)
(* died, two ticks worked on it, or the rule, the channels and the quiet hours changed on the way.    *)
(* Only a tick that began in quiet hours (tick.js:19, 35) may pass an event over, be it one that came *)
(* after they had ended.                                                                              *)
RoutedWasTold ==
  \A e \in nRouted, c \in Channels :
    c \in nOwed[e] /\ e \notin nMuted => <<e, c>> \in nTried \/ \E d \in Events : Twin(d, e) /\ <<d, c>> \in nLog
==============================================================================
