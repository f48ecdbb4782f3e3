----------------------------- MODULE PulseKeeper -----------------------------
(***************************************************************************)
(* The keeper of the Worker, which starts a pulse on GitHub when the last  *)
(* heartbeat is old: its rule, its step of the tick, the button of the     *)
(* owner, and the pulses as far as it sees them.                           *)
(*   src/worker/src/keeper.js                                              *)
(*                                                                         *)
(* A tick reads the settings, then the committed state, then dispatches,   *)
(* then writes the setting; two may overlap or die in between.  A time is  *)
(* a bit: the heartbeat is less than 15 minutes old, the dispatch less     *)
(* than 14, the failed attempt less than 5.                                *)
(***************************************************************************)
EXTENDS Naturals

CONSTANTS
  Keepers,      \* ticks, and the owner's button, that may overlap
  MaxPulses,    \* bound: pulses queued or running together
  MaxMisses     \* bound: calls that fail or are lost, ticks that die, pulses that GitHub never starts

ASSUME KeeperAssumption == {MaxPulses, MaxMisses} \subseteq Nat

VARIABLES
  pBeat, pSent, pFailed,  \* lastHeartbeatAt, lastDispatchAt, lastAttemptAt are recent
  pRaw,                   \* lastPulseAt of state/heartbeat.json is recent
  pStep,                  \* the ticks: where one is
  pQueued, pMisses

pVars == <<pBeat, pSent, pFailed, pRaw, pStep, pQueued, pMisses>>

KeeperTypeOK ==
  /\ {pBeat, pSent, pFailed, pRaw} \subseteq BOOLEAN
  /\ pStep \in [Keepers -> {"idle", "look", "fire", "sent", "failed"}]
  /\ pQueued \in 0..MaxPulses /\ pMisses \in 0..MaxMisses

KeeperInit ==
  /\ pBeat = FALSE /\ pSent = FALSE /\ pFailed = FALSE /\ pRaw = FALSE
  /\ pStep = [k \in Keepers |-> "idle"] /\ pQueued = 0 /\ pMisses = 0

To(k, step) == pStep' = [pStep EXCEPT ![k] = step]
Miss == pMisses < MaxMisses /\ pMisses' = pMisses + 1

\* keeperDecision()
Fire(beat) == ~beat /\ ~pSent /\ ~pFailed

ReadSettings(k) ==
  /\ pStep[k] = "idle" /\ Fire(pBeat) /\ To(k, "look")
  /\ UNCHANGED <<pBeat, pSent, pFailed, pRaw, pQueued, pMisses>>

\* rawHeartbeatAt() backs up a heartbeat that did not arrive; it may not be readable.
Look(k) ==
  /\ pStep[k] = "look"
  /\ \/ To(k, IF pRaw THEN "idle" ELSE "fire") /\ UNCHANGED pMisses
     \/ Miss /\ To(k, "fire")
  /\ UNCHANGED <<pBeat, pSent, pFailed, pRaw, pQueued>>

\* A pulse is queued unless one waits already (the concurrency group keeps one).
Queue == pQueued' = IF pQueued = MaxPulses THEN pQueued ELSE pQueued + 1

\* handleRunPulseNow(): where the dispatch fails, nothing changes.
RunPulseNow(k) ==
  /\ pStep[k] = "idle" /\ Queue /\ To(k, "sent")
  /\ UNCHANGED <<pBeat, pSent, pFailed, pRaw, pMisses>>

Dispatch(k) ==
  /\ pStep[k] = "fire" /\ Queue /\ To(k, "sent")
  /\ UNCHANGED <<pBeat, pSent, pFailed, pRaw, pMisses>>

\* It fails, or its answer is lost.
DispatchFails(k) ==
  /\ pStep[k] = "fire" /\ Miss /\ To(k, "failed")
  /\ Queue \/ UNCHANGED pQueued
  /\ UNCHANGED <<pBeat, pSent, pFailed, pRaw>>

WriteResult(k) ==
  /\ pStep[k] \in {"sent", "failed"} /\ To(k, "idle")
  /\ IF pStep[k] = "sent" THEN pSent' = TRUE /\ UNCHANGED pFailed
     ELSE pFailed' = TRUE /\ UNCHANGED pSent
  /\ UNCHANGED <<pBeat, pRaw, pQueued, pMisses>>

KeeperDies(k) ==
  /\ pStep[k] # "idle" /\ Miss /\ To(k, "idle")
  /\ UNCHANGED <<pBeat, pSent, pFailed, pRaw, pQueued>>

\* A pulse ends: it commits its heartbeat, and reports it, which may not arrive.
PulseEnds ==
  /\ pQueued > 0 /\ pQueued' = pQueued - 1 /\ pRaw' = TRUE
  /\ \/ pBeat' = TRUE /\ UNCHANGED pMisses
     \/ Miss /\ UNCHANGED pBeat
  /\ UNCHANGED <<pSent, pFailed, pStep>>

PulseLost ==
  /\ pQueued > 0 /\ Miss /\ pQueued' = pQueued - 1
  /\ UNCHANGED <<pBeat, pSent, pFailed, pRaw, pStep>>

BeatGetsOld == /\ pBeat /\ pBeat' = FALSE /\ UNCHANGED <<pSent, pFailed, pRaw, pStep, pQueued, pMisses>>
RawGetsOld == /\ pRaw /\ pRaw' = FALSE /\ UNCHANGED <<pBeat, pSent, pFailed, pStep, pQueued, pMisses>>
SentGetsOld == /\ pSent /\ pSent' = FALSE /\ UNCHANGED <<pBeat, pFailed, pRaw, pStep, pQueued, pMisses>>
FailedGetsOld == /\ pFailed /\ pFailed' = FALSE /\ UNCHANGED <<pBeat, pSent, pRaw, pStep, pQueued, pMisses>>

KeeperGoes(k) == ReadSettings(k) \/ Look(k) \/ Dispatch(k) \/ WriteResult(k)

KeeperNext ==
  \/ \E k \in Keepers : KeeperGoes(k) \/ RunPulseNow(k) \/ DispatchFails(k) \/ KeeperDies(k)
  \/ PulseEnds \/ PulseLost \/ BeatGetsOld \/ RawGetsOld \/ SentGetsOld \/ FailedGetsOld

KeeperSpec == KeeperInit /\ [][KeeperNext]_pVars
-----------------------------------------------------------------------------
(* keeper.js: "the Worker has a reliable 1-minute cron, so it keeps the pulse alive".  Whatever was    *)
(* lost before, there is always a time again at which a pulse waits to run or has run a moment ago.    *)
PulseKept == []<>(pQueued > 0 \/ pRaw)

\* Time passes, and the tick comes every minute and goes on unless it fails or dies.
KeeperFairness(k) ==
  /\ WF_pVars(KeeperGoes(k))
  /\ WF_pVars(BeatGetsOld) /\ WF_pVars(SentGetsOld) /\ WF_pVars(FailedGetsOld)

\* In the end nothing is lost any more, and the ticks do not overlap.
TicksInTurn(k) == <>[][pMisses' = pMisses]_pVars /\ <>[](\A j \in Keepers \ {k} : pStep[j] = "idle")

\* What the guards of the fair actions are: where they hold, the action can be taken.
KeeperMayGo(k) ==
  /\ pStep[k] # "idle" \/ Fire(pBeat) => ENABLED <<KeeperGoes(k)>>_pVars
  /\ pBeat => ENABLED <<BeatGetsOld>>_pVars
  /\ pSent => ENABLED <<SentGetsOld>>_pVars
  /\ pFailed => ENABLED <<FailedGetsOld>>_pVars

KeeperGuards == \A k \in Keepers : KeeperMayGo(k)
==============================================================================
