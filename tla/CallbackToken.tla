---------------------------- MODULE CallbackToken ----------------------------
(***************************************************************************)
(* The token with which workflow runs call /internal/*: the rows of        *)
(* worker_tokens, the repo secret a run reads when it starts, and the      *)
(* issues of a new token by the tick and by the owner, which may overlap,  *)
(* die between any two statements, or lose the answer of GitHub.           *)
(*   src/worker/src/callback.js                                            *)
(*                                                                         *)
(* Which name a new token gets is immaterial: one whose row is dead.       *)
(* Legacy mode (the admin token, in the first half hour) is left out.      *)
(***************************************************************************)
EXTENDS Naturals

CONSTANTS
  Tokens,
  MaxFaults, MaxForced   \* bounds: failed calls and deaths; rotations the owner asks for

NoToken == "no token"
ASSUME TokenAssumption == NoToken \notin Tokens /\ MaxFaults \in Nat /\ MaxForced \in Nat

VARIABLES
  kStatus,   \* the row of each token; "dead": revoked, or retired and past its grace period
  kOld,      \* the active tokens created more than 30 days ago
  kBefore,   \* of the rows that are pending or active: which has a lower id than which
  kSecret,   \* the token in the secret TITAN_CALLBACK_TOKEN
  kJob,      \* issueCallbackToken() as the tick and the owner run it
  kWait,     \* callback.retryAfter is in the future
  kFaults, kForced

kVars == <<kStatus, kOld, kBefore, kSecret, kJob, kWait, kFaults, kForced>>

Callers == {"tick", "owner"}
NoJob == [at |-> "off", tok |-> NoToken]

Listed == {t \in Tokens : kStatus[t] \in {"pending", "active"}}

TokenTypeOK ==
  /\ kStatus \in [Tokens -> {"pending", "active", "grace", "dead"}]
  /\ kOld \subseteq Tokens
  /\ kBefore \subseteq Listed \X Listed
  /\ \A t, u \in Listed : t # u => (<<t, u>> \in kBefore <=> <<u, t>> \notin kBefore)
  /\ kSecret \in Tokens \cup {NoToken}
  /\ kJob \in [Callers -> [at : {"off", "put", "revoke", "wait", "retire", "activate", "clear"}, tok : Tokens \cup {NoToken}]]
  /\ kWait \in BOOLEAN /\ kFaults \in 0..MaxFaults /\ kForced \in 0..MaxForced

TokenInit ==
  /\ kStatus = [t \in Tokens |-> "dead"] /\ kOld = {} /\ kBefore = {} /\ kSecret = NoToken
  /\ kJob = [c \in Callers |-> NoJob] /\ kWait = FALSE /\ kFaults = 0 /\ kForced = 0

Usable(t) == kStatus[t] \in {"pending", "active", "grace"}

\* findCallbackRow(), for a run that starts now.
Accepted == kSecret # NoToken /\ Usable(kSecret)

Unused == {t \in Tokens : kStatus[t] = "dead" /\ kSecret # t /\ \A c \in Callers : kJob[c].tok # t}
Among(rows) == kBefore \cap (rows \X rows)
Goto(c, where) == kJob' = [kJob EXCEPT ![c].at = where]
IssueOver(c) == kJob' = [kJob EXCEPT ![c] = NoJob]

\* (A slip: a token is renewed only when there is none.)
NeedsOnlyMissing == \A t \in Tokens : kStatus[t] # "active"

\* tickCallbackToken(): no active token, or the newest of them is older than 30 days.
Active == {t \in Tokens : kStatus[t] = "active"}
Newest == {t \in Active : \A u \in Active : <<t, u>> \notin kBefore}
NeedsToken == Newest \subseteq kOld

Issue(c) ==
  /\ kJob[c] = NoJob
  /\ IF c = "tick" THEN ~kWait /\ NeedsToken /\ UNCHANGED kForced
     ELSE kForced < MaxForced /\ kForced' = kForced + 1
  /\ Unused # {}
  /\ LET t == CHOOSE u \in Unused : TRUE IN
       /\ kStatus' = [kStatus EXCEPT ![t] = "pending"]
       /\ kBefore' = kBefore \cup (Listed \X {t})
       /\ kJob' = [kJob EXCEPT ![c] = [at |-> "put", tok |-> t]]
  /\ UNCHANGED <<kOld, kSecret, kWait, kFaults>>

\* getPublicKey() and putSecret().
Put(c) ==
  /\ kJob[c].at = "put" /\ kSecret' = kJob[c].tok /\ Goto(c, "retire")
  /\ UNCHANGED <<kStatus, kOld, kBefore, kWait, kFaults, kForced>>

\* One of them fails, or the secret is written and the answer is lost.
PutFails(c) ==
  /\ kJob[c].at = "put" /\ kFaults < MaxFaults /\ kFaults' = kFaults + 1
  /\ kSecret' \in {kSecret, kJob[c].tok} /\ Goto(c, "revoke")
  /\ UNCHANGED <<kStatus, kOld, kBefore, kWait, kForced>>

Revoke(c) ==
  /\ kJob[c].at = "revoke" /\ kStatus' = [kStatus EXCEPT ![kJob[c].tok] = "dead"] /\ Goto(c, "wait")
  /\ kBefore' = Among(Listed \ {kJob[c].tok})
  /\ UNCHANGED <<kOld, kSecret, kWait, kFaults, kForced>>

RetryLater(c) ==
  /\ kJob[c].at = "wait" /\ kWait' = TRUE /\ IssueOver(c)
  /\ UNCHANGED <<kStatus, kOld, kBefore, kSecret, kFaults, kForced>>

\* The tokens before it keep working for 30 minutes...
Retire(c) ==
  /\ kJob[c].at = "retire" /\ Goto(c, "activate")
  /\ kStatus' = [t \in Tokens |-> IF kStatus[t] = "active" /\ t # kJob[c].tok THEN "grace" ELSE kStatus[t]]
  /\ kOld' = kOld \cap {kJob[c].tok}
  /\ kBefore' = Among({t \in Listed : kStatus[t] = "pending" \/ t = kJob[c].tok})
  /\ UNCHANGED <<kSecret, kWait, kFaults, kForced>>

\* ...and this one is the active one, whatever another issue made of the secret meanwhile.
Activate(c) ==
  /\ kJob[c].at = "activate" /\ kStatus' = [kStatus EXCEPT ![kJob[c].tok] = "active"] /\ Goto(c, "clear")
  /\ UNCHANGED <<kOld, kBefore, kSecret, kWait, kFaults, kForced>>

Clear(c) ==
  /\ kJob[c].at = "clear" /\ kWait' = FALSE /\ IssueOver(c)
  /\ UNCHANGED <<kStatus, kOld, kBefore, kSecret, kFaults, kForced>>

IssuerDies(c) ==
  /\ kJob[c] # NoJob /\ kFaults < MaxFaults /\ kFaults' = kFaults + 1 /\ IssueOver(c)
  /\ UNCHANGED <<kStatus, kOld, kBefore, kSecret, kWait, kForced>>

GraceEnds(t) ==
  /\ kStatus[t] = "grace" /\ kStatus' = [kStatus EXCEPT ![t] = "dead"]
  /\ UNCHANGED <<kOld, kBefore, kSecret, kJob, kWait, kFaults, kForced>>

GrowOld(t) ==
  /\ kStatus[t] = "active" /\ t \notin kOld /\ kOld' = kOld \cup {t}
  /\ UNCHANGED <<kStatus, kBefore, kSecret, kJob, kWait, kFaults, kForced>>

WaitEnds ==
  /\ kWait /\ kWait' = FALSE
  /\ UNCHANGED <<kStatus, kOld, kBefore, kSecret, kJob, kFaults, kForced>>

IssuerGoes(c) == Put(c) \/ PutFails(c) \/ Revoke(c) \/ RetryLater(c) \/ Retire(c) \/ Activate(c) \/ Clear(c)

TokenNext ==
  \/ \E c \in Callers : Issue(c) \/ IssuerGoes(c) \/ IssuerDies(c)
  \/ \E t \in Tokens : GraceEnds(t) \/ GrowOld(t)
  \/ WaitEnds

TokenSpec == TokenInit /\ [][TokenNext]_kVars
-----------------------------------------------------------------------------
(* callback.js: "If the write fails, the row is revoked and the next try waits one hour."  Whatever   *)
(* fails, dies or overlaps on the way, at the latest with the next 30 days the secret that the runs   *)
(* read is again one that the Worker accepts.                                                         *)
CallbackHeals == []<>Accepted

\* The tick comes every minute and goes on unless it fails or dies, and time passes.
NewestGrowsOld == \E t \in Newest : GrowOld(t)
TickFairness ==
  /\ WF_kVars(Issue("tick")) /\ WF_kVars(IssuerGoes("tick"))
  /\ WF_kVars(WaitEnds) /\ WF_kVars(NewestGrowsOld)

\* A new token is 32 random bytes: there is always another one, or one that is dead and forgotten.
TokenLeft == Unused # {}

\* In the end nothing fails and nobody dies any more, and the owner asks for no rotation.
QuietInTheEnd == <>[][kFaults' = kFaults]_kVars /\ <>[](kJob["owner"] = NoJob)

\* What the guards of the fair actions are: where they hold, the action can be taken.
TokenGuards ==
  /\ kJob["tick"].at # "off" => ENABLED <<IssuerGoes("tick")>>_kVars
  /\ kJob["tick"].at = "off" /\ ~kWait /\ NeedsToken /\ TokenLeft => ENABLED <<Issue("tick")>>_kVars
  /\ kWait => ENABLED <<WaitEnds>>_kVars
  /\ ~NeedsToken => ENABLED <<NewestGrowsOld>>_kVars
==============================================================================
