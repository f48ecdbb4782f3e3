----------------------------- MODULE EngineProofs -----------------------------
(***************************************************************************)
(* Theorems about the parts of the engine that keep records: the calls to  *)
(* the providers and their quota, the run records and their archive, the   *)
(* usage reports, the checkpoints in git, the log of events, the commands  *)
(* on an issue and the plans.                                              *)
(***************************************************************************)
EXTENDS ProviderCalls, RunRecords, UsageReports, Checkpointer, EventLog, IssueCommands, Plans,
        FiniteSetTheorems, SequenceTheorems, WellFoundedInduction, TLAPS

(***************************************************************************)
(* ProviderCalls: registry.js, health.js, quota.js                         *)
(***************************************************************************)

CallRecord == [at : {"idle", "gateway", "queued", "asking"}, who : Providers \cup {Nowhere},
               named : BOOLEAN, urgent : BOOLEAN, left : SUBSET Providers, tried : 0..MaxProviders]

\* A call is at a provider while it is queued or asking, and the provider is no longer ahead of it.
CallsInv ==
  /\ CallsTypeOK
  /\ \A s \in Steps : /\ cCall[s].who \notin cCall[s].left
                      /\ cCall[s].at \in {"queued", "asking"} => cCall[s].who \in Providers
  /\ QuotaNearlyKept

\* canSpend(): no window is full for a provider that a call is let through to.
LEMMA RoomInTheWindow ==
  ASSUME CallsTypeOK, NEW p \in Providers, NEW call, ~SkippedFor(p, call)
  PROVE  cCount[p] <= PerWindow - 1 /\ cStatus[p] # "misconfigured"
<1>1. cCount[p] \in Nat /\ PerWindow \in Nat /\ Reserve \in Nat /\ Reserve <= PerWindow
  BY ProviderCallsAssumption DEF CallsTypeOK
<1>2. cCount[p] < PerWindow - (IF call.urgent THEN 0 ELSE Reserve) /\ cStatus[p] # "misconfigured"
  BY DEF SkippedFor, CanSpend
<1>3. CASE call.urgent
  BY <1>1, <1>2, <1>3
<1>4. CASE ~call.urgent
  BY <1>1, <1>2, <1>4
<1> QED BY <1>3, <1>4

\* The loop of chat() ends the call, or queues it at one of the providers ahead that is not skipped.
LEMMA OnwardMoves ==
  ASSUME NEW s \in Steps, NEW call \in CallRecord, Onward(s, call)
  PROVE  \E new \in CallRecord :
           /\ cCall' = [cCall EXCEPT ![s] = new] /\ new.who \notin new.left
           /\ \/ new = NoCall
              \/ new.at = "queued" /\ new.who \in call.left /\ ~SkippedFor(new.who, call)
<1>0. NoCall \in CallRecord /\ NoCall.who \notin NoCall.left
  BY ProviderCallsAssumption DEF NoCall, CallRecord
<1>1. CASE cCall' = [cCall EXCEPT ![s] = NoCall]
  BY <1>0, <1>1
<1>2. ASSUME NEW p \in call.left, NEW over \in SUBSET call.left,
             call.tried < MaxProviders, ~SkippedFor(p, call),
             cCall' = [cCall EXCEPT ![s] =
               [call EXCEPT !.at = "queued", !.who = p, !.left = @ \ (over \cup {p}), !.tried = @ + 1]]
      PROVE  \E new \in CallRecord :
               /\ cCall' = [cCall EXCEPT ![s] = new] /\ new.who \notin new.left
               /\ new.at = "queued" /\ new.who \in call.left /\ ~SkippedFor(new.who, call)
  <2> DEFINE new == [call EXCEPT !.at = "queued", !.who = p, !.left = @ \ (over \cup {p}), !.tried = @ + 1]
  <2>1. call.left \subseteq Providers /\ call.tried \in 0..MaxProviders /\ MaxProviders \in Nat
    BY ProviderCallsAssumption DEF CallRecord
  <2>2. call.tried + 1 \in 0..MaxProviders
    BY <1>2, <2>1
  <2>3. new \in CallRecord /\ new.at = "queued" /\ new.who = p /\ new.left = call.left \ (over \cup {p})
    BY <2>1, <2>2 DEF CallRecord
  <2> HIDE DEF new
  <2>4. cCall' = [cCall EXCEPT ![s] = new]
    BY <1>2 DEF new
  <2> QED BY <1>2, <2>3, <2>4
<1> QED BY <1>1, <1>2 DEF Onward

\* One call moves.  A provider it comes to has room in its window, one it leaves has counted it at
\* most once more, and nothing else changes for the others: no window is overspent by more than the callers.
LEMMA OneCallMoves ==
  ASSUME CallsInv, NEW s \in Steps, NEW new \in CallRecord,
         cCall' = [cCall EXCEPT ![s] = new],
         new.who \notin new.left, new.at \in {"queued", "asking"} => new.who \in Providers,
         cStatus' \in [Providers -> {"ok", "failed", "misconfigured"}],
         \A p \in cCool' : p \in Providers /\ cStatus'[p] = "failed",
         cCount' \in [Providers -> Nat], cGateway' = cGateway,
         \A p \in Providers :
           \/ cCount'[p] = cCount[p] /\ (new.who = p => cCall[s].who = p \/ cCount[p] <= PerWindow - 1)
           \/ cCount'[p] = cCount[p] + 1 /\ cCall[s].who = p /\ new.who # p
  PROVE  CallsInv'
<1>0. cCall \in [Steps -> CallRecord] /\ cCount \in [Providers -> Nat] /\ QuotaNearlyKept
  BY DEF CallsInv, CallsTypeOK, CallRecord
<1>1. cCall' \in [Steps -> CallRecord] /\ cCall'[s] = new /\ \A t \in Steps : t # s => cCall'[t] = cCall[t]
  BY <1>0
<1>2. CallsTypeOK'
  BY <1>1 DEF CallsInv, CallsTypeOK, CallRecord
<1>3. \A t \in Steps : /\ cCall'[t].who \notin cCall'[t].left
                       /\ cCall'[t].at \in {"queued", "asking"} => cCall'[t].who \in Providers
  BY <1>1 DEF CallsInv
<1>4. ASSUME NEW p \in Providers
      PROVE  cCount'[p] + Cardinality(Under(p)') <= PerWindow - 1 + Cardinality(Steps)
  <2>0. /\ cCount[p] \in Nat /\ cCount'[p] \in Nat /\ PerWindow \in Nat /\ IsFiniteSet(Steps)
        /\ Under(p) \subseteq Steps /\ Under(p)' \subseteq Steps
        /\ cCount[p] + Cardinality(Under(p)) <= PerWindow - 1 + Cardinality(Steps)
    BY <1>0, ProviderCallsAssumption DEF Under, QuotaNearlyKept
  <2>1. /\ IsFiniteSet(Under(p)) /\ IsFiniteSet(Under(p)')
        /\ Cardinality(Under(p)) \in Nat /\ Cardinality(Under(p)') \in Nat /\ Cardinality(Steps) \in Nat
        /\ Cardinality(Under(p)') <= Cardinality(Steps)
    BY <2>0, FS_Subset, FS_CardinalityType
  <2>2. CASE cCount'[p] = cCount[p] /\ cCount[p] <= PerWindow - 1
    BY <2>0, <2>1, <2>2
  <2>3. CASE cCount'[p] = cCount[p] /\ (new.who = p => cCall[s].who = p)
    <3>1. Under(p)' \subseteq Under(p)
      BY <1>1, <2>3 DEF Under
    <3>2. Cardinality(Under(p)') <= Cardinality(Under(p))
      BY <2>1, <3>1, FS_Subset
    <3> QED BY <2>0, <2>1, <2>3, <3>2
  <2>4. CASE cCount'[p] = cCount[p] + 1 /\ cCall[s].who = p /\ new.who # p
    <3>1. Under(p)' = Under(p) \ {s} /\ s \in Under(p)
      BY <1>1, <2>4 DEF Under
    <3>2. Cardinality(Under(p)') = Cardinality(Under(p)) - 1
      BY <2>1, <3>1, FS_RemoveElement
    <3> QED BY <2>0, <2>1, <2>4, <3>2
  <2> QED BY <2>2, <2>3, <2>4
<1> QED BY <1>2, <1>3, <1>4 DEF CallsInv, QuotaNearlyKept

\* registry.js, health.js, quota.js: every step of a call, a window, a cooldown or the self-test keeps it so.
LEMMA CallsInductive == CallsInv /\ [CallsNext]_cVars => CallsInv'
<1> SUFFICES ASSUME CallsInv, [CallsNext]_cVars PROVE CallsInv'
  OBVIOUS
<1>0. /\ CallsTypeOK /\ QuotaNearlyKept /\ cCall \in [Steps -> CallRecord]
      /\ cStatus \in [Providers -> {"ok", "failed", "misconfigured"}]
      /\ (\A p \in cCool : p \in Providers /\ cStatus[p] = "failed") /\ cCount \in [Providers -> Nat]
      /\ \A s \in Steps : /\ cCall[s].who \notin cCall[s].left
                          /\ cCall[s].at \in {"queued", "asking"} => cCall[s].who \in Providers
  BY DEF CallsInv, CallsTypeOK, CallRecord
<1>n. /\ NoCall \in CallRecord /\ NoCall.at = "idle" /\ NoCall.who = Nowhere /\ NoCall.left = {}
      /\ Nowhere \notin Providers
  BY NowhereAssumption, ProviderCallsAssumption DEF NoCall, CallRecord
<1>a. ASSUME NEW s \in Steps, NEW call \in CallRecord, Onward(s, call),
             UNCHANGED <<cStatus, cCool, cCount, cGateway>>
      PROVE  CallsInv'
  <2>1. PICK new \in CallRecord :
          /\ cCall' = [cCall EXCEPT ![s] = new] /\ new.who \notin new.left
          /\ \/ new = NoCall
             \/ new.at = "queued" /\ new.who \in call.left /\ ~SkippedFor(new.who, call)
    BY <1>a, OnwardMoves
  <2>2. call.left \subseteq Providers
    BY DEF CallRecord
  <2>3. new.at \in {"queued", "asking"} => new.who \in Providers
    BY <1>n, <2>1, <2>2
  <2>4. \A p \in Providers : new.who = p => cCount[p] <= PerWindow - 1
    BY <1>0, <1>n, <2>1, <2>2, RoomInTheWindow
  <2> QED BY <1>0, <1>a, <2>1, <2>3, <2>4, OneCallMoves
<1>b. ASSUME NEW s \in Steps, NEW new \in CallRecord, cCall' = [cCall EXCEPT ![s] = new],
             new.who = cCall[s].who \/ new.who = Nowhere, new.who \notin new.left,
             new.at \in {"queued", "asking"} => new.who \in Providers,
             UNCHANGED <<cStatus, cCool, cCount, cGateway>>
      PROVE  CallsInv'
  <2>1. \A p \in Providers : cCount'[p] = cCount[p] /\ (new.who = p => cCall[s].who = p)
    BY <1>b, <1>n
  <2>2. cCount' \in [Providers -> Nat] /\ cStatus' \in [Providers -> {"ok", "failed", "misconfigured"}]
        /\ cGateway' = cGateway /\ \A p \in cCool' : p \in Providers /\ cStatus'[p] = "failed"
    BY <1>0, <1>b
  <2>3. cCall' = [cCall EXCEPT ![s] = new] /\ new.who \notin new.left
    BY <1>b
  <2>4. new.at \in {"queued", "asking"} => new.who \in Providers
    BY <1>b
  <2>5. \A p \in Providers :
           \/ cCount'[p] = cCount[p] /\ (new.who = p => cCall[s].who = p \/ cCount[p] <= PerWindow - 1)
           \/ cCount'[p] = cCount[p] + 1 /\ cCall[s].who = p /\ new.who # p
    BY <2>1
  <2> QED BY <2>2, <2>3, <2>4, <2>5, OneCallMoves
<1>1. ASSUME NEW s \in Steps, NEW named \in BOOLEAN, NEW urgent \in BOOLEAN, Chat(s, named, urgent)
      PROVE  CallsInv'
  <2> DEFINE call == [NoCall EXCEPT !.named = named, !.urgent = urgent]
  <2>1. UNCHANGED <<cStatus, cCool, cCount, cGateway>> /\ cCall[s] = NoCall
    BY <1>1 DEF Chat
  <2>2. call \in CallRecord /\ call.who = Nowhere
    BY <1>n DEF CallRecord
  <2>3. \/ \E p \in Providers : Onward(s, [call EXCEPT !.left = {p}])
        \/ cCall' = [cCall EXCEPT ![s] = [call EXCEPT !.at = "gateway", !.left = Providers]]
        \/ Onward(s, [call EXCEPT !.left = Providers])
    BY <1>1 DEF Chat
  <2> HIDE DEF call
  <2>4. \A left \in SUBSET Providers : [call EXCEPT !.left = left] \in CallRecord
    BY <2>2 DEF CallRecord
  <2>5. CASE \E p \in Providers : Onward(s, [call EXCEPT !.left = {p}])
    BY <1>a, <2>1, <2>4, <2>5
  <2>6. CASE Onward(s, [call EXCEPT !.left = Providers])
    BY <1>a, <2>1, <2>4, <2>6
  <2>7. CASE cCall' = [cCall EXCEPT ![s] = [call EXCEPT !.at = "gateway", !.left = Providers]]
    <3> DEFINE new == [call EXCEPT !.at = "gateway", !.left = Providers]
    <3>1. new \in CallRecord /\ new.who = Nowhere /\ new.at = "gateway" /\ new.left = Providers
      BY <2>2 DEF CallRecord
    <3>2. cCall' = [cCall EXCEPT ![s] = new]
      BY <2>7
    <3> HIDE DEF new
    <3> QED BY <1>b, <1>n, <2>1, <3>1, <3>2
  <2> QED BY <2>3, <2>5, <2>6, <2>7
<1>2. ASSUME NEW s \in Steps, GatewayEnds(s) PROVE CallsInv'
  <2>1. UNCHANGED <<cStatus, cCool, cCount, cGateway>>
    BY <1>2 DEF GatewayEnds
  <2>2. CASE cCall' = [cCall EXCEPT ![s] = NoCall]
    BY <1>b, <1>n, <2>1, <2>2
  <2>3. CASE Onward(s, cCall[s])
    BY <1>0, <1>a, <2>1, <2>3
  <2> QED BY <1>2, <2>2, <2>3 DEF GatewayEnds
<1>3. ASSUME NEW s \in Steps, Enter(s) PROVE CallsInv'
  <2> DEFINE new == [cCall[s] EXCEPT !.at = "asking"]
  <2>1. /\ UNCHANGED <<cStatus, cCool, cCount, cGateway>> /\ cCall[s].at = "queued"
        /\ cCall' = [cCall EXCEPT ![s] = new]
    BY <1>3 DEF Enter
  <2>2. new \in CallRecord /\ new.who = cCall[s].who /\ new.left = cCall[s].left
    BY <1>0 DEF CallRecord
  <2> HIDE DEF new
  <2> QED BY <1>0, <1>b, <2>1, <2>2
<1>4. ASSUME NEW s \in Steps, NEW o \in Outcomes, Answer(s, o) PROVE CallsInv'
  <2> DEFINE p == cCall[s].who
             call == [cCall[s] EXCEPT !.at = "idle", !.who = Nowhere]
  <2>1. p \in Providers /\ Judged(p, o) /\ cCount' = Counted(p, o) /\ cGateway' = cGateway
    BY <1>0, <1>4 DEF Answer
  <2>2. call \in CallRecord /\ call.left = cCall[s].left /\ call.left \subseteq Providers /\ p \notin call.left
    BY <1>0 DEF CallRecord
  <2>3. cCall' = [cCall EXCEPT ![s] = NoCall] \/ Onward(s, call)
    BY <1>4 DEF Answer
  <2>4. p = cCall[s].who
    OBVIOUS
  <2> HIDE DEF p, call
  <2>5. PICK new \in CallRecord :
          /\ cCall' = [cCall EXCEPT ![s] = new] /\ new.who \notin new.left
          /\ \/ new = NoCall
             \/ new.at = "queued" /\ new.who \in call.left /\ ~SkippedFor(new.who, call)
    BY <1>n, <2>2, <2>3, OnwardMoves
  <2>6. new.who # p /\ (new.at \in {"queued", "asking"} => new.who \in Providers)
    BY <1>n, <2>1, <2>2, <2>5
  <2>7. /\ cStatus' \in [Providers -> {"ok", "failed", "misconfigured"}]
        /\ \A q \in cCool' : q \in Providers /\ cStatus'[q] = "failed"
    BY <1>0, <2>1 DEF Judged, Outcomes
  <2>8. cCount' \in [Providers -> Nat]
        /\ \A q \in Providers : cCount'[q] = cCount[q] \/ (q = p /\ cCount'[q] = cCount[q] + 1)
    BY <1>0, <2>1 DEF Counted
  <2>9. \A q \in Providers : new.who = q => cCount[q] <= PerWindow - 1
    BY <1>0, <1>n, <2>2, <2>5, RoomInTheWindow
  <2>10. \A q \in Providers :
           \/ cCount'[q] = cCount[q] /\ (new.who = q => cCall[s].who = q \/ cCount[q] <= PerWindow - 1)
           \/ cCount'[q] = cCount[q] + 1 /\ cCall[s].who = q /\ new.who # q
    BY <2>4, <2>6, <2>8, <2>9
  <2>11. cCount' \in [Providers -> Nat] /\ cGateway' = cGateway
    BY <2>1, <2>8
  <2>12. cCall' = [cCall EXCEPT ![s] = new] /\ new.who \notin new.left
    BY <2>5
  <2>13. new.at \in {"queued", "asking"} => new.who \in Providers
    BY <2>6
  <2> QED BY <2>7, <2>10, <2>11, <2>12, <2>13, OneCallMoves
<1>5. CASE NewWindow
  <2>1. UNCHANGED <<cStatus, cCool, cGateway, cCall>> /\ cCount' = [p \in Providers |-> 0]
    BY <1>5 DEF NewWindow
  <2>2. ASSUME NEW p \in Providers
        PROVE  cCount'[p] + Cardinality(Under(p)') <= PerWindow - 1 + Cardinality(Steps)
    <3>1. Under(p)' \subseteq Steps /\ cCount'[p] = 0 /\ PerWindow \in Nat \ {0} /\ IsFiniteSet(Steps)
      BY <2>1, ProviderCallsAssumption DEF Under
    <3>2. Cardinality(Under(p)') <= Cardinality(Steps) /\ Cardinality(Under(p)') \in Nat /\ Cardinality(Steps) \in Nat
      BY <3>1, FS_Subset, FS_CardinalityType
    <3> QED BY <3>1, <3>2
  <2> QED BY <1>0, <2>1, <2>2 DEF CallsInv, CallsTypeOK, QuotaNearlyKept
<1>6. ASSUME NEW p \in Providers, CooldownEnds(p) PROVE CallsInv'
  BY <1>6 DEF CooldownEnds, CallsInv, CallsTypeOK, QuotaNearlyKept, Under
<1>7. ASSUME NEW p \in Providers, NEW o \in Outcomes, SelfTest(p, o) PROVE CallsInv'
  <2>1. UNCHANGED <<cCount, cGateway, cCall>> /\ Judged(p, o)
    BY <1>7 DEF SelfTest
  <2>2. /\ cStatus' \in [Providers -> {"ok", "failed", "misconfigured"}]
        /\ \A q \in cCool' : q \in Providers /\ cStatus'[q] = "failed"
    BY <1>0, <2>1 DEF Judged, Outcomes
  <2> QED BY <2>1, <2>2 DEF CallsInv, CallsTypeOK, QuotaNearlyKept, Under
<1>8. CASE UNCHANGED cVars
  BY <1>8 DEF cVars, CallsInv, CallsTypeOK, QuotaNearlyKept, Under
<1> QED BY <1>1, <1>2, <1>3, <1>4, <1>5, <1>6, <1>7, <1>8 DEF CallsNext

\* registry.js: nobody calls yet, and nothing is counted.
LEMMA CallsBegin == CallsInit => CallsInv
<1> SUFFICES ASSUME CallsInit PROVE CallsInv
  OBVIOUS
<1>1. CallsTypeOK
  BY NowhereAssumption, ProviderCallsAssumption DEF CallsInit, CallsTypeOK, NoCall
<1>2. \A s \in Steps : cCall[s].who = Nowhere /\ cCall[s].at = "idle" /\ cCall[s].left = {}
  BY DEF CallsInit, NoCall
<1>3. \A p \in Providers : Under(p) = {} /\ cCount[p] = 0
  BY <1>2, NowhereAssumption DEF Under, CallsInit
<1>4. Cardinality({}) = 0 /\ Cardinality(Steps) \in Nat /\ PerWindow \in Nat \ {0}
  BY FS_EmptySet, FS_CardinalityType, ProviderCallsAssumption
<1> QED BY <1>1, <1>2, <1>3, <1>4 DEF CallsInv, QuotaNearlyKept

\* quota.js:81-103: for any number of callers and providers, calls that look at the ledger before
\* one of them is counted overspend a window by at most one call each, and none that looks late.
THEOREM QuotaIsNearlyKept == CallsSpec => [](CallsTypeOK /\ QuotaNearlyKept)
<1>1. CallsInit => CallsInv
  BY CallsBegin
<1>2. CallsInv => CallsTypeOK /\ QuotaNearlyKept
  BY DEF CallsInv
<1> QED BY <1>1, <1>2, CallsInductive, PTL DEF CallsSpec

\* health.js: a step that leaves the self-test aside neither clears a refused key nor lets a call
\* through to its provider, once no call is still there.
LEMMA RefusedKeyStep ==
  ASSUME CallsInv, [CallsNext]_cVars, NEW p \in Providers, cStatus[p] = "misconfigured", Under(p) = {}
  PROVE  \/ cStatus'[p] = "misconfigured" /\ Under(p)' = {}
         \/ \E o \in Outcomes : SelfTest(p, o)
<1>0. /\ CallsTypeOK /\ cCall \in [Steps -> CallRecord]
      /\ cStatus \in [Providers -> {"ok", "failed", "misconfigured"}]
      /\ \A s \in Steps : cCall[s].at \in {"queued", "asking"} => cCall[s].who \in Providers
  BY DEF CallsInv, CallsTypeOK, CallRecord
<1>n. NoCall \in CallRecord /\ NoCall.who # p
  BY NowhereAssumption, ProviderCallsAssumption DEF NoCall, CallRecord
<1>u. \A s \in Steps : cCall[s].who # p
  BY DEF Under
<1>a. ASSUME NEW s \in Steps, NEW new, cCall' = [cCall EXCEPT ![s] = new], new.who # p
      PROVE  Under(p)' = {}
  <2>1. \A t \in Steps : cCall'[t].who # p
    BY <1>0, <1>u, <1>a
  <2> QED BY <2>1 DEF Under
<1>b. ASSUME NEW s \in Steps, NEW call \in CallRecord, Onward(s, call)
      PROVE  Under(p)' = {}
  <2>1. PICK new \in CallRecord :
          /\ cCall' = [cCall EXCEPT ![s] = new]
          /\ \/ new = NoCall
             \/ ~SkippedFor(new.who, call)
    BY <1>b, OnwardMoves
  <2>2. new.who # p
    BY <1>n, <2>1 DEF SkippedFor
  <2> QED BY <1>a, <2>1, <2>2
<1>1. ASSUME NEW s \in Steps, NEW named \in BOOLEAN, NEW urgent \in BOOLEAN, Chat(s, named, urgent)
      PROVE  cStatus'[p] = "misconfigured" /\ Under(p)' = {}
  <2> DEFINE call == [NoCall EXCEPT !.named = named, !.urgent = urgent]
  <2>1. cStatus' = cStatus
    BY <1>1 DEF Chat
  <2>2. call \in CallRecord /\ call.who # p
    BY <1>n DEF CallRecord
  <2>3. \/ \E q \in Providers : Onward(s, [call EXCEPT !.left = {q}])
        \/ cCall' = [cCall EXCEPT ![s] = [call EXCEPT !.at = "gateway", !.left = Providers]]
        \/ Onward(s, [call EXCEPT !.left = Providers])
    BY <1>1 DEF Chat
  <2> HIDE DEF call
  <2>4. \A left \in SUBSET Providers : [call EXCEPT !.left = left] \in CallRecord
    BY <2>2 DEF CallRecord
  <2>5. [call EXCEPT !.at = "gateway", !.left = Providers].who # p
    BY <2>2 DEF CallRecord
  <2>6. CASE \E q \in Providers : Onward(s, [call EXCEPT !.left = {q}])
    BY <1>b, <2>1, <2>4, <2>6
  <2>7. CASE cCall' = [cCall EXCEPT ![s] = [call EXCEPT !.at = "gateway", !.left = Providers]]
    BY <1>a, <2>1, <2>5, <2>7
  <2>8. CASE Onward(s, [call EXCEPT !.left = Providers])
    BY <1>b, <2>1, <2>4, <2>8
  <2> QED BY <2>3, <2>6, <2>7, <2>8
<1>2. ASSUME NEW s \in Steps, GatewayEnds(s) PROVE cStatus'[p] = "misconfigured" /\ Under(p)' = {}
  BY <1>0, <1>2, <1>a, <1>b, <1>n DEF GatewayEnds
<1>3. ASSUME NEW s \in Steps, Enter(s) PROVE cStatus'[p] = "misconfigured" /\ Under(p)' = {}
  <2>1. [cCall[s] EXCEPT !.at = "asking"].who # p
    BY <1>0, <1>u DEF CallRecord
  <2>2. cCall' = [cCall EXCEPT ![s] = [cCall[s] EXCEPT !.at = "asking"]] /\ cStatus' = cStatus
    BY <1>3 DEF Enter
  <2> QED BY <1>a, <2>1, <2>2
<1>4. ASSUME NEW s \in Steps, NEW o \in Outcomes, Answer(s, o)
      PROVE  cStatus'[p] = "misconfigured" /\ Under(p)' = {}
  <2> DEFINE call == [cCall[s] EXCEPT !.at = "idle", !.who = Nowhere]
  <2>1. Judged(cCall[s].who, o)
    BY <1>4 DEF Answer
  <2>2. cStatus'[p] = "misconfigured"
    BY <1>0, <1>u, <2>1 DEF Judged
  <2>3. call \in CallRecord
    BY <1>0 DEF CallRecord
  <2>4. cCall' = [cCall EXCEPT ![s] = NoCall] \/ Onward(s, call)
    BY <1>4 DEF Answer
  <2> HIDE DEF call
  <2> QED BY <1>a, <1>b, <1>n, <2>2, <2>3, <2>4
<1>5. CASE NewWindow
  BY <1>5 DEF NewWindow, Under
<1>6. ASSUME NEW q \in Providers, CooldownEnds(q) PROVE cStatus'[p] = "misconfigured" /\ Under(p)' = {}
  BY <1>6 DEF CooldownEnds, Under
<1>7. ASSUME NEW q \in Providers, NEW o \in Outcomes \ {"aborted"}, SelfTest(q, o), q # p
      PROVE  cStatus'[p] = "misconfigured" /\ Under(p)' = {}
  BY <1>0, <1>7 DEF SelfTest, Judged, Under
<1>8. CASE UNCHANGED cVars
  BY <1>8 DEF cVars, Under
<1> QED BY <1>1, <1>2, <1>3, <1>4, <1>5, <1>6, <1>7, <1>8 DEF CallsNext

\* health.js:172: for any callers and providers, only the self-test brings a refused key back.
THEOREM RefusedKeysStayOut == CallsSpec => RejectedKeyStaysOut
<1>1. CallsSpec => []CallsInv
  <2>1. CallsInit => CallsInv
    BY CallsBegin
  <2> QED BY <2>1, CallsInductive, PTL DEF CallsSpec
<1>2. CallsInv /\ [CallsNext]_cVars
        => \A p \in Providers :
             cStatus[p] = "misconfigured" /\ Under(p) = {}
               => \/ cStatus'[p] = "misconfigured" /\ Under(p)' = {}
                  \/ \E o \in Outcomes : SelfTest(p, o)
  BY RefusedKeyStep
<1> QED BY <1>1, <1>2, PTL DEF CallsSpec, RejectedKeyStaysOut
-----------------------------------------------------------------------------
(***************************************************************************)
(* RunRecords: archive.js, prune.js, checkpointer.js                       *)
(***************************************************************************)

RollJob == [at : {"none", "work", "rolling", "writing", "done"},
            roll : SUBSET Records, delete : SUBSET Records, write : SUBSET Records]

\* What a state directory has, and what a write of an archive that did not end took from it.
Kept(dir) == Held(dir) \cup dir.cut
CutIsTorn(dir) == \A r \in dir.cut : MonthOf[r] \in dir.torn

\* What is to be deleted is in the archive, or in what is being written there, and that has all that
\* the write has taken away until it ends.
JobOK(job, here) ==
  /\ job \in RollJob
  /\ job.delete # {} => job.at \in {"rolling", "writing"}
  /\ job.at # "writing" => job.delete \subseteq here.archived
  /\ job.at = "writing" => /\ job.delete \subseteq job.write
                           /\ \A r \in here.cut : MonthOf[r] \in MonthsOf(job.write) => r \in job.write

\* A job that is to publish has all that is published.
RecordsInv ==
  /\ fHere \in Store /\ fRepo \in Store /\ fLocal \in BOOLEAN /\ fMade \in 0..MaxRecords
  /\ CutIsTorn(fHere) /\ CutIsTorn(fRepo)
  /\ JobOK(fJob, fHere)
  /\ ~fLocal /\ fJob.at # "none" => Kept(fRepo) \subseteq Kept(fHere)
  /\ RunNeverLost

\* archive.js: a change of the checkout that drops nothing from it keeps the records.
LEMMA NothingDropped ==
  ASSUME RecordsInv, NEW here \in Store, Kept(fHere) \subseteq Kept(here), CutIsTorn(here), fHere' = here,
         fSafe' \subseteq fSafe \cup (IF fLocal THEN Kept(here) ELSE {}),
         UNCHANGED <<fRepo, fLocal>>, fMade' \in 0..MaxRecords,
         JobOK(fJob', here), fJob.at # "none"
  PROVE  RecordsInv'
<1>1. Kept(fHere)' = Kept(here) /\ Kept(fRepo)' = Kept(fRepo)
  BY DEF Kept, Held
<1>2. CutIsTorn(fHere)' /\ CutIsTorn(fRepo)'
  BY DEF CutIsTorn, RecordsInv
<1>3. fSafe \subseteq Kept(IF fLocal THEN fHere ELSE fRepo)
  BY DEF RecordsInv, RunNeverLost, Kept
<1>4. fSafe' \subseteq Kept(IF fLocal THEN here ELSE fRepo)
  BY <1>3
<1>5. RunNeverLost'
  BY <1>4 DEF RunNeverLost, Kept, Held
<1>6. JobOK(fJob, fHere)'
  BY DEF JobOK
<1>7. (~fLocal /\ fJob.at # "none" => Kept(fRepo) \subseteq Kept(fHere))'
  BY <1>1 DEF RecordsInv
<1> QED BY <1>2, <1>5, <1>6, <1>7 DEF RecordsInv

\* Nor does a step that leaves the stores alone, or a checkout of what was published.
LEMMA StoresStay ==
  ASSUME RecordsInv, fHere' \in {fHere, IF fLocal THEN fHere ELSE fRepo},
         UNCHANGED <<fRepo, fLocal, fSafe>>, fMade' \in 0..MaxRecords, JobOK(fJob', fHere'),
         ~fLocal /\ fJob'.at # "none" => fJob.at # "none" \/ fHere' = fRepo
  PROVE  RecordsInv'
<1>1. fHere' \in Store /\ CutIsTorn(fHere') /\ (~fLocal /\ fJob'.at # "none" => Kept(fRepo) \subseteq Kept(fHere'))
  BY DEF RecordsInv
<1>2. CutIsTorn(fHere)' /\ CutIsTorn(fRepo)' /\ JobOK(fJob, fHere)'
  BY <1>1 DEF CutIsTorn, RecordsInv, JobOK
<1>3. RunNeverLost'
  BY DEF RunNeverLost, RecordsInv, Held
<1>4. (~fLocal /\ fJob.at # "none" => Kept(fRepo) \subseteq Kept(fHere))'
  BY <1>1 DEF Kept, Held
<1> QED BY <1>1, <1>2, <1>3, <1>4 DEF RecordsInv

\* archive.js, prune.js, checkpointer.js: every step keeps the records, one that fails or dies too.
LEMMA RecordsInductive == RecordsInv /\ [RecordsNext]_fVars => RecordsInv'
<1> SUFFICES ASSUME RecordsInv, [RecordsNext]_fVars PROVE RecordsInv'
  OBVIOUS
<1>0. /\ fHere \in Store /\ fRepo \in Store /\ fJob \in RollJob /\ fMade \in 0..MaxRecords
      /\ fHere.files \subseteq Records /\ fHere.archived \subseteq Records /\ fHere.cut \subseteq Records
      /\ fHere.torn \subseteq MonthsOf(Records)
      /\ fJob.roll \subseteq Records /\ fJob.delete \subseteq Records /\ fJob.write \subseteq Records
      /\ JobOK(fJob, fHere) /\ CutIsTorn(fHere)
  BY DEF RecordsInv, Store, JobOK, RollJob
<1>n. ASSUME NEW here PROVE JobOK(NoJobYet, here) /\ JobOK([NoJobYet EXCEPT !.at = "done"], here)
  BY DEF NoJobYet, JobOK, RollJob
<1>m. NoJobYet.at = "none"
  BY DEF NoJobYet
<1>k. \A here : Keep(here) => fHere' = here /\ fSafe' \subseteq fSafe \cup (IF fLocal THEN Kept(here) ELSE {})
  BY DEF Keep, Kept
<1>1. CASE JobStarts
  <2>1. fJob.at = "none" /\ fJob' = [fJob EXCEPT !.at = "work"] /\ fHere' = (IF fLocal THEN fHere ELSE fRepo)
        /\ UNCHANGED <<fRepo, fLocal, fMade, fSafe>>
    BY <1>1 DEF JobStarts
  <2>2. fJob.delete = {}
    BY <1>0, <2>1 DEF JobOK
  <2>3. JobOK(fJob', fHere')
    BY <1>0, <2>1, <2>2 DEF JobOK, RollJob
  <2> QED BY <1>0, <2>1, <2>3, StoresStay
<1>2. CASE WriteRecord
  <2> DEFINE here == [fHere EXCEPT !.files = @ \cup {fMade'}]
  <2>1. fJob' = fJob /\ fJob.at = "work" /\ Keep(here) /\ UNCHANGED <<fRepo, fLocal>>
    BY <1>2 DEF WriteRecord
  <2>2. fMade' \in Records /\ fMade' \in 0..MaxRecords
    BY <1>2, RunRecordsAssumption DEF WriteRecord, RecordsInv, Records
  <2>3. /\ here \in Store /\ here.files = fHere.files \cup {fMade'} /\ here.archived = fHere.archived
        /\ here.cut = fHere.cut /\ here.torn = fHere.torn
    BY <1>0, <2>2 DEF Store
  <2> HIDE DEF here
  <2>4. Kept(fHere) \subseteq Kept(here) /\ CutIsTorn(here)
    BY <1>0, <2>3 DEF Kept, Held, CutIsTorn
  <2>5. JobOK(fJob', here)
    BY <1>0, <2>1, <2>3 DEF JobOK
  <2> QED BY <1>k, <2>1, <2>2, <2>3, <2>4, <2>5, NothingDropped
<1>3. CASE DaysPass
  <2>1. UNCHANGED <<fHere, fRepo, fLocal, fMade, fJob, fSafe>>
    BY <1>3 DEF DaysPass
  <2> QED BY <1>0, <2>1, StoresStay
<1>4. CASE BeginRoll
  <2>1. fJob.at = "work" /\ fJob' = [fJob EXCEPT !.at = "rolling", !.roll = OldFiles(fHere.files)]
        /\ UNCHANGED <<fHere, fRepo, fLocal, fMade, fSafe>>
    BY <1>4 DEF BeginRoll
  <2>2. OldFiles(fHere.files) \subseteq Records
    BY <1>0 DEF OldFiles
  <2>3. JobOK(fJob', fHere)
    BY <1>0, <2>1, <2>2 DEF JobOK, RollJob
  <2> QED BY <1>0, <2>1, <2>3, StoresStay
<1>5. CASE ArchiveMonth
  <2>1. PICK month \in MonthsOf(fJob.roll) \ fHere.torn :
          LET batch == Of(month, fJob.roll)
              before == Of(month, fHere.archived)
              merged == Merged(before, batch) IN
          IF merged = before
          THEN fJob' = [fJob EXCEPT !.roll = @ \ batch, !.delete = batch] /\ UNCHANGED fHere
          ELSE /\ fJob' = [fJob EXCEPT !.at = "writing", !.roll = @ \ batch, !.delete = batch, !.write = merged]
               /\ fHere' = [fHere EXCEPT !.archived = @ \ before, !.torn = @ \cup {month}, !.cut = @ \cup before]
    BY <1>5 DEF ArchiveMonth
  <2>2. fJob.at = "rolling" /\ UNCHANGED <<fRepo, fLocal, fMade, fSafe>>
    BY <1>5 DEF ArchiveMonth
  <2> DEFINE batch == Of(month, fJob.roll)
             before == Of(month, fHere.archived)
             merged == before \cup batch
             here == [fHere EXCEPT !.archived = @ \ before, !.torn = @ \cup {month}, !.cut = @ \cup before]
  <2>3. /\ batch \subseteq fJob.roll /\ batch \subseteq Records /\ before \subseteq Records /\ merged \subseteq Records
        /\ before \subseteq fHere.archived
        /\ \A r \in merged : MonthOf[r] = month
        /\ month \in MonthsOf(Records) /\ month \notin fHere.torn
    BY <1>0 DEF Of, MonthsOf
  <2>4. merged = Merged(before, batch)
    BY DEF Merged
  <2> HIDE DEF batch, before
  <2>5. CASE merged = before
    <3>1. fJob' = [fJob EXCEPT !.roll = @ \ batch, !.delete = batch] /\ fHere' = fHere
      BY <2>1, <2>4, <2>5 DEF batch, before
    <3>2. fJob' \in RollJob /\ fJob'.at = "rolling" /\ fJob'.delete = batch
      BY <1>0, <2>2, <2>3, <3>1 DEF RollJob
    <3>3. JobOK(fJob', fHere)
      BY <2>3, <2>5, <3>2 DEF JobOK
    <3> QED BY <1>0, <2>2, <3>1, <3>3, StoresStay
  <2>6. CASE merged # before
    <3>1. fJob' = [fJob EXCEPT !.at = "writing", !.roll = @ \ batch, !.delete = batch, !.write = merged]
          /\ fHere' = here
      BY <2>1, <2>4, <2>6 DEF batch, before
    <3>2. fJob' \in RollJob /\ fJob'.at = "writing" /\ fJob'.delete = batch /\ fJob'.write = merged
      BY <1>0, <2>2, <2>3, <3>1 DEF RollJob
    <3>3. /\ here \in Store /\ here.files = fHere.files /\ here.archived = fHere.archived \ before
          /\ here.torn = fHere.torn \cup {month} /\ here.cut = fHere.cut \cup before
      BY <1>0, <2>3 DEF Store
    <3> HIDE DEF here
    <3>4. Kept(fHere) \subseteq Kept(here)
      BY <3>3 DEF Kept, Held
    <3>5. CutIsTorn(here)
      BY <1>0, <2>3, <3>3 DEF CutIsTorn
    <3>6. \A r \in here.cut : MonthOf[r] \in MonthsOf(merged) => r \in merged
      <4>1. MonthsOf(merged) \subseteq {month}
        BY <2>3 DEF MonthsOf
      <4> QED BY <1>0, <2>3, <3>3, <4>1 DEF CutIsTorn
    <3>7. JobOK(fJob', here)
      BY <3>2, <3>6 DEF JobOK
    <3> QED BY <1>0, <2>2, <3>1, <3>3, <3>4, <3>5, <3>7, NothingDropped
  <2> QED BY <2>5, <2>6
<1>11. CASE ArchiveWritten
  <2> DEFINE months == MonthsOf(fJob.write)
             here == [fHere EXCEPT !.archived = @ \cup fJob.write, !.torn = @ \ months,
                                   !.cut = {r \in @ : MonthOf[r] \notin months}]
  <2>1. /\ fJob.at = "writing" /\ Keep(here) /\ fJob' = [fJob EXCEPT !.at = "rolling", !.write = {}]
        /\ UNCHANGED <<fRepo, fLocal, fMade>>
    BY <1>11 DEF ArchiveWritten
  <2>2. /\ here \in Store /\ here.files = fHere.files /\ here.archived = fHere.archived \cup fJob.write
        /\ here.torn = fHere.torn \ months /\ here.cut = {r \in fHere.cut : MonthOf[r] \notin months}
    <3> HIDE DEF months
    <3> QED BY <1>0 DEF Store
  <2> HIDE DEF here
  <2>3. fJob' \in RollJob /\ fJob'.at = "rolling" /\ fJob'.delete = fJob.delete
    BY <1>0, <2>1 DEF RollJob
  <2>4. fJob.delete \subseteq fJob.write /\ \A r \in fHere.cut : MonthOf[r] \in months => r \in fJob.write
    BY <1>0, <2>1 DEF JobOK
  <2> HIDE DEF months
  <2>5. Kept(fHere) \subseteq Kept(here)
    BY <2>2, <2>4 DEF Kept, Held
  <2>6. CutIsTorn(here)
    BY <1>0, <2>2 DEF CutIsTorn
  <2>7. JobOK(fJob', here)
    BY <2>2, <2>3, <2>4 DEF JobOK
  <2> QED BY <1>0, <1>k, <2>1, <2>2, <2>5, <2>6, <2>7, NothingDropped
<1>6. ASSUME NEW r \in Records, DeleteFile(r) PROVE RecordsInv'
  <2> DEFINE here == [fHere EXCEPT !.files = @ \ {r}]
  <2>1. /\ Keep(here) /\ r \in fJob.delete /\ fJob.at = "rolling" /\ fJob' = [fJob EXCEPT !.delete = @ \ {r}]
        /\ UNCHANGED <<fRepo, fLocal, fMade>>
    BY <1>6 DEF DeleteFile
  <2>2. /\ here \in Store /\ here.files = fHere.files \ {r} /\ here.archived = fHere.archived
        /\ here.cut = fHere.cut /\ here.torn = fHere.torn
    BY <1>0 DEF Store
  <2> HIDE DEF here
  <2>3. r \in fHere.archived
    BY <1>0, <2>1 DEF JobOK
  <2>4. fJob' \in RollJob /\ fJob'.at = "rolling" /\ fJob'.delete \subseteq fJob.delete
    BY <1>0, <2>1 DEF RollJob
  <2>5. Kept(fHere) \subseteq Kept(here) /\ CutIsTorn(here)
    BY <1>0, <2>2, <2>3 DEF Kept, Held, CutIsTorn
  <2>6. JobOK(fJob', here)
    BY <1>0, <2>1, <2>2, <2>4 DEF JobOK
  <2> QED BY <1>0, <1>k, <2>1, <2>2, <2>5, <2>6, NothingDropped
<1>7. CASE RollEnds
  <2>1. fJob' = [NoJobYet EXCEPT !.at = "done"] /\ fJob.at # "none"
        /\ UNCHANGED <<fHere, fRepo, fLocal, fMade, fSafe>>
    BY <1>7 DEF RollEnds
  <2> QED BY <1>0, <1>n, <2>1, StoresStay
<1>8. ASSUME NEW pushed \in BOOLEAN, Publish(pushed) PROVE RecordsInv'
  <2>1. fJob.at = "done" /\ fJob' = NoJobYet /\ UNCHANGED <<fHere, fLocal, fMade>>
    BY <1>8 DEF Publish
  <2>2. CASE pushed /\ ~fLocal
    <3>1. fRepo' = fHere /\ fSafe' = fSafe \cup Held(fHere)
      BY <1>8, <2>2 DEF Publish
    <3>2. fSafe \subseteq Kept(fHere)
      BY <2>1, <2>2 DEF RecordsInv, RunNeverLost, Kept
    <3>3. RunNeverLost'
      BY <2>1, <2>2, <3>1, <3>2 DEF RunNeverLost, Kept, Held
    <3>4. CutIsTorn(fHere)' /\ CutIsTorn(fRepo)' /\ JobOK(fJob, fHere)' /\ fJob'.at = "none"
      BY <1>0, <1>m, <1>n, <2>1, <3>1 DEF CutIsTorn, JobOK
    <3> QED BY <1>0, <2>1, <3>1, <3>3, <3>4 DEF RecordsInv
  <2>3. CASE ~(pushed /\ ~fLocal)
    <3>1. UNCHANGED <<fRepo, fSafe>>
      BY <1>8, <2>3 DEF Publish
    <3> QED BY <1>0, <1>m, <1>n, <2>1, <3>1, StoresStay
  <2> QED BY <2>2, <2>3
<1>9. CASE JobDies
  <2>1. fJob' = NoJobYet /\ UNCHANGED <<fHere, fRepo, fLocal, fMade, fSafe>>
    BY <1>9 DEF JobDies
  <2> QED BY <1>0, <1>m, <1>n, <2>1, StoresStay
<1>10. CASE UNCHANGED fVars
  BY <1>0, <1>10, StoresStay DEF fVars
<1> QED BY <1>1, <1>2, <1>3, <1>4, <1>5, <1>6, <1>7, <1>8, <1>9, <1>10, <1>11 DEF RecordsNext

\* prune.js:6: for any number of records and months, a record once published, or written where the
\* state lasts, stays in its file or in the archive, whatever step fails or dies; only a write of the
\* archive it was in that began and did not end (archive.js:48) takes it away.
THEOREM NoRunIsLost == RecordsSpec => []RunNeverLost
<1>1. RecordsInit => RecordsInv
  <2> SUFFICES ASSUME RecordsInit PROVE RecordsInv
    OBVIOUS
  <2>1. fHere \in Store /\ fRepo = fHere /\ fSafe = {} /\ fJob = NoJobYet /\ fLocal \in BOOLEAN
        /\ fMade \in 0..MaxRecords
    BY RunRecordsAssumption DEF RecordsInit, Store
  <2>2. fHere.cut = {}
    BY DEF RecordsInit
  <2>3. JobOK(NoJobYet, fHere) /\ NoJobYet.at = "none"
    BY DEF NoJobYet, JobOK, RollJob
  <2> QED BY <2>1, <2>2, <2>3 DEF RecordsInv, RunNeverLost, CutIsTorn
<1>2. RecordsInv => RunNeverLost
  BY DEF RecordsInv
<1> QED BY <1>1, <1>2, RecordsInductive, PTL DEF RecordsSpec
-----------------------------------------------------------------------------
(***************************************************************************)
(* UsageReports: ops/usageReporter.js, POST /ops/usage                     *)
(***************************************************************************)

InLedger(r, n) == \A k \in uGood[<<r, n>>] : uRows[r][k] = 1

UsageShape ==
  /\ uBatch \in [Reporters -> SUBSET Kinds] /\ uPending \in [Reporters -> SUBSET Kinds]
  /\ uStage \in [Reporters -> {"counting", "waiting", "sent", "dropped", "killed"}]
  /\ uAsked \in [Reporters -> {0} \cup Posted]
  /\ uPost \in [Reporters \X Posted -> {"away", "arrived", "inserted", "answered", "cut"}]
  /\ uGood \in [Reporters \X Posted -> SUBSET Kinds]
  /\ uRows \in [Reporters -> [Kinds -> 0..1]]

LedgerFits(r) ==
  /\ \A k \in Kinds : uRows[r][k] = 1 => \E n \in Posted : k \in uGood[<<r, n>>]
  /\ \A n \in Posted : InLedger(r, n)

ReporterFits(r) ==
  /\ uStage[r] = "counting" => uAsked[r] = 0
  /\ uStage[r] = "waiting" => uAsked[r] \in Posted
  /\ uStage[r] = "sent" => uAsked[r] \in Posted /\ uPost[<<r, uAsked[r]>>] = "answered"

TryFits(r, n) ==
  /\ uAsked[r] = 0 => uPost[<<r, n>>] = "away"
  /\ uPost[<<r, n>>] \in {"away", "arrived"} => uGood[<<r, n>>] = {}

\* No try is under way before the batch is fixed, one that has not reached the insertion had no record
\* found valid, every record found valid is in the ledger and none else, and a reporter that believes
\* its batch sent has the answer of its last try.
UsageInv ==
  /\ UsageShape
  /\ \A r \in Reporters : LedgerFits(r) /\ ReporterFits(r) /\ \A n \in Posted : TryFits(r, n)

\* The ledger fits as long as it stays and what was found valid stays.
LEMMA LedgerStays ==
  ASSUME UsageInv, UNCHANGED <<uGood, uRows>>
  PROVE  \A r \in Reporters : LedgerFits(r)'
BY DEF UsageInv, LedgerFits, InLedger

\* A try of r moves on and the rest stays as it was.
LEMMA OneTryMoves ==
  ASSUME UsageInv, NEW r \in Reporters, NEW n \in Posted, NEW stage,
         stage \in {"arrived", "inserted", "answered", "cut"}, uPost' = [uPost EXCEPT ![<<r, n>>] = stage],
         uAsked[r] # 0, UNCHANGED <<uPending, uBatch, uStage, uAsked, uGood, uRows>>,
         uPost[<<r, n>>] # "answered", stage = "arrived" => uPost[<<r, n>>] = "away"
  PROVE  UsageInv'
<1>1. uPost' \in [Reporters \X Posted -> {"away", "arrived", "inserted", "answered", "cut"}]
  BY DEF UsageInv, UsageShape
<1>2. \A q \in Reporters, m \in Posted :
        uPost'[<<q, m>>] = IF q = r /\ m = n THEN stage ELSE uPost[<<q, m>>]
  BY DEF UsageInv, UsageShape
<1>3. UsageShape'
  BY <1>1 DEF UsageInv, UsageShape
<1>4. \A q \in Reporters : ReporterFits(q)'
  BY <1>2 DEF UsageInv, ReporterFits
<1>5. ASSUME NEW q \in Reporters, NEW m \in Posted PROVE TryFits(q, m)'
  <2>1. TryFits(q, m) /\ TryFits(r, n)
    BY DEF UsageInv
  <2> QED BY <1>2, <2>1 DEF TryFits
<1> QED BY <1>3, <1>4, <1>5, LedgerStays DEF UsageInv

\* A reporter moves on, which has asked no less and whose batch is the same.
LEMMA OneReporterMoves ==
  ASSUME UsageInv, NEW r \in Reporters, NEW stage, stage \in {"waiting", "sent", "dropped", "killed"},
         NEW asked \in {0} \cup Posted,
         uStage' = [uStage EXCEPT ![r] = stage], uAsked' = [uAsked EXCEPT ![r] = asked],
         uPending' \in [Reporters -> SUBSET Kinds], UNCHANGED <<uBatch, uPost, uGood, uRows>>,
         asked = uAsked[r] \/ asked # 0, stage = "waiting" => asked # 0, stage = "sent" => uPost[<<r, asked>>] = "answered" /\ asked \in Posted
  PROVE  UsageInv'
<1>1. /\ uStage' \in [Reporters -> {"counting", "waiting", "sent", "dropped", "killed"}]
      /\ uAsked' \in [Reporters -> {0} \cup Posted]
  BY DEF UsageInv, UsageShape
<1>2. \A q \in Reporters : /\ uStage'[q] = IF q = r THEN stage ELSE uStage[q]
                           /\ uAsked'[q] = IF q = r THEN asked ELSE uAsked[q]
  BY DEF UsageInv, UsageShape
<1>3. UsageShape'
  BY <1>1 DEF UsageInv, UsageShape
<1>4. \A q \in Reporters : ReporterFits(q)'
  BY <1>2 DEF UsageInv, ReporterFits
<1>5. ASSUME NEW q \in Reporters, NEW m \in Posted PROVE TryFits(q, m)'
  <2>1. TryFits(q, m)
    BY DEF UsageInv
  <2> QED BY <1>2, <2>1 DEF TryFits
<1> QED BY <1>3, <1>4, <1>5, LedgerStays DEF UsageInv

\* usageReporter.js, ops.js: every step of a reporter, of a try and of the Worker keeps it so.
LEMMA UsageInductive == UsageInv /\ [UsageNext]_uVars => UsageInv'
<1> SUFFICES ASSUME UsageInv, [UsageNext]_uVars PROVE UsageInv'
  OBVIOUS
<1>0. /\ uBatch \in [Reporters -> SUBSET Kinds] /\ uPending \in [Reporters -> SUBSET Kinds]
      /\ uStage \in [Reporters -> {"counting", "waiting", "sent", "dropped", "killed"}]
      /\ uAsked \in [Reporters -> {0} \cup Posted]
      /\ uPost \in [Reporters \X Posted -> {"away", "arrived", "inserted", "answered", "cut"}]
      /\ uGood \in [Reporters \X Posted -> SUBSET Kinds]
      /\ uRows \in [Reporters -> [Kinds -> 0..1]]
  BY DEF UsageInv, UsageShape
<1>a. ASSUME NEW r \in Reporters, NEW n \in Posted, uPost[<<r, n>>] # "away" PROVE uAsked[r] # 0
  BY <1>a DEF UsageInv, TryFits
<1>b. \A r \in Reporters : (uStage[r] = "waiting" => uAsked[r] \in Posted) /\ 2 \in Posted /\ 0 \notin Posted
  <2>1. 2 \in Posted /\ 0 \notin Posted
    BY DEF Posted
  <2> QED BY <2>1 DEF UsageInv, ReporterFits
<1>1. ASSUME NEW r \in Reporters, Flush(r) PROVE UsageInv'
  <2>1. PICK batch \in FirstOf(uPending[r]) : uBatch' = [uBatch EXCEPT ![r] = batch]
    BY <1>1 DEF Flush
  <2>2. batch \subseteq Kinds
    BY <1>0, <2>1 DEF FirstOf
  <2>3. /\ uStage[r] = "counting" /\ uStage' = [uStage EXCEPT ![r] = "waiting"]
        /\ uAsked' = [uAsked EXCEPT ![r] = 1] /\ UNCHANGED <<uPending, uPost, uGood, uRows>>
    BY <1>1 DEF Flush, worker
  <2>4. /\ uStage' \in [Reporters -> {"counting", "waiting", "sent", "dropped", "killed"}]
        /\ uAsked' \in [Reporters -> {0} \cup Posted] /\ uBatch' \in [Reporters -> SUBSET Kinds]
    BY <1>0, <2>1, <2>2, <2>3 DEF Posted
  <2>5. /\ uStage'[r] = "waiting" /\ uAsked'[r] = 1
        /\ \A q \in Reporters \ {r} : uStage'[q] = uStage[q] /\ uAsked'[q] = uAsked[q] /\ uBatch'[q] = uBatch[q]
    BY <1>0, <2>1, <2>3
  <2>6. \A n \in Posted : uPost[<<r, n>>] = "away"
    BY <2>3 DEF UsageInv, ReporterFits, TryFits
  <2>7. 1 \in Posted
    BY DEF Posted
  <2>8. UsageShape'
    BY <1>0, <2>3, <2>4 DEF UsageShape
  <2>9. \A q \in Reporters : ReporterFits(q)'
    BY <2>3, <2>5, <2>7 DEF UsageInv, ReporterFits
  <2>10. \A q \in Reporters, n \in Posted : TryFits(q, n)'
    BY <2>3, <2>5, <2>6 DEF UsageInv, TryFits
  <2> QED BY <2>3, <2>8, <2>9, <2>10, LedgerStays DEF UsageInv
<1>2. ASSUME NEW r \in Reporters, GoodAnswer(r) PROVE UsageInv'
  <2>1. /\ uStage[r] = "waiting" /\ uPost[<<r, uAsked[r]>>] = "answered" /\ uStage' = [uStage EXCEPT ![r] = "sent"]
        /\ uPending' = [uPending EXCEPT ![r] = {}] /\ UNCHANGED <<uBatch, uAsked, uPost, uGood, uRows>>
    BY <1>2 DEF GoodAnswer, worker
  <2>2. uAsked[r] \in Posted
    BY <2>1 DEF UsageInv, ReporterFits
  <2>3. uAsked' = [uAsked EXCEPT ![r] = uAsked[r]] /\ uPending' \in [Reporters -> SUBSET Kinds]
    BY <1>0, <2>1
  <2> QED BY <2>1, <2>2, <2>3, OneReporterMoves
<1>3. ASSUME NEW r \in Reporters, NoAnswer(r) PROVE UsageInv'
  <2>0. uStage[r] = "waiting" /\ UNCHANGED <<uBatch, uPost, uGood, uRows>>
    BY <1>3 DEF NoAnswer, worker
  <2>1. uAsked[r] \in Posted /\ UNCHANGED <<uBatch, uPost, uGood, uRows>> /\ 2 \in Posted /\ 0 \notin Posted
    BY <1>b, <2>0
  <2>2. CASE uAsked[r] < 2
    <3>1. uAsked' = [uAsked EXCEPT ![r] = 2] /\ UNCHANGED <<uPending, uStage>>
      BY <1>3, <2>2 DEF NoAnswer
    <3>2. uStage' = [uStage EXCEPT ![r] = "waiting"] /\ uPending' \in [Reporters -> SUBSET Kinds]
      BY <1>0, <2>0, <3>1
    <3> QED BY <2>1, <3>1, <3>2, OneReporterMoves
  <2>3. CASE ~(uAsked[r] < 2)
    <3>1. uStage' = [uStage EXCEPT ![r] = "dropped"] /\ uPending' = [uPending EXCEPT ![r] = {}] /\ uAsked' = uAsked
      BY <1>3, <2>3 DEF NoAnswer
    <3>2. uAsked' = [uAsked EXCEPT ![r] = uAsked[r]] /\ uPending' \in [Reporters -> SUBSET Kinds]
      BY <1>0, <3>1
    <3> QED BY <1>0, <2>1, <3>1, <3>2, OneReporterMoves
  <2> QED BY <2>2, <2>3
<1>4. ASSUME NEW r \in Reporters, RefusedAnswer(r) PROVE UsageInv'
  <2>0. uAsked[r] \in Posted /\ 0 \notin Posted
    BY <1>4, <1>b DEF RefusedAnswer
  <2>1. /\ uPost[<<r, uAsked[r]>>] \in {"away", "arrived"} /\ uStage[r] = "waiting"
        /\ uPost' = [uPost EXCEPT ![<<r, uAsked[r]>>] = "cut"] /\ uStage' = [uStage EXCEPT ![r] = "dropped"]
        /\ uPending' = [uPending EXCEPT ![r] = {}] /\ UNCHANGED <<uBatch, uAsked, uGood, uRows>>
    BY <1>4 DEF RefusedAnswer
  <2>2. /\ uStage' \in [Reporters -> {"counting", "waiting", "sent", "dropped", "killed"}]
        /\ uPost' \in [Reporters \X Posted -> {"away", "arrived", "inserted", "answered", "cut"}]
        /\ uPending' \in [Reporters -> SUBSET Kinds]
    BY <1>0, <2>0, <2>1
  <2>3. \A q \in Reporters, m \in Posted :
          uPost'[<<q, m>>] = IF q = r /\ m = uAsked[r] THEN "cut" ELSE uPost[<<q, m>>]
    BY <1>0, <2>0, <2>1
  <2>4. \A q \in Reporters : uStage'[q] = IF q = r THEN "dropped" ELSE uStage[q]
    BY <1>0, <2>1
  <2>5. UsageShape'
    BY <1>0, <2>1, <2>2 DEF UsageShape
  <2>6. \A q \in Reporters : ReporterFits(q)'
    BY <2>0, <2>1, <2>3, <2>4 DEF UsageInv, ReporterFits
  <2>7. ASSUME NEW q \in Reporters, NEW n \in Posted PROVE TryFits(q, n)'
    <3>1. TryFits(q, n) /\ TryFits(r, uAsked[r])
      BY <2>0 DEF UsageInv
    <3>2. uGood[<<r, uAsked[r]>>] = {}
      BY <2>1, <3>1 DEF TryFits
    <3> QED BY <2>0, <2>1, <2>3, <3>1, <3>2 DEF TryFits
  <2> QED BY <2>1, <2>5, <2>6, <2>7, LedgerStays DEF UsageInv
<1>5. ASSUME NEW r \in Reporters, ReporterKilled(r) PROVE UsageInv'
  <2>1. /\ uStage' = [uStage EXCEPT ![r] = "killed"] /\ uPending' = [uPending EXCEPT ![r] = {}]
        /\ UNCHANGED <<uBatch, uAsked, uPost, uGood, uRows>>
    BY <1>5 DEF ReporterKilled, worker
  <2>2. uAsked' = [uAsked EXCEPT ![r] = uAsked[r]] /\ uPending' \in [Reporters -> SUBSET Kinds]
    BY <1>0, <2>1
  <2> QED BY <1>0, <2>1, <2>2, OneReporterMoves
<1>6. ASSUME NEW r \in Reporters, NEW k \in Kinds, RecordUsage(r, k) PROVE UsageInv'
  <2>1. uPending' = [uPending EXCEPT ![r] = @ \cup {k}] /\ UNCHANGED <<uBatch, uStage, uAsked, uPost, uGood, uRows>>
    BY <1>6 DEF RecordUsage, worker
  <2>2. uPending' \in [Reporters -> SUBSET Kinds]
    BY <1>0, <2>1
  <2>3. UsageShape'
    BY <1>0, <2>1, <2>2 DEF UsageShape
  <2>4. \A q \in Reporters : ReporterFits(q)' /\ \A n \in Posted : TryFits(q, n)'
    BY <2>1 DEF UsageInv, ReporterFits, TryFits
  <2> QED BY <2>1, <2>3, <2>4, LedgerStays DEF UsageInv
<1>7. ASSUME NEW r \in Reporters, NEW n \in Posted, Arrived(r, n) PROVE UsageInv'
  <2>1. /\ n <= uAsked[r] /\ uPost[<<r, n>>] = "away" /\ uPost' = [uPost EXCEPT ![<<r, n>>] = "arrived"]
        /\ UNCHANGED <<uPending, uBatch, uStage, uAsked, uGood, uRows>>
    BY <1>7 DEF Arrived
  <2>2. uAsked[r] # 0
    BY <2>1 DEF Posted
  <2> QED BY <2>1, <2>2, OneTryMoves
<1>8. ASSUME NEW r \in Reporters, NEW n \in Posted, NEW good \in SUBSET Kinds, InsertBatch(r, n, good)
      PROVE  UsageInv'
  <2> DEFINE mine == [k \in Kinds |-> IF k \in Missing(r, good) THEN uRows[r][k] + 1 ELSE uRows[r][k]]
  <2>1. /\ uPost[<<r, n>>] = "arrived" /\ uPost' = [uPost EXCEPT ![<<r, n>>] = "inserted"]
        /\ uRows' = [uRows EXCEPT ![r] = mine] /\ uGood' = [uGood EXCEPT ![<<r, n>>] = good]
        /\ UNCHANGED <<uPending, uBatch, uStage, uAsked>>
    BY <1>8 DEF InsertBatch
  <2>2. \A k \in Kinds : mine[k] = IF k \in good THEN 1 ELSE uRows[r][k]
    <3>1. ASSUME NEW k \in Kinds PROVE mine[k] = IF k \in good THEN 1 ELSE uRows[r][k]
      <4>1. uRows[r][k] \in {0, 1}
        BY <1>0
      <4> QED BY <4>1 DEF Missing
    <3> QED BY <3>1
  <2>3. mine \in [Kinds -> 0..1]
    <3>1. mine = [k \in Kinds |-> mine[k]]
      OBVIOUS
    <3>2. \A k \in Kinds : mine[k] \in 0..1
      BY <1>0, <2>2
    <3> HIDE DEF mine
    <3> QED BY <3>1, <3>2
  <2> HIDE DEF mine
  <2>4. /\ uRows' \in [Reporters -> [Kinds -> 0..1]] /\ uRows'[r] = mine
        /\ \A q \in Reporters \ {r} : uRows'[q] = uRows[q]
    BY <1>0, <2>1, <2>3
  <2>5. \A q \in Reporters, m \in Posted :
          /\ uPost'[<<q, m>>] = IF q = r /\ m = n THEN "inserted" ELSE uPost[<<q, m>>]
          /\ uGood'[<<q, m>>] = IF q = r /\ m = n THEN good ELSE uGood[<<q, m>>]
    BY <1>0, <2>1
  <2>6. /\ uPost' \in [Reporters \X Posted -> {"away", "arrived", "inserted", "answered", "cut"}]
        /\ uGood' \in [Reporters \X Posted -> SUBSET Kinds]
    BY <1>0, <2>1
  <2>7. uAsked[r] # 0
    BY <1>a, <2>1
  <2>8. ASSUME NEW q \in Reporters, NEW m \in Posted PROVE InLedger(q, m)'
    <3>1. InLedger(q, m)
      BY DEF UsageInv, LedgerFits
    <3>2. uGood[<<q, m>>] \subseteq Kinds /\ uGood'[<<q, m>>] = IF q = r /\ m = n THEN good ELSE uGood[<<q, m>>]
      BY <1>0, <2>5
    <3>3. \A k \in Kinds : uRows[q][k] = 1 => uRows'[q][k] = 1
      BY <2>2, <2>4
    <3>4. q = r => \A k \in good : uRows'[q][k] = 1
      BY <2>2, <2>4
    <3> QED BY <3>1, <3>2, <3>3, <3>4 DEF InLedger
  <2>9. ASSUME NEW q \in Reporters, NEW k \in Kinds, uRows'[q][k] = 1
        PROVE  \E m \in Posted : k \in uGood'[<<q, m>>]
    <3>1. uGood[<<r, n>>] = {}
      BY <2>1 DEF UsageInv, TryFits
    <3>2. CASE q = r /\ k \in good
      BY <2>5, <3>2
    <3>3. CASE ~(q = r /\ k \in good)
      <4>1. uRows[q][k] = 1
        BY <2>2, <2>4, <2>9, <3>3
      <4>2. PICK m \in Posted : k \in uGood[<<q, m>>]
        BY <4>1 DEF UsageInv, LedgerFits
      <4>3. CASE q = r /\ m = n
        BY <3>1, <4>2, <4>3
      <4>4. CASE ~(q = r /\ m = n)
        <5>1. uGood'[<<q, m>>] = uGood[<<q, m>>]
          BY <2>5, <4>4
        <5> QED BY <4>2, <5>1
      <4> QED BY <4>3, <4>4
    <3> QED BY <3>2, <3>3
  <2>10. \A q \in Reporters : LedgerFits(q)'
    BY <2>8, <2>9 DEF LedgerFits
  <2>11. \A q \in Reporters : ReporterFits(q)'
    BY <2>1, <2>5 DEF UsageInv, ReporterFits
  <2>12. ASSUME NEW q \in Reporters, NEW m \in Posted PROVE TryFits(q, m)'
    <3>1. TryFits(q, m)
      BY DEF UsageInv
    <3> QED BY <2>1, <2>5, <2>7, <3>1 DEF TryFits
  <2>13. UsageShape'
    BY <1>0, <2>1, <2>4, <2>6 DEF UsageShape
  <2> QED BY <2>10, <2>11, <2>12, <2>13 DEF UsageInv
<1>9. ASSUME NEW r \in Reporters, NEW n \in Posted, AnswerPost(r, n) PROVE UsageInv'
  <2>1. /\ uPost[<<r, n>>] = "inserted" /\ uPost' = [uPost EXCEPT ![<<r, n>>] = "answered"]
        /\ UNCHANGED <<uPending, uBatch, uStage, uAsked, uGood, uRows>>
    BY <1>9 DEF AnswerPost
  <2>2. uAsked[r] # 0
    BY <1>a, <2>1
  <2> QED BY <2>1, <2>2, OneTryMoves
<1>10. ASSUME NEW r \in Reporters, NEW n \in Posted, CutShort(r, n) PROVE UsageInv'
  <2>1. /\ uPost[<<r, n>>] \in {"arrived", "inserted"} /\ uPost' = [uPost EXCEPT ![<<r, n>>] = "cut"]
        /\ UNCHANGED <<uPending, uBatch, uStage, uAsked, uGood, uRows>>
    BY <1>10 DEF CutShort
  <2> QED BY <1>a, <2>1, OneTryMoves
<1>11. ASSUME NEW r \in Reporters, NEW n \in Posted, NEW k \in Kinds, NoteLimit(r, n, k) PROVE UsageInv'
  BY <1>11, LedgerStays DEF NoteLimit, UsageInv, UsageShape, ReporterFits, TryFits
<1>12. CASE UNCHANGED uVars
  BY <1>12, LedgerStays DEF uVars, worker, UsageInv, UsageShape, ReporterFits, TryFits
<1> QED BY <1>1, <1>2, <1>3, <1>4, <1>5, <1>6, <1>7, <1>8, <1>9, <1>10, <1>11, <1>12 DEF UsageNext

\* ops.js, usageReporter.js: for any reporters, kinds of call and size of a batch, and whatever
\* records the Worker rejects at each try, two tries of a batch never count a record twice nor a
\* rejected one, and of a batch believed sent the ledger has what its answer did not reject.
THEOREM UsageCountedOnce == UsageSpec => []CountedOnce
<1>1. UsageInit => UsageInv
  BY DEF UsageInit, UsageInv, UsageShape, LedgerFits, ReporterFits, TryFits, Posted, InLedger
<1>2. UsageInv => CountedOnce
  <2> SUFFICES ASSUME UsageInv, NEW r \in Reporters
               PROVE  /\ \A k \in Kinds : /\ uRows[r][k] <= 1
                                          /\ uRows[r][k] = 1 => \E n \in Posted : k \in uGood[<<r, n>>]
                      /\ uStage[r] = "sent" => \A k \in uGood[<<r, uAsked[r]>>] : uRows[r][k] = 1
    BY DEF CountedOnce
  <2>1. UsageShape /\ LedgerFits(r) /\ ReporterFits(r)
    BY DEF UsageInv
  <2>2. \A k \in Kinds : uRows[r][k] <= 1
    BY <2>1 DEF UsageShape
  <2>3. \A k \in Kinds : uRows[r][k] = 1 => \E n \in Posted : k \in uGood[<<r, n>>]
    BY <2>1 DEF LedgerFits
  <2>4. uStage[r] = "sent" => InLedger(r, uAsked[r])
    BY <2>1 DEF LedgerFits, ReporterFits
  <2> QED BY <2>2, <2>3, <2>4 DEF InLedger
<1> QED BY <1>1, <1>2, UsageInductive, PTL DEF UsageSpec
-----------------------------------------------------------------------------
(***************************************************************************)
(* Checkpointer: checkpointer.js in git mode                               *)
(***************************************************************************)

\* Of a file the pulse wrote, its disk has the last content, which nobody else has yet; of any other
\* file, disk and HEAD agree, and it is missing only where the commit below misses it.
GitInv ==
  /\ gRemote \in [Files -> Nat] /\ gBase \in [Files -> Nat] /\ gHead \in [Files -> Nat]
  /\ gWork \in [Files -> Nat] /\ gWant \in [Files -> Nat]
  /\ gMoved \in BOOLEAN /\ gMine \subseteq Files /\ gFresh \subseteq Files /\ gStamp \in Nat /\ gJobs \in Nat
  /\ \A f \in Files : /\ gRemote[f] <= gStamp /\ gBase[f] <= gStamp /\ gHead[f] <= gStamp
                      /\ gWork[f] <= gStamp /\ gWant[f] <= gStamp
  /\ \A f \in gMine : gWant[f] # 0 => gWork[f] = gWant[f] /\ gRemote[f] # gWant[f] /\ gBase[f] # gWant[f]
  /\ \A f \in Files \ gMine : gWork[f] = gHead[f] /\ (gHead[f] = 0 => gBase[f] = 0)
  /\ gPc # "work" => gHead = gWork
  /\ ~gMoved => gBase = gRemote
  /\ gPc = "push" => \A f \in gFresh \ gMine : gHead[f] = gBase[f]

\* A sync that keeps what the pulse wrote, drops no file that is there, and takes from the remote what
\* the pulse does not have.
LEMMA SyncKeeps ==
  ASSUME GitInv, NEW tree \in [Files -> Nat], Onto(tree), gPc' = "push",
         UNCHANGED <<gRemote, intent, gStamp, gJobs>>,
         \A f \in Files : tree[f] <= gStamp,
         \A f \in gMine : gWant[f] # 0 => tree[f] = gWant[f],
         \A f \in Files \ gMine : /\ tree[f] = 0 => gRemote[f] = 0
                                  /\ gWork[f] = 0 => tree[f] = gRemote[f]
  PROVE  GitInv'
<1>1. /\ gHead' = tree /\ gWork' = tree /\ gBase' = gRemote /\ gMoved' = FALSE
      /\ gRemote' = gRemote /\ gMine' = gMine /\ gWant' = gWant /\ gStamp' = gStamp /\ gJobs' = gJobs
      /\ gFresh' = {f \in Files : gRemote[f] # 0} \ {f \in Files : gWork[f] # 0}
  BY DEF Onto, intent, There
<1>2. gFresh' \subseteq Files /\ \A f \in gFresh' \ gMine : tree[f] = gRemote[f]
  BY <1>1
<1>3. \A f \in Files : tree[f] <= gStamp /\ gRemote[f] <= gStamp /\ gWant[f] <= gStamp
  BY DEF GitInv
<1>4. \A f \in gMine : gWant[f] # 0 => tree[f] = gWant[f] /\ gRemote[f] # gWant[f]
  BY DEF GitInv
<1>5. \A f \in Files \ gMine : tree[f] = 0 => gRemote[f] = 0
  OBVIOUS
<1>6. /\ gRemote \in [Files -> Nat] /\ gWant \in [Files -> Nat] /\ gMine \subseteq Files
      /\ gStamp \in Nat /\ gJobs \in Nat
  BY DEF GitInv
<1> QED BY <1>1, <1>2, <1>3, <1>4, <1>5, <1>6 DEF GitInv

\* checkpointer.js: every command of a checkpoint, every write and every push of others keeps it so.
LEMMA GitInductive == GitInv /\ [CheckpointerNext]_gVars => GitInv'
<1> SUFFICES ASSUME GitInv, [CheckpointerNext]_gVars PROVE GitInv'
  OBVIOUS
<1>0. /\ gRemote \in [Files -> Nat] /\ gBase \in [Files -> Nat] /\ gHead \in [Files -> Nat]
      /\ gWork \in [Files -> Nat] /\ gWant \in [Files -> Nat] /\ gStamp \in Nat /\ gMine \subseteq Files
  BY DEF GitInv
<1>1. ASSUME NEW f \in Files, WriteFile(f) PROVE GitInv'
  <2>1. /\ gPc = "work" /\ gStamp' = gStamp + 1 /\ gWork' = [gWork EXCEPT ![f] = gStamp + 1]
        /\ gMine' = gMine \cup {f} /\ gWant' = [gWant EXCEPT ![f] = gWork'[f]]
        /\ UNCHANGED <<gRemote, gMoved, gBase, gHead, gPc, gFresh, gJobs>>
    BY <1>1 DEF WriteFile
  <2>2. gStamp + 1 \in Nat /\ \A n \in Nat : n <= gStamp => n <= gStamp + 1 /\ n # gStamp + 1
    BY <1>0
  <2>3. /\ gWork' \in [Files -> Nat] /\ gWant' \in [Files -> Nat]
        /\ gWork'[f] = gStamp + 1 /\ gWant'[f] = gStamp + 1
        /\ \A e \in Files \ {f} : gWork'[e] = gWork[e] /\ gWant'[e] = gWant[e]
    BY <1>0, <2>1, <2>2
  <2>4. \A e \in Files : /\ gRemote[e] # gStamp + 1 /\ gBase[e] # gStamp + 1
                         /\ gRemote[e] <= gStamp' /\ gBase[e] <= gStamp' /\ gHead[e] <= gStamp'
                         /\ gWork'[e] <= gStamp' /\ gWant'[e] <= gStamp'
    BY <1>0, <2>1, <2>2, <2>3 DEF GitInv
  <2> QED BY <1>0, <2>1, <2>2, <2>3, <2>4 DEF GitInv
<1>2. ASSUME NEW f \in Files, RemoveFile(f) PROVE GitInv'
  <2>1. /\ gPc = "work" /\ gStamp' = gStamp /\ gWork' = [gWork EXCEPT ![f] = 0]
        /\ gMine' = gMine \cup {f} /\ gWant' = [gWant EXCEPT ![f] = gWork'[f]]
        /\ UNCHANGED <<gRemote, gMoved, gBase, gHead, gPc, gFresh, gJobs>>
    BY <1>2 DEF RemoveFile
  <2>2. /\ gWork' \in [Files -> Nat] /\ gWant' \in [Files -> Nat] /\ gWork'[f] = 0 /\ gWant'[f] = 0
        /\ \A e \in Files \ {f} : gWork'[e] = gWork[e] /\ gWant'[e] = gWant[e]
    BY <1>0, <2>1
  <2> QED BY <1>0, <2>1, <2>2 DEF GitInv
<1>3. ASSUME NEW f \in Files, OtherPush(f) PROVE GitInv'
  <2>1. PICK content \in {0, gStamp + 1} : gRemote' = [gRemote EXCEPT ![f] = content]
    BY <1>3 DEF OtherPush
  <2>2. gStamp' = gStamp + 1 /\ gMoved' = TRUE /\ UNCHANGED <<gBase, gHead, gWork, gPc, gMine, gWant, gFresh, gJobs>>
    BY <1>3 DEF OtherPush, ours, intent
  <2>3. gStamp + 1 \in Nat /\ \A n \in Nat : n <= gStamp => n <= gStamp + 1 /\ n # gStamp + 1
    BY <1>0
  <2>4. gRemote' \in [Files -> Nat] /\ gRemote'[f] = content /\ \A e \in Files \ {f} : gRemote'[e] = gRemote[e]
    BY <1>0, <2>1, <2>3
  <2>5. \A e \in Files : /\ gRemote'[e] <= gStamp' /\ gBase[e] <= gStamp' /\ gHead[e] <= gStamp'
                         /\ gWork[e] <= gStamp' /\ gWant[e] <= gStamp'
                         /\ gWant[e] # gStamp + 1
    BY <1>0, <2>1, <2>2, <2>3, <2>4 DEF GitInv
  <2>6. \A e \in gMine : gWant[e] # 0 => gWork[e] = gWant[e] /\ gRemote'[e] # gWant[e] /\ gBase[e] # gWant[e]
    BY <1>0, <2>1, <2>4, <2>5 DEF GitInv
  <2> QED BY <1>0, <2>2, <2>3, <2>4, <2>5, <2>6 DEF GitInv
<1>4. CASE CommitState
  BY <1>4 DEF CommitState, GitInv, intent
<1>5. CASE PullRebase
  <2>1. gPc = "pull" /\ UNCHANGED <<gRemote, intent, gStamp, gJobs>> /\ gHead = gWork
    BY <1>5 DEF PullRebase, GitInv
  <2>2. CASE Onto(Rebased) /\ gPc' = "push"
    <3>1. Rebased \in [Files -> Nat]
          /\ \A f \in Files : Rebased[f] = IF gHead[f] # gBase[f] THEN gHead[f] ELSE gRemote[f]
      BY <1>0 DEF Rebased
    <3> HIDE DEF Rebased
    <3>2. /\ \A f \in Files : Rebased[f] <= gStamp
          /\ \A f \in gMine : gWant[f] # 0 => Rebased[f] = gWant[f]
          /\ \A f \in Files \ gMine : /\ Rebased[f] = 0 => gRemote[f] = 0
                                      /\ gWork[f] = 0 => Rebased[f] = gRemote[f]
      BY <1>0, <2>1, <3>1 DEF GitInv
    <3> QED BY <2>1, <2>2, <3>1, <3>2, SyncKeeps
  <2>3. CASE gPc' = "reapply" /\ UNCHANGED <<ours, gMoved, gFresh>>
    BY <2>1, <2>3 DEF GitInv, ours, intent
  <2> QED BY <1>5, <2>2, <2>3 DEF PullRebase
<1>6. CASE ReapplyOnRemote
  <2>1. gPc = "reapply" /\ UNCHANGED <<gRemote, intent, gStamp, gJobs>> /\ gHead = gWork
    BY <1>6 DEF ReapplyOnRemote, GitInv
  <2>2. CASE Onto(Reapplied) /\ gPc' = "push"
    <3>1. RemovedFiles = {}
      BY <2>1 DEF RemovedFiles, IndexedFiles, There
    <3>2. Reapplied \in [Files -> Nat]
          /\ \A f \in Files : Reapplied[f] = IF gWork[f] # 0 THEN gWork[f] ELSE gRemote[f]
      BY <1>0, <3>1 DEF Reapplied
    <3> HIDE DEF Reapplied
    <3>3. /\ \A f \in Files : Reapplied[f] <= gStamp
          /\ \A f \in gMine : gWant[f] # 0 => Reapplied[f] = gWant[f]
          /\ \A f \in Files \ gMine : /\ Reapplied[f] = 0 => gRemote[f] = 0
                                      /\ gWork[f] = 0 => Reapplied[f] = gRemote[f]
      BY <1>0, <2>1, <3>2 DEF GitInv
    <3> QED BY <2>1, <2>2, <3>2, <3>3, SyncKeeps
  <2>3. CASE NextTry /\ UNCHANGED <<ours, gMoved, gFresh>>
    BY <2>1, <2>3 DEF GitInv, ours, intent, NextTry
  <2> QED BY <1>6, <2>2, <2>3 DEF ReapplyOnRemote
<1>7. CASE PushState
  BY <1>7 DEF PushState, GitInv
<1>8. CASE PushFails
  BY <1>8 DEF PushFails, NextTry, GitInv, ours, intent
<1>9. CASE NextJob
  <2>1. gJobs' \in Nat
    BY <1>9 DEF NextJob, GitInv
  <2> QED BY <1>9, <2>1 DEF NextJob, GitInv
<1>10. CASE UNCHANGED gVars
  BY <1>10 DEF gVars, GitInv
<1> QED BY <1>1, <1>2, <1>3, <1>4, <1>5, <1>6, <1>7, <1>8, <1>9, <1>10 DEF CheckpointerNext

\* gatedPush: the one step that ends a checkpoint with the branch at our HEAD.
LEMMA OnlyThePushPushes ==
  ASSUME GitInv, [CheckpointerNext]_gVars, Pushed
  PROVE  gRemote' = gHead /\ ~gMoved /\ gPc = "push"
<1>0. gPc = "push" /\ gJobs' = gJobs /\ gMine # {} /\ gPc' = "work" /\ gMine' = {}
  BY DEF Pushed
<1>1. CASE PushState
  BY <1>0, <1>1 DEF PushState
<1>2. CASE PushFails
  BY <1>0, <1>2 DEF PushFails, intent
<1>3. CASE NextJob
  <2>1. gJobs' = gJobs + 1 /\ gJobs \in Nat
    BY <1>3 DEF NextJob, GitInv
  <2> QED BY <1>0, <2>1
<1>4. ASSUME NEW f \in Files, WriteFile(f) \/ RemoveFile(f) \/ OtherPush(f) PROVE FALSE
  BY <1>0, <1>4 DEF WriteFile, RemoveFile, OtherPush, intent
<1>5. CASE CommitState \/ PullRebase \/ ReapplyOnRemote
  BY <1>0, <1>5 DEF CommitState, PullRebase, ReapplyOnRemote
<1>6. CASE UNCHANGED gVars
  BY <1>0, <1>6 DEF gVars
<1> QED BY <1>1, <1>2, <1>3, <1>4, <1>5, <1>6 DEF CheckpointerNext

\* checkpointer.js:16: for any files, number of tries and pushes of others, a push puts what the
\* pulse wrote on the branch as it wrote it last, and leaves what it never had.
THEOREM PushesKeepBoth == CheckpointerSpec => PushKeepsBoth
<1>1. CheckpointerInit => GitInv
  <2> SUFFICES ASSUME CheckpointerInit PROVE GitInv
    OBVIOUS
  <2>1. gRemote \in [Files -> Nat] /\ \A f \in Files : gRemote[f] <= 1
    BY DEF CheckpointerInit
  <2> QED BY <2>1 DEF CheckpointerInit, GitInv
<1>2. GitInv /\ [CheckpointerNext]_gVars /\ Pushed
        => \A f \in Files : /\ f \in gMine /\ gWant[f] # 0 => gRemote'[f] = gWant[f]
                            /\ f \in gFresh \ gMine => gRemote'[f] = gRemote[f]
  BY OnlyThePushPushes DEF GitInv
<1>3. CheckpointerSpec => []GitInv
  BY <1>1, GitInductive, PTL DEF CheckpointerSpec
<1> QED BY <1>2, <1>3, PTL DEF CheckpointerSpec, PushKeepsBoth
-----------------------------------------------------------------------------
(***************************************************************************)
(* EventLog: events.js, with one pulse at a time on a checkout.  Then a    *)
(* line is only ever appended: LogInv says that a pulse which has looked   *)
(* at the file knows its last number and that it ends in a newline, and    *)
(* that the last readable line is never further from the end of the file   *)
(* than appends have been cut short.                                       *)
(***************************************************************************)

LogLine == [events : SUBSET Nat, seq : Nat, whole : BOOLEAN]

ReadableIn(file) == {i \in 1..Len(file) : Readable(file[i])}
EventsOf(file) == UNION {file[i].events : i \in ReadableIn(file)}
Rising(file) == \A i, j \in ReadableIn(file) : i < j => file[i].seq < file[j].seq
NearEnd(file, n) ==
  ReadableIn(file) # {} => \E j \in ReadableIn(file) : Len(file) - j <= n /\ \A i \in ReadableIn(file) : i <= j
Below(file, n) == \A i \in ReadableIn(file) : file[i].seq <= n

Longer(file, line, after) == after = Append(file, line)

\* append(): a line more can be read, or none.
LEMMA OneLineMore ==
  ASSUME NEW file \in Seq(LogLine), NEW line \in LogLine, NEW after, Longer(file, line, after)
  PROVE  /\ after \in Seq(LogLine) /\ Len(after) = Len(file) + 1 /\ Len(file) \in Nat
         /\ ReadableIn(after) = ReadableIn(file) \cup (IF Readable(line) THEN {Len(file) + 1} ELSE {})
         /\ ReadableIn(file) \subseteq 1..Len(file)
         /\ \A i \in 1..Len(file) : after[i] = file[i]
         /\ after[Len(file) + 1] = line
<1>1. /\ after \in Seq(LogLine) /\ Len(after) = Len(file) + 1 /\ Len(file) \in Nat
      /\ \A i \in 1..Len(file) : after[i] = file[i]
      /\ after[Len(file) + 1] = line
  BY AppendProperties, LenProperties DEF Longer
<1>2. \A i : i \in 1..Len(after) <=> i \in 1..Len(file) \/ i = Len(file) + 1
  BY <1>1
<1> QED BY <1>1, <1>2 DEF ReadableIn

\* append(): what was there stays readable, and a whole line of one event is.
LEMMA AppendKeepsEvents ==
  ASSUME NEW file \in Seq(LogLine), NEW line \in LogLine
  PROVE  EventsOf(Append(file, line)) = EventsOf(file) \cup (IF Readable(line) THEN line.events ELSE {})
<1>1. PICK after : after = Append(file, line) /\ Longer(file, line, after)
  BY DEF Longer
<1>2. /\ ReadableIn(after) = ReadableIn(file) \cup (IF Readable(line) THEN {Len(file) + 1} ELSE {})
      /\ \A i \in ReadableIn(file) : after[i] = file[i]
      /\ after[Len(file) + 1] = line
  <2>1. ReadableIn(file) \subseteq 1..Len(file) /\ \A i \in 1..Len(file) : after[i] = file[i]
    BY <1>1, OneLineMore
  <2> QED BY <1>1, <2>1, OneLineMore
<1>3. ASSUME NEW e \in EventsOf(after)
      PROVE  e \in EventsOf(file) \cup (IF Readable(line) THEN line.events ELSE {})
  <2>1. PICK i \in ReadableIn(after) : e \in after[i].events
    BY DEF EventsOf
  <2> QED BY <1>2, <2>1 DEF EventsOf
<1>4. ASSUME NEW e \in EventsOf(file) \cup (IF Readable(line) THEN line.events ELSE {})
      PROVE  e \in EventsOf(after)
  <2>1. CASE e \in EventsOf(file)
    <3>1. PICK i \in ReadableIn(file) : e \in file[i].events
      BY <2>1 DEF EventsOf
    <3> QED BY <1>2, <3>1 DEF EventsOf
  <2>2. CASE Readable(line) /\ e \in line.events
    BY <1>2, <2>2 DEF EventsOf
  <2> QED BY <1>4, <2>1, <2>2
<1> QED BY <1>1, <1>3, <1>4

\* append(): numbers rise if the new one is above all that can be read, and a line that cannot be
\* read moves the last readable one away from the end by one.
LEMMA AppendKeepsOrder ==
  ASSUME NEW file \in Seq(LogLine), NEW line \in LogLine, NEW n \in Nat, NEW m \in Nat,
         Rising(file), NearEnd(file, n),
         Readable(line) => Below(file, line.seq - 1),
         IF Readable(line) THEN m >= n ELSE m = n + 1
  PROVE  /\ Rising(Append(file, line)) /\ NearEnd(Append(file, line), m)
         /\ Readable(line) => Below(Append(file, line), line.seq)
<1>1. PICK after : after = Append(file, line) /\ Longer(file, line, after)
  BY DEF Longer
<1>2. /\ ReadableIn(after) = ReadableIn(file) \cup (IF Readable(line) THEN {Len(file) + 1} ELSE {})
      /\ \A i \in ReadableIn(file) : after[i] = file[i] /\ i \in Nat /\ i < Len(file) + 1 /\ file[i].seq \in Nat
      /\ after[Len(file) + 1] = line /\ Len(file) \in Nat /\ line.seq \in Nat /\ Len(after) = Len(file) + 1
  <2>1. \A i \in 1..Len(file) : file[i].seq \in Nat
    <3>1. file \in [1..Len(file) -> LogLine]
      BY LenProperties
    <3>2. \A i \in 1..Len(file) : file[i] \in LogLine
      BY <3>1
    <3> QED BY <3>2 DEF LogLine
  <2>2. line.seq \in Nat
    BY DEF LogLine
  <2>3. /\ ReadableIn(file) \subseteq 1..Len(file) /\ \A i \in 1..Len(file) : after[i] = file[i]
        /\ Len(file) \in Nat /\ after[Len(file) + 1] = line /\ Len(after) = Len(file) + 1
    BY <1>1, OneLineMore
  <2>4. \A i \in 1..Len(file) : i \in Nat /\ i < Len(file) + 1
    BY <2>3
  <2>5. ReadableIn(after) = ReadableIn(file) \cup (IF Readable(line) THEN {Len(file) + 1} ELSE {})
    BY <1>1, OneLineMore
  <2> QED BY <2>1, <2>2, <2>3, <2>4, <2>5
<1>3. ASSUME NEW i \in ReadableIn(after), NEW j \in ReadableIn(after), i < j
      PROVE  after[i].seq < after[j].seq
  <2>1. i \in ReadableIn(file)
    BY <1>2, <1>3
  <2>2. CASE j \in ReadableIn(file)
    BY <1>2, <1>3, <2>1, <2>2 DEF Rising
  <2>3. CASE j = Len(file) + 1 /\ Readable(line)
    BY <1>2, <2>1, <2>3 DEF Below
  <2> QED BY <1>2, <2>2, <2>3
<1>4. ASSUME ReadableIn(after) # {}
      PROVE  \E j \in ReadableIn(after) : Len(after) - j <= m /\ \A i \in ReadableIn(after) : i <= j
  <2>1. CASE Readable(line)
    <3>1. Len(file) + 1 \in ReadableIn(after) /\ Len(after) - (Len(file) + 1) <= m
      BY <1>2, <2>1
    <3>2. \A i \in ReadableIn(after) : i <= Len(file) + 1
      BY <1>2, <2>1
    <3> QED BY <3>1, <3>2
  <2>2. CASE ~Readable(line)
    <3>1. PICK j \in ReadableIn(file) : Len(file) - j <= n /\ \A i \in ReadableIn(file) : i <= j
      BY <1>2, <1>4, <2>2 DEF NearEnd
    <3> QED BY <1>2, <2>2, <3>1
  <2> QED BY <2>1, <2>2
<1>5. Readable(line) => \A i \in ReadableIn(after) : after[i].seq <= line.seq
  BY <1>2 DEF Below
<1> QED BY <1>1, <1>3, <1>4, <1>5 DEF Rising, NearEnd, Below

\* One pulse at a time on a checkout, and fewer appends cut short than the lines that #ensureSeq reads.
OneAtATime == ~Overlapping /\ MaxTorn < LookBack

LogTypes ==
  /\ eDay \in Days
  /\ eLines \in [Days -> Seq(LogLine)]
  /\ eCounted \in [Days -> SUBSET Nat] /\ eWhole \in [Days -> SUBSET Nat]
  /\ eOpen \subseteq Days /\ eKept \subseteq Days
  /\ ePc \in [Loggers -> {"new", "on", "summed", "over"}]
  /\ eOld \in [Loggers -> Nat] /\ eFile \in [Loggers -> Nat] /\ eSeq \in [Loggers -> Nat]
  /\ eNeeds \in [Loggers -> BOOLEAN]
  /\ eLast \in Nat /\ eTorn \in 0..MaxTorn

\* What #ensureSeq has looked up is the last number of today's file, and it ends in a newline.
Looked(p) == eFile[p] = eDay => eDay \notin eOpen /\ ~eNeeds[p] /\ Below(eLines[eDay], eSeq[p])

LogInv ==
  /\ LogTypes
  /\ \A d \in Days :
       /\ Rising(eLines[d]) /\ NearEnd(eLines[d], eTorn)
       /\ eWhole[d] \subseteq (IF d \in eKept THEN EventsOf(eLines[d]) ELSE eCounted[d])
       /\ d >= eDay => eCounted[d] = {}
  /\ \A p \in Loggers :
       /\ eFile[p] <= eDay
       /\ ePc[p] = "new" => eFile[p] = 0
       /\ Active(p) => Looked(p)
       /\ ePc[p] = "summed" => /\ eOld[p] \in Days /\ eOld[p] < eDay
                               /\ EventsOf(eLines[eOld[p]]) \subseteq eCounted[eOld[p]]
  /\ \A p, q \in Loggers : Active(p) /\ Active(q) => p = q

\* LogInv is what EventsKeptInOrder says, and more.
LEMMA LogInvSuffices == LogInv => EventsKeptInOrder
<1> SUFFICES ASSUME LogInv, NEW d \in Days
             PROVE  /\ eWhole[d] \subseteq (IF d \in eKept THEN EventsIn(d) ELSE eCounted[d])
                    /\ \A i, j \in 1..Len(eLines[d]) :
                         i < j /\ Readable(eLines[d][i]) /\ Readable(eLines[d][j])
                           => eLines[d][i].seq < eLines[d][j].seq
  BY DEF EventsKeptInOrder
<1>1. EventsIn(d) = EventsOf(eLines[d])
  BY DEF EventsIn, EventsOf, ReadableIn
<1>2. Rising(eLines[d])
  BY DEF LogInv
<1> QED BY <1>1, <1>2 DEF LogInv, Rising, ReadableIn

\* #ensureSeq: among its last LookBack lines is the last that can be read, and that has the highest
\* number; so the next number is above all of today's.
LEMMA NextIsAbove ==
  ASSUME OneAtATime, LogInv, NEW p \in Loggers, Active(p)
  PROVE  NextSeq(p) \in Nat /\ Below(eLines[eDay], NextSeq(p) - 1)
<1> DEFINE file == eLines[eDay]
<1>1. /\ file \in Seq(LogLine) /\ Len(file) \in Nat /\ eSeq[p] \in Nat /\ eTorn \in Nat
      /\ LookBack \in Nat /\ eTorn < LookBack
      /\ Rising(file) /\ NearEnd(file, eTorn) /\ Looked(p)
  <2>1. file \in Seq(LogLine) /\ eSeq[p] \in Nat /\ eTorn \in 0..MaxTorn
    BY DEF LogInv, LogTypes
  <2>2. Rising(file) /\ NearEnd(file, eTorn) /\ Looked(p)
    BY DEF LogInv, LogTypes
  <2>3. LookBack \in Nat /\ MaxTorn \in Nat /\ MaxTorn < LookBack
    BY EventLogAssumption DEF OneAtATime
  <2> QED BY <2>1, <2>2, <2>3, LenProperties
<1>2. \A i \in ReadableIn(file) : i \in 1..Len(file) /\ file[i].seq \in Nat
  <2>1. file \in [1..Len(file) -> LogLine]
    BY <1>1, LenProperties
  <2>2. \A i \in 1..Len(file) : file[i] \in LogLine
    BY <2>1
  <2> QED BY <2>2 DEF LogLine, ReadableIn
<1>3. LastSeq(eDay) \in Nat /\ Below(file, LastSeq(eDay))
  <2>1. Recent(eDay) = {i \in ReadableIn(file) : i > Len(file) - LookBack}
    BY DEF Recent, ReadableIn
  <2>2. CASE ReadableIn(file) = {}
    <3>1. Recent(eDay) = {}
      BY <2>1, <2>2
    <3> QED BY <2>2, <3>1 DEF LastSeq, Below
  <2>3. CASE ReadableIn(file) # {}
    <3>1. PICK j \in ReadableIn(file) : Len(file) - j <= eTorn /\ \A i \in ReadableIn(file) : i <= j
      BY <1>1, <2>3 DEF NearEnd
    <3>2. j \in Recent(eDay) /\ \A k \in Recent(eDay) : k <= j
      BY <1>1, <1>2, <2>1, <3>1
    <3>3. PICK i : i = CHOOSE x \in Recent(eDay) : \A k \in Recent(eDay) : k <= x
      OBVIOUS
    <3>4. i \in Recent(eDay) /\ \A k \in Recent(eDay) : k <= i
      BY <3>2, <3>3
    <3>5. i = j
      BY <1>2, <2>1, <3>2, <3>4
    <3>6. LastSeq(eDay) = file[i].seq
      BY <3>2, <3>3 DEF LastSeq
    <3>7. ASSUME NEW k \in ReadableIn(file)
          PROVE  file[k].seq <= file[j].seq
      <4>1. k = j \/ k < j
        BY <1>2, <3>1
      <4> QED BY <1>1, <1>2, <4>1 DEF Rising
    <3> QED BY <1>2, <3>5, <3>6, <3>7 DEF Below
  <2> QED BY <2>2, <2>3
<1>4. CASE eFile[p] = eDay
  <2>1. NextSeq(p) = 1 + eSeq[p] /\ Below(file, eSeq[p])
    BY <1>1, <1>4 DEF NextSeq, Looked
  <2> QED BY <1>1, <2>1
<1>5. CASE eFile[p] # eDay
  <2>1. PICK n \in Nat : n = LastSeq(eDay)
    BY <1>3
  <2>2. NextSeq(p) = 1 + (IF n < eSeq[p] THEN eSeq[p] ELSE n)
    BY <1>5, <2>1 DEF NextSeq
  <2>3. \A i \in ReadableIn(file) : file[i].seq <= n
    BY <1>3, <2>1 DEF Below
  <2>4. PICK m \in Nat : NextSeq(p) = 1 + m /\ n <= m
    BY <1>1, <2>2
  <2>5. NextSeq(p) - 1 = m
    BY <2>4
  <2>6. \A i \in ReadableIn(file) : file[i].seq <= m
    BY <1>2, <2>3, <2>4
  <2> QED BY <2>4, <2>5, <2>6 DEF Below
<1> QED BY <1>4, <1>5

\* append(): the event goes on a line of its own, whole or torn.
LEMMA AppendedIsALine ==
  ASSUME OneAtATime, LogInv, NEW p \in Loggers, ePc[p] = "on", NEW whole \in BOOLEAN,
         NEW m \in Nat, IF whole THEN m >= eTorn ELSE m = eTorn + 1
  PROVE  /\ Appended(p, whole) \in Seq(LogLine)
         /\ Rising(Appended(p, whole)) /\ NearEnd(Appended(p, whole), m)
         /\ whole => Below(Appended(p, whole), NextSeq(p))
         /\ EventsOf(Appended(p, whole)) = EventsOf(eLines[eDay]) \cup (IF whole THEN {eLast + 1} ELSE {})
<1>0. PICK file \in Seq(LogLine) : file = eLines[eDay]
  BY DEF LogInv, LogTypes
<1>1. PICK line : line = [events |-> {eLast + 1}, seq |-> NextSeq(p), whole |-> whole]
  OBVIOUS
<1>2. NextSeq(p) \in Nat /\ Below(file, NextSeq(p) - 1)
  BY <1>0, NextIsAbove DEF Active
<1>3. line \in LogLine /\ line.seq = NextSeq(p) /\ line.events = {eLast + 1} /\ line.whole = whole
  BY <1>1, <1>2 DEF LogLine, LogInv, LogTypes
<1>4. Readable(line) <=> whole
  BY <1>3, FS_Singleton DEF Readable
<1>5. Appended(p, whole) = Append(file, line)
  <2>1. eDay \in eOpen => Needs(p)
    BY DEF LogInv, Active, Looked, Needs
  <2> QED BY <1>0, <1>1, <2>1 DEF Appended
<1>6. Append(file, line) \in Seq(LogLine)
  BY <1>3, AppendProperties
<1>7. EventsOf(Append(file, line)) = EventsOf(file) \cup (IF whole THEN {eLast + 1} ELSE {})
  BY <1>3, <1>4, AppendKeepsEvents
<1>8. Rising(file) /\ NearEnd(file, eTorn) /\ eTorn \in Nat
  BY <1>0 DEF LogInv, LogTypes
<1>9. /\ Rising(Append(file, line)) /\ NearEnd(Append(file, line), m)
      /\ whole => Below(Append(file, line), line.seq)
  BY <1>2, <1>3, <1>4, <1>8, AppendKeepsOrder
<1> QED BY <1>0, <1>3, <1>5, <1>6, <1>7, <1>9

\* append(): a line of today's file, whole or cut short, keeps what LogInv says of the files.
LEMMA FilesAfterAppend ==
  ASSUME OneAtATime, LogInv, NEW p \in Loggers, ePc[p] = "on", NEW whole \in BOOLEAN,
         eLines' = [eLines EXCEPT ![eDay] = Appended(p, whole)],
         eKept' = eKept \cup {eDay}, eCounted' = eCounted, eDay' = eDay,
         eWhole' = IF whole THEN [eWhole EXCEPT ![eDay] = @ \cup {eLast + 1}] ELSE eWhole,
         eTorn' \in Nat, IF whole THEN eTorn' >= eTorn ELSE eTorn' = eTorn + 1
  PROVE  /\ eLines' \in [Days -> Seq(LogLine)] /\ eWhole' \in [Days -> SUBSET Nat] /\ eKept' \subseteq Days
         /\ \A d \in Days :
              /\ Rising(eLines'[d]) /\ NearEnd(eLines'[d], eTorn')
              /\ eWhole'[d] \subseteq (IF d \in eKept' THEN EventsOf(eLines'[d]) ELSE eCounted'[d])
              /\ d >= eDay' => eCounted'[d] = {}
<1>1. PICK t \in Nat : t = eTorn'
  OBVIOUS
<1>2. PICK new : new = Appended(p, whole)
  OBVIOUS
<1>3. /\ new \in Seq(LogLine) /\ Rising(new) /\ NearEnd(new, t)
      /\ EventsOf(new) = EventsOf(eLines[eDay]) \cup (IF whole THEN {eLast + 1} ELSE {})
  BY <1>1, <1>2, AppendedIsALine
<1>4. /\ eLines' = [eLines EXCEPT ![eDay] = new] /\ eLines \in [Days -> Seq(LogLine)] /\ eDay \in Days
      /\ eWhole \in [Days -> SUBSET Nat] /\ eKept \subseteq Days /\ eLast \in Nat /\ eTorn \in Nat /\ eDay \in Nat
  BY <1>2 DEF LogInv, LogTypes, Days
<1>5. eLines' \in [Days -> Seq(LogLine)] /\ eWhole' \in [Days -> SUBSET Nat] /\ eKept' \subseteq Days
  BY <1>3, <1>4
<1>6. \A d \in Days \ {eDay} : eLines'[d] = eLines[d] /\ eWhole'[d] = eWhole[d]
  BY <1>4
<1>7. eLines'[eDay] = new /\ eWhole'[eDay] = eWhole[eDay] \cup (IF whole THEN {eLast + 1} ELSE {})
  BY <1>4
<1>8. eWhole[eDay] \subseteq EventsOf(eLines[eDay]) /\ eCounted[eDay] = {}
  BY <1>4 DEF LogInv
<1>9. ASSUME NEW d \in Days
      PROVE  NearEnd(eLines[d], t)
  <2>1. NearEnd(eLines[d], eTorn) /\ t >= eTorn
    BY <1>1, <1>4 DEF LogInv
  <2>2. Len(eLines[d]) \in Nat /\ \A i \in ReadableIn(eLines[d]) : i \in Nat
    BY <1>4, LenProperties DEF ReadableIn
  <2> QED BY <1>4, <2>1, <2>2 DEF NearEnd
<1>10. ASSUME NEW d \in Days
       PROVE  /\ Rising(eLines'[d]) /\ NearEnd(eLines'[d], t)
              /\ eWhole'[d] \subseteq (IF d \in eKept' THEN EventsOf(eLines'[d]) ELSE eCounted'[d])
              /\ d >= eDay' => eCounted'[d] = {}
  <2>1. CASE d = eDay
    BY <1>3, <1>7, <1>8, <2>1
  <2>2. CASE d # eDay
    BY <1>6, <1>9, <2>2 DEF LogInv
  <2> QED BY <2>1, <2>2
<1> QED BY <1>1, <1>5, <1>10

\* append(), whole.
LEMMA AppendKeepsLog ==
  ASSUME OneAtATime, LogInv, NEW p \in Loggers, AppendEvent(p)
  PROVE  LogInv'
<1>1. /\ ePc[p] = "on" /\ eLines' = [eLines EXCEPT ![eDay] = Appended(p, TRUE)]
      /\ eOpen' = eOpen \ {eDay} /\ eKept' = eKept \cup {eDay}
      /\ eFile' = [eFile EXCEPT ![p] = eDay] /\ eSeq' = [eSeq EXCEPT ![p] = NextSeq(p)]
      /\ eNeeds' = [eNeeds EXCEPT ![p] = FALSE]
      /\ eWhole' = [eWhole EXCEPT ![eDay] = @ \cup {eLast + 1}]
      /\ eLast' = eLast + 1 /\ eDay' = eDay /\ eCounted' = eCounted /\ ePc' = ePc /\ eOld' = eOld /\ eTorn' = eTorn
  BY DEF AppendEvent
<1>2. eTorn \in 0..MaxTorn /\ eTorn \in Nat /\ eTorn <= eTorn
  BY DEF LogInv, LogTypes
<1>3. /\ eLines' \in [Days -> Seq(LogLine)] /\ eWhole' \in [Days -> SUBSET Nat] /\ eKept' \subseteq Days
      /\ \A d \in Days :
           /\ Rising(eLines'[d]) /\ NearEnd(eLines'[d], eTorn')
           /\ eWhole'[d] \subseteq (IF d \in eKept' THEN EventsOf(eLines'[d]) ELSE eCounted'[d])
           /\ d >= eDay' => eCounted'[d] = {}
  BY <1>1, <1>2, FilesAfterAppend
<1>4. NextSeq(p) \in Nat /\ Below(eLines'[eDay], NextSeq(p)) /\ eDay \in Days /\ eDay \in Nat
  <2>1. Below(Appended(p, TRUE), NextSeq(p))
    BY <1>1, <1>2, AppendedIsALine
  <2>2. eDay \in Days /\ eDay \in Nat /\ eLines \in [Days -> Seq(LogLine)]
    BY DEF LogInv, LogTypes, Days
  <2>3. eLines'[eDay] = Appended(p, TRUE)
    BY <1>1, <2>2
  <2>4. NextSeq(p) \in Nat
    BY <1>1, NextIsAbove DEF Active
  <2> QED BY <2>1, <2>2, <2>3, <2>4
<1>5. LogTypes'
  <2>1. eFile' \in [Loggers -> Nat] /\ eSeq' \in [Loggers -> Nat] /\ eNeeds' \in [Loggers -> BOOLEAN]
    BY <1>1, <1>4 DEF LogInv, LogTypes
  <2>2. /\ eDay' \in Days /\ eCounted' \in [Days -> SUBSET Nat] /\ eOpen' \subseteq Days
        /\ ePc' \in [Loggers -> {"new", "on", "summed", "over"}] /\ eOld' \in [Loggers -> Nat]
        /\ eLast' \in Nat /\ eTorn' \in 0..MaxTorn
    BY <1>1 DEF LogInv, LogTypes
  <2> QED BY <1>3, <2>1, <2>2 DEF LogTypes
<1>6. ASSUME NEW q \in Loggers, Active(q)
      PROVE  q = p
  BY <1>1, <1>6 DEF LogInv, Active
<1>7. ASSUME NEW q \in Loggers
      PROVE  /\ eFile'[q] <= eDay'
             /\ ePc'[q] = "new" => eFile'[q] = 0
             /\ Active(q)' => Looked(q)'
             /\ ePc'[q] # "summed"
  <2>1. CASE q = p
    <3>1. eFile'[p] = eDay /\ eSeq'[p] = NextSeq(p) /\ eNeeds'[p] = FALSE
      BY <1>1 DEF LogInv, LogTypes
    <3>2. Looked(p)'
      BY <1>1, <1>4, <3>1 DEF Looked
    <3> QED BY <1>1, <1>4, <2>1, <3>1, <3>2
  <2>2. CASE q # p
    <3>1. ~Active(q) /\ eFile'[q] = eFile[q]
      BY <1>1, <1>6, <2>2 DEF LogInv, LogTypes
    <3> QED BY <1>1, <3>1 DEF Active, LogInv
  <2> QED BY <2>1, <2>2
<1>8. \A q, r \in Loggers : Active(q)' /\ Active(r)' => q = r
  BY <1>1 DEF LogInv, Active
<1> QED BY <1>3, <1>5, <1>7, <1>8 DEF LogInv

\* append(), killed in the middle.
LEMMA KillKeepsLog ==
  ASSUME OneAtATime, LogInv, NEW p \in Loggers, KilledAppending(p)
  PROVE  LogInv'
<1>1. /\ ePc[p] = "on" /\ ePc' = [ePc EXCEPT ![p] = "over"] /\ eTorn < MaxTorn
      /\ eTorn' = eTorn + 1 /\ eLast' = eLast + 1 /\ eDay' = eDay /\ eCounted' = eCounted
      /\ eOld' = eOld /\ eFile' = eFile /\ eSeq' = eSeq /\ eNeeds' = eNeeds
  BY DEF KilledAppending
<1>2. eTorn \in 0..MaxTorn /\ eTorn \in Nat /\ MaxTorn \in Nat /\ eDay \in Days /\ eDay \in Nat
  BY EventLogAssumption DEF LogInv, LogTypes, Days
<1>3. eTorn' \in 0..MaxTorn /\ eTorn' \in Nat /\ eTorn' >= eTorn
  BY <1>1, <1>2
<1>4. /\ eLines' \in [Days -> Seq(LogLine)] /\ eWhole' \in [Days -> SUBSET Nat]
      /\ eKept' \subseteq Days /\ eOpen' \subseteq Days
      /\ \A d \in Days :
           /\ Rising(eLines'[d]) /\ NearEnd(eLines'[d], eTorn')
           /\ eWhole'[d] \subseteq (IF d \in eKept' THEN EventsOf(eLines'[d]) ELSE eCounted'[d])
           /\ d >= eDay' => eCounted'[d] = {}
  <2>1. CASE \E whole \in BOOLEAN :
               /\ eLines' = [eLines EXCEPT ![eDay] = Appended(p, whole)]
               /\ eOpen' = eOpen \cup {eDay} /\ eKept' = eKept \cup {eDay}
               /\ eWhole' = IF whole THEN [eWhole EXCEPT ![eDay] = @ \cup {eLast + 1}] ELSE eWhole
    <3>1. PICK whole \in BOOLEAN :
            /\ eLines' = [eLines EXCEPT ![eDay] = Appended(p, whole)]
            /\ eOpen' = eOpen \cup {eDay} /\ eKept' = eKept \cup {eDay}
            /\ eWhole' = IF whole THEN [eWhole EXCEPT ![eDay] = @ \cup {eLast + 1}] ELSE eWhole
      BY <2>1
    <3>2. eOpen' \subseteq Days
      BY <1>2, <3>1 DEF LogInv, LogTypes
    <3>3. IF whole THEN eTorn' >= eTorn ELSE eTorn' = eTorn + 1
      BY <1>1, <1>3
    <3> QED BY <1>1, <1>3, <3>1, <3>2, <3>3, FilesAfterAppend
  <2>2. CASE eOpen' = eOpen \ {eDay} /\ eLines' = eLines /\ eKept' = eKept /\ eWhole' = eWhole
    <3>1. /\ eLines' \in [Days -> Seq(LogLine)] /\ eWhole' \in [Days -> SUBSET Nat]
          /\ eKept' \subseteq Days /\ eOpen' \subseteq Days
      BY <2>2 DEF LogInv, LogTypes
    <3>2. ASSUME NEW d \in Days
          PROVE  NearEnd(eLines[d], eTorn')
      <4>1. NearEnd(eLines[d], eTorn) /\ eLines[d] \in Seq(LogLine)
        BY DEF LogInv, LogTypes
      <4>2. Len(eLines[d]) \in Nat /\ \A i \in ReadableIn(eLines[d]) : i \in Nat
        BY <4>1, LenProperties DEF ReadableIn
      <4> QED BY <1>2, <1>3, <4>1, <4>2 DEF NearEnd
    <3> QED BY <1>1, <2>2, <3>1, <3>2 DEF LogInv
  <2> QED BY <2>1, <2>2 DEF KilledAppending
<1>5. LogTypes'
  <2>1. /\ eDay' \in Days /\ eCounted' \in [Days -> SUBSET Nat]
        /\ ePc' \in [Loggers -> {"new", "on", "summed", "over"}] /\ eOld' \in [Loggers -> Nat]
        /\ eLast' \in Nat /\ eFile' \in [Loggers -> Nat] /\ eSeq' \in [Loggers -> Nat]
        /\ eNeeds' \in [Loggers -> BOOLEAN]
    BY <1>1 DEF LogInv, LogTypes
  <2> QED BY <1>3, <1>4, <2>1 DEF LogTypes
<1>6. ASSUME NEW q \in Loggers
      PROVE  /\ ~Active(q)' /\ ePc'[q] # "summed" /\ eFile'[q] <= eDay'
             /\ ePc'[q] = "new" => eFile'[q] = 0
  <2>1. eFile[q] <= eDay /\ (ePc[q] = "new" => eFile[q] = 0)
    BY DEF LogInv
  <2>2. Active(p)
    BY <1>1 DEF Active
  <2>3. Active(q) => q = p
    BY <2>2 DEF LogInv
  <2>4. ePc'[q] = IF q = p THEN "over" ELSE ePc[q]
    BY <1>1 DEF LogInv, LogTypes
  <2> QED BY <1>1, <2>1, <2>3, <2>4 DEF Active
<1> QED BY <1>4, <1>5, <1>6 DEF LogInv

\* The steps that leave the day and the files alone: only the pulses move.
LEMMA PulsesMove ==
  ASSUME LogInv, LogTypes', UNCHANGED <<eDay, store, eWhole, eTorn, eFile, eSeq, eNeeds>>,
         \A d \in Days : \/ eCounted'[d] = eCounted[d]
                         \/ d < eDay /\ d \in eKept,
         \A p \in Loggers : ePc'[p] = "new" => ePc[p] = "new",
         \A p \in Loggers : Active(p)' => Looked(p),
         \A p \in Loggers : ePc'[p] = "summed" =>
            eOld'[p] \in Days /\ eOld'[p] < eDay /\ EventsOf(eLines[eOld'[p]]) \subseteq eCounted'[eOld'[p]],
         \A p, q \in Loggers : Active(p)' /\ Active(q)' => p = q
  PROVE  LogInv'
<1>1. /\ eDay' = eDay /\ eLines' = eLines /\ eOpen' = eOpen /\ eKept' = eKept /\ eWhole' = eWhole /\ eTorn' = eTorn
      /\ eFile' = eFile /\ eSeq' = eSeq /\ eNeeds' = eNeeds /\ eDay \in Nat /\ Days \subseteq Nat
  BY DEF store, LogInv, LogTypes, Days
<1>2. ASSUME NEW d \in Days
      PROVE  /\ Rising(eLines'[d]) /\ NearEnd(eLines'[d], eTorn')
             /\ eWhole'[d] \subseteq (IF d \in eKept' THEN EventsOf(eLines'[d]) ELSE eCounted'[d])
             /\ d >= eDay' => eCounted'[d] = {}
  BY <1>1 DEF LogInv
<1>3. ASSUME NEW p \in Loggers
      PROVE  /\ eFile'[p] <= eDay'
             /\ ePc'[p] = "new" => eFile'[p] = 0
             /\ Active(p)' => Looked(p)'
  BY <1>1 DEF LogInv, Looked
<1>4. \A p \in Loggers :
        ePc'[p] = "summed" => /\ eOld'[p] \in Days /\ eOld'[p] < eDay'
                              /\ EventsOf(eLines'[eOld'[p]]) \subseteq eCounted'[eOld'[p]]
  BY <1>1
<1> QED BY <1>2, <1>3, <1>4 DEF LogInv

\* A pulse starts, when no other is on: it has looked nothing up today.
LEMMA StartKeepsLog ==
  ASSUME OneAtATime, LogInv, NEW p \in Loggers, StartLog(p)
  PROVE  LogInv'
<1>1. /\ ePc[p] = "new" /\ ePc' = [ePc EXCEPT ![p] = "on"] /\ \A q \in Loggers : ~Active(q)
      /\ eDay' = eDay /\ UNCHANGED <<eDay, store, eWhole, eTorn, eFile, eSeq, eNeeds>>
      /\ eCounted' = eCounted /\ eOld' = eOld /\ eLast' = eLast
  BY DEF StartLog, OneAtATime
<1>2. LogTypes'
  BY <1>1 DEF LogInv, LogTypes, store
<1>3. \A q \in Loggers : ePc'[q] = IF q = p THEN "on" ELSE ePc[q]
  BY <1>1 DEF LogInv, LogTypes
<1>4. Looked(p)
  <2>1. eFile[p] = 0 /\ eDay # 0
    BY <1>1 DEF LogInv, LogTypes, Days
  <2> QED BY <2>1 DEF Looked
<1>5. \A q \in Loggers : (Active(q)' => q = p) /\ ePc'[q] # "summed" /\ (ePc'[q] = "new" => ePc[q] = "new")
  BY <1>1, <1>3 DEF Active
<1> QED BY <1>1, <1>2, <1>4, <1>5, PulsesMove

\* A pulse ends, or is killed between two writes.
LEMMA EndKeepsLog ==
  ASSUME LogInv, NEW p \in Loggers, LogEnds(p)
  PROVE  LogInv'
<1>1. /\ ePc' = [ePc EXCEPT ![p] = "over"] /\ eOld' = [eOld EXCEPT ![p] = 0]
      /\ UNCHANGED <<eDay, store, eWhole, eTorn, eFile, eSeq, eNeeds>>
      /\ eCounted' = eCounted /\ eLast' = eLast
  BY DEF LogEnds
<1>2. LogTypes'
  BY <1>1 DEF LogInv, LogTypes, store
<1>3. \A q \in Loggers : /\ ePc'[q] = IF q = p THEN "over" ELSE ePc[q]
                         /\ q # p => eOld'[q] = eOld[q]
  BY <1>1 DEF LogInv, LogTypes
<1>4. \A q \in Loggers : /\ Active(q)' => q # p /\ Active(q)
                         /\ ePc'[q] = "summed" => q # p /\ ePc[q] = "summed"
                         /\ ePc'[q] = "new" => ePc[q] = "new"
  BY <1>3 DEF Active
<1>5. \A q \in Loggers : ePc'[q] = "summed" =>
            eOld'[q] \in Days /\ eOld'[q] < eDay /\ EventsOf(eLines[eOld'[q]]) \subseteq eCounted'[eOld'[q]]
  BY <1>1, <1>3, <1>4 DEF LogInv
<1>6. /\ \A q \in Loggers : Active(q)' => Looked(q)
      /\ \A q, r \in Loggers : Active(q)' /\ Active(r)' => q = r
  BY <1>4 DEF LogInv
<1> QED BY <1>1, <1>2, <1>4, <1>5, <1>6, PulsesMove

\* compact(): the summary of an old file holds all the events that can be read in it.
LEMMA SummaryKeepsLog ==
  ASSUME LogInv, NEW p \in Loggers, NEW d \in Days, Summarise(p, d)
  PROVE  LogInv'
<1>1. /\ ePc[p] = "on" /\ d \in eKept /\ d + RetainDays <= eDay
      /\ eCounted' = [eCounted EXCEPT ![d] = EventsCounted(d)]
      /\ ePc' = [ePc EXCEPT ![p] = "summed"] /\ eOld' = [eOld EXCEPT ![p] = d]
      /\ UNCHANGED <<eDay, store, eWhole, eTorn, eFile, eSeq, eNeeds>> /\ eLast' = eLast
  BY DEF Summarise
<1>2. d < eDay /\ d \in Nat
  <2>1. d \in Nat /\ eDay \in Nat
    BY DEF LogInv, LogTypes, Days
  <2>2. RetainDays \in Nat /\ RetainDays > 0
    BY EventLogAssumption
  <2> QED BY <1>1, <2>1, <2>2
<1>3. EventsCounted(d) = EventsOf(eLines[d])
  BY DEF EventsCounted, EventsIn, EventsOf, ReadableIn
<1>4. EventsOf(eLines[d]) \subseteq Nat
  <2>1. eLines[d] \in Seq(LogLine)
    BY DEF LogInv, LogTypes
  <2>2. eLines[d] \in [1..Len(eLines[d]) -> LogLine]
    BY <2>1, LenProperties
  <2>3. \A i \in ReadableIn(eLines[d]) : eLines[d][i] \in LogLine
    BY <2>2 DEF ReadableIn
  <2>4. \A i \in ReadableIn(eLines[d]) : eLines[d][i].events \subseteq Nat
    BY <2>3 DEF LogLine
  <2> QED BY <2>4 DEF EventsOf
<1>5. LogTypes'
  BY <1>1, <1>2, <1>3, <1>4 DEF LogInv, LogTypes, store
<1>6. \A q \in Loggers : /\ ePc'[q] = IF q = p THEN "summed" ELSE ePc[q]
                         /\ eOld'[q] = IF q = p THEN d ELSE eOld[q]
  BY <1>1 DEF LogInv, LogTypes
<1>7. \A e \in Days : eCounted'[e] = IF e = d THEN EventsOf(eLines[d]) ELSE eCounted[e]
  BY <1>1, <1>3 DEF LogInv, LogTypes
<1>8. Active(p) /\ \A q \in Loggers : /\ Active(q)' => Active(q)
                                      /\ ePc'[q] = "new" => ePc[q] = "new"
  BY <1>1, <1>6 DEF Active
<1>9. \A q \in Loggers : ePc'[q] = "summed" => q = p
  BY <1>6, <1>8 DEF LogInv, Active
<1>10. \A q \in Loggers : ePc'[q] = "summed" =>
            eOld'[q] \in Days /\ eOld'[q] < eDay /\ EventsOf(eLines[eOld'[q]]) \subseteq eCounted'[eOld'[q]]
  BY <1>2, <1>6, <1>7, <1>9
<1>11. /\ \A q \in Loggers : Active(q)' => Looked(q)
       /\ \A q, r \in Loggers : Active(q)' /\ Active(r)' => q = r
  BY <1>8 DEF LogInv
<1> QED BY <1>1, <1>2, <1>5, <1>7, <1>8, <1>10, <1>11, PulsesMove

\* compact(): a file is removed after its summary is written, so no event is lost with it.
LEMMA RemovalKeepsLog ==
  ASSUME LogInv, NEW p \in Loggers, RemoveOld(p)
  PROVE  LogInv'
<1>1. PICK old \in Days : /\ old = eOld[p] /\ old < eDay /\ EventsOf(eLines[old]) \subseteq eCounted[old]
  BY DEF RemoveOld, LogInv
<1>2. /\ ePc[p] = "summed" /\ ePc' = [ePc EXCEPT ![p] = "on"]
      /\ eKept' = eKept \ {old} /\ eOpen' = eOpen \ {old} /\ eLines' = [eLines EXCEPT ![old] = <<>>]
      /\ eOld' = [eOld EXCEPT ![p] = 0] /\ eDay' = eDay /\ eCounted' = eCounted /\ eFile' = eFile
      /\ eSeq' = eSeq /\ eNeeds' = eNeeds /\ eWhole' = eWhole /\ eLast' = eLast /\ eTorn' = eTorn
  BY <1>1 DEF RemoveOld
<1>3. LogTypes'
  <2>1. <<>> \in Seq(LogLine)
    BY EmptySeq
  <2> QED BY <1>2, <2>1 DEF LogInv, LogTypes
<1>4. eDay \in Days /\ eDay \in Nat /\ old # eDay
  BY <1>1 DEF LogInv, LogTypes, Days
<1>5. \A d \in Days : eLines'[d] = IF d = old THEN <<>> ELSE eLines[d]
  BY <1>2 DEF LogInv, LogTypes
<1>6. Rising(<<>>) /\ NearEnd(<<>>, eTorn)
  <2>1. ReadableIn(<<>>) = {}
    BY EmptySeq DEF ReadableIn
  <2> QED BY <2>1 DEF Rising, NearEnd
<1>7. ASSUME NEW d \in Days
      PROVE  /\ Rising(eLines'[d]) /\ NearEnd(eLines'[d], eTorn')
             /\ eWhole'[d] \subseteq (IF d \in eKept' THEN EventsOf(eLines'[d]) ELSE eCounted'[d])
             /\ d >= eDay' => eCounted'[d] = {}
  <2>1. /\ Rising(eLines[d]) /\ NearEnd(eLines[d], eTorn)
        /\ eWhole[d] \subseteq (IF d \in eKept THEN EventsOf(eLines[d]) ELSE eCounted[d])
        /\ d >= eDay => eCounted[d] = {}
    BY DEF LogInv
  <2>2. CASE d = old
    BY <1>1, <1>2, <1>5, <1>6, <2>1, <2>2
  <2>3. CASE d # old
    BY <1>2, <1>5, <2>1, <2>3
  <2> QED BY <2>2, <2>3
<1>8. \A q \in Loggers : ePc'[q] = IF q = p THEN "on" ELSE ePc[q]
  BY <1>2 DEF LogInv, LogTypes
<1>9. Active(p) /\ \A q \in Loggers : /\ Active(q)' => Active(q)
                                      /\ ePc'[q] = "new" => ePc[q] = "new"
  BY <1>2, <1>8 DEF Active
<1>10. \A q \in Loggers : ePc'[q] # "summed"
  BY <1>8, <1>9 DEF LogInv, Active
<1>11. ASSUME NEW q \in Loggers
       PROVE  /\ eFile'[q] <= eDay'
              /\ ePc'[q] = "new" => eFile'[q] = 0
              /\ Active(q)' => Looked(q)'
  BY <1>2, <1>4, <1>5, <1>9 DEF LogInv, Looked
<1>12. \A q, r \in Loggers : Active(q)' /\ Active(r)' => q = r
  BY <1>9 DEF LogInv
<1> QED BY <1>3, <1>7, <1>10, <1>11, <1>12 DEF LogInv

\* A new day has a new file, in which nothing has been looked up.
LEMMA NewDayKeepsLog ==
  ASSUME LogInv, DayEnds
  PROVE  LogInv'
<1>1. /\ eDay < MaxDay /\ eDay' = eDay + 1 /\ eLines' = eLines /\ eOpen' = eOpen /\ eKept' = eKept
      /\ eCounted' = eCounted /\ ePc' = ePc /\ eOld' = eOld /\ eFile' = eFile /\ eSeq' = eSeq
      /\ eNeeds' = eNeeds /\ eWhole' = eWhole /\ eLast' = eLast /\ eTorn' = eTorn
  BY DEF DayEnds, store
<1>2. eDay \in Nat /\ eDay' \in Days /\ eDay < eDay' /\ Days \subseteq Nat
  BY <1>1, EventLogAssumption DEF LogInv, LogTypes, Days
<1>3. LogTypes'
  BY <1>1, <1>2 DEF LogInv, LogTypes
<1>4. ASSUME NEW d \in Days
      PROVE  /\ Rising(eLines'[d]) /\ NearEnd(eLines'[d], eTorn')
             /\ eWhole'[d] \subseteq (IF d \in eKept' THEN EventsOf(eLines'[d]) ELSE eCounted'[d])
             /\ d >= eDay' => eCounted'[d] = {}
  <2>1. d \in Nat
    BY <1>2
  <2> QED BY <1>1, <1>2, <2>1 DEF LogInv
<1>5. ASSUME NEW p \in Loggers
      PROVE  /\ eFile'[p] <= eDay' /\ eFile'[p] # eDay'
             /\ ePc'[p] = "new" => eFile'[p] = 0
             /\ ePc'[p] = "summed" => /\ eOld'[p] \in Days /\ eOld'[p] < eDay'
                                      /\ EventsOf(eLines'[eOld'[p]]) \subseteq eCounted'[eOld'[p]]
  <2>1. eFile[p] \in Nat /\ eFile[p] <= eDay /\ eOld[p] \in Nat
    BY DEF LogInv, LogTypes
  <2>2. /\ ePc[p] = "new" => eFile[p] = 0
        /\ ePc[p] = "summed" => eOld[p] \in Days /\ eOld[p] < eDay /\ EventsOf(eLines[eOld[p]]) \subseteq eCounted[eOld[p]]
    BY DEF LogInv
  <2> QED BY <1>1, <1>2, <2>1, <2>2
<1>6. \A p, q \in Loggers : Active(p)' /\ Active(q)' => p = q
  BY <1>1 DEF LogInv, Active
<1> QED BY <1>3, <1>4, <1>5, <1>6 DEF LogInv, Looked

\* LogInv holds of every state: of the first, and after every step.
LEMMA LogInvHolds ==
  ASSUME OneAtATime
  PROVE  EventLogSpec => []LogInv
<1>1. ASSUME EventLogInit
      PROVE  LogInv
  <2>1. LogTypes
    <3>1. 1 \in Days /\ 0 \in 0..MaxTorn /\ <<>> \in Seq(LogLine)
      BY EventLogAssumption, EmptySeq DEF Days
    <3> QED BY <1>1, <3>1 DEF EventLogInit, LogTypes
  <2>2. ReadableIn(<<>>) = {}
    BY EmptySeq DEF ReadableIn
  <2>3. Rising(<<>>) /\ NearEnd(<<>>, 0)
    BY <2>2 DEF Rising, NearEnd
  <2>4. ASSUME NEW p \in Loggers
        PROVE  ePc[p] = "new" /\ eFile[p] = 0 /\ ~Active(p)
    BY <1>1 DEF EventLogInit, Active
  <2> QED BY <1>1, <2>1, <2>3, <2>4 DEF EventLogInit, LogInv
<1>2. ASSUME LogInv, [EventLogNext]_eVars
      PROVE  LogInv'
  <2>1. CASE EventLogNext
    BY <1>2, <2>1, AppendKeepsLog, KillKeepsLog, StartKeepsLog, EndKeepsLog, SummaryKeepsLog, RemovalKeepsLog,
       NewDayKeepsLog DEF EventLogNext
  <2>2. CASE UNCHANGED eVars
    BY <1>2, <2>2 DEF eVars, store, LogInv, LogTypes, Active, Looked
  <2> QED BY <1>2, <2>1, <2>2
<1> QED BY <1>1, <1>2, PTL DEF EventLogSpec

(* The events are kept, and in order.  What the log of events owes to crashes (events.js):
   whatever append or compaction a pulse is killed in, an event that was written whole can be read from its
   day's file until the summary that counts it is written, and the numbers of a file rise across pulses. *)
THEOREM EventsAreKept ==
  ASSUME OneAtATime
  PROVE  EventLogSpec => []EventsKeptInOrder
<1> QED BY LogInvHolds, LogInvSuffices, PTL

(***************************************************************************)
(* IssueCommands: issueSync.js                                             *)
(***************************************************************************)

\* Of a set of numbers one is the least: what a loop that counts up is proved by.
LEMMA Least == ASSUME NEW T \in SUBSET Nat, T # {} PROVE \E x \in T : \A y \in T : x <= y
<1>1. IsWellFoundedOn({ss \in Nat \X Nat : ss[1] < ss[2]}, Nat)
  BY NatLessThanWellFounded DEF OpToRel
<1>2. PICK R : R = {ss \in Nat \X Nat : ss[1] < ss[2]}
  OBVIOUS
<1>3. IsWellFoundedOn(R, Nat)
  BY <1>1, <1>2
<1>4. PICK x \in T : \A y \in T : <<y, x>> \notin R
  BY <1>3, WFMin
<1>5. ASSUME NEW y \in T
      PROVE  x <= y
  <2>1. <<y, x>> \notin R /\ x \in Nat /\ y \in Nat
    BY <1>4
  <2>2. <<y, x>> \in Nat \X Nat /\ <<y, x>>[1] = y /\ <<y, x>>[2] = x
    BY <2>1
  <2>3. ~(y < x)
    BY <1>2, <2>1, <2>2
  <2> QED BY <2>1, <2>3
<1> QED BY <1>5

TaskRecord == [status : {"pending", "running", "ended"}, completed : Nat, seen : Nat]
Said == [at : Nat, verb : {"retry", "cancel", "talk"}]

CommandTypes ==
  /\ iNow \in Nat \ {0} /\ iComments \in Seq(Said) /\ iListed \in Nat /\ iDirect \in Nat /\ iEnds \in Nat
  /\ iDisk \in TaskRecord /\ iMem \in TaskRecord /\ iPc \in {"idle", "listed", "read", "running"}
  /\ \A i \in 1..Len(iComments) : iComments[i].at <= iNow

\* The retries that were posted, and those posted up to a time.
Retries == {i \in 1..Len(iComments) : iComments[i].verb = "retry"}
RetriesUntil(time) == {i \in Retries : iComments[i].at <= time}

\* Reviving an ended task takes a retry posted after its end, so what is asked for stays ahead
\* of the ends: by one while the task is queued or runs.
Earned(task) ==
  IF task.status = "ended"
  THEN task.completed \in 1..iNow /\ iEnds <= 1 + iDirect + Cardinality(RetriesUntil(task.completed))
  ELSE iEnds <= iDirect + Cardinality(Retries)

CommandsInv ==
  /\ CommandTypes
  /\ Earned(iDisk)
  /\ iPc # "idle" => Earned(iMem)
  /\ iPc = "running" => iMem.status = "running"

\* Retries up to a time are some of all, and not all if one is later.
LEMMA RetriesCount ==
  ASSUME CommandTypes, NEW time \in Nat
  PROVE  /\ Cardinality(Retries) \in Nat /\ Cardinality(RetriesUntil(time)) \in Nat
         /\ Cardinality(RetriesUntil(time)) <= Cardinality(Retries)
         /\ (\E i \in Retries : iComments[i].at > time)
              => Cardinality(RetriesUntil(time)) + 1 <= Cardinality(Retries)
         /\ time >= iNow => RetriesUntil(time) = Retries
<1>1. Len(iComments) \in Nat /\ Retries \subseteq 1..Len(iComments) /\ RetriesUntil(time) \subseteq Retries
  BY LenProperties DEF CommandTypes, Retries, RetriesUntil
<1>2. IsFiniteSet(Retries)
  <2>1. IsFiniteSet(1..Len(iComments))
    BY <1>1, FS_Interval
  <2> QED BY <1>1, <2>1, FS_Subset
<1>3. /\ IsFiniteSet(RetriesUntil(time)) /\ Cardinality(RetriesUntil(time)) <= Cardinality(Retries)
      /\ Cardinality(Retries) = Cardinality(RetriesUntil(time)) => RetriesUntil(time) = Retries
  BY <1>1, <1>2, FS_Subset
<1>4. Cardinality(Retries) \in Nat /\ Cardinality(RetriesUntil(time)) \in Nat
  BY <1>2, <1>3, FS_CardinalityType
<1>5. \A i \in Retries : iComments[i].at \in Nat /\ iComments[i].at <= iNow /\ iNow \in Nat
  <2>1. iComments \in [1..Len(iComments) -> Said]
    BY LenProperties DEF CommandTypes
  <2>2. \A i \in 1..Len(iComments) : iComments[i] \in Said
    BY <2>1
  <2> QED BY <2>2 DEF CommandTypes, Retries, Said
<1>6. ASSUME NEW i \in Retries, iComments[i].at > time
      PROVE  RetriesUntil(time) # Retries
  BY <1>5, <1>6 DEF RetriesUntil
<1>7. time >= iNow => RetriesUntil(time) = Retries
  BY <1>5 DEF RetriesUntil
<1> QED BY <1>3, <1>4, <1>6, <1>7


\* A loop of N turns, each of which makes a record of the one before, and the records it goes through.
Turns(T, N, Rec) == T \in [1..N -> [Rec -> Rec]]
Course(f, first, T, N, Rec) == f \in [0..N -> Rec] /\ f[0] = first /\ \A n \in 1..N : f[n] = T[n][f[n - 1]]

\* A loop that counts to N comes to its end.
LEMMA LoopIsDefined ==
  ASSUME NEW N \in Nat, NEW first, NEW Turn, NEW Rec, first \in Rec, Turns(Turn, N, Rec)
  PROVE  \E f : Course(f, first, Turn, N, Rec)
<1> USE DEF Turns, Course
<1> DEFINE Is(g, m) == g \in [0..m -> Rec] /\ g[0] = first /\ \A n \in 1..m : g[n] = Turn[n][g[n - 1]]
           Stuck == {m \in 0..N : ~\E g : Is(g, m)}
<1>0. Stuck \in SUBSET Nat /\ \A m \in 0..N : m \in Nat /\ (m \in Stuck <=> ~\E g : Is(g, m))
  <2> HIDE DEF Is
  <2> QED OBVIOUS
<1>1. ASSUME Stuck # {}
      PROVE  FALSE
  <2>0. PICK m \in Stuck : \A k \in Stuck : m <= k
    <3> HIDE DEF Stuck
    <3> QED BY <1>0, <1>1, Least
  <2>1. m \in 0..N /\ \A k \in Stuck : m <= k
    BY <2>0
  <2>2. m \in Nat /\ ~\E g : Is(g, m)
    BY <1>0, <2>0
  <2>3. CASE m = 0
    <3>1. Is([n \in 0..0 |-> first], 0)
      OBVIOUS
    <3> QED BY <2>2, <2>3, <3>1
  <2>4. CASE m # 0
    <3>1. m - 1 \in 0..N /\ ~(m <= m - 1)
      BY <2>1, <2>2, <2>4
    <3>2. PICK g : Is(g, m - 1)
      <4> HIDE DEF Stuck, Is
      <4>1. m - 1 \notin Stuck
        BY <2>1, <3>1
      <4> QED BY <1>0, <3>1, <4>1
    <3>3. PICK h : h = [n \in 0..m |-> IF n = m THEN Turn[m][g[m - 1]] ELSE g[n]]
      OBVIOUS
    <3>4. g \in [0..(m - 1) -> Rec] /\ g[0] = first /\ \A n \in 1..(m - 1) : g[n] = Turn[n][g[n - 1]]
      BY <3>2
    <3>5. /\ \A n \in 0..(m - 1) : n \in 0..m /\ n # m /\ h[n] = g[n]
          /\ h[m] = Turn[m][g[m - 1]] /\ m - 1 \in 0..(m - 1) /\ 0 \in 0..(m - 1) /\ m \in 1..N
      BY <2>2, <2>4, <3>3
    <3>6. h[m] \in Rec
      BY <3>4, <3>5
    <3>7. h \in [0..m -> Rec]
      BY <2>2, <2>4, <3>3, <3>4, <3>5, <3>6
    <3>8. ASSUME NEW n \in 1..m
          PROVE  h[n] = Turn[n][h[n - 1]]
      <4>1. CASE n = m
        BY <2>2, <3>5, <4>1
      <4>2. CASE n # m
        <5>1. n \in 1..(m - 1) /\ n \in 0..(m - 1) /\ n - 1 \in 0..(m - 1)
          BY <2>2, <4>2
        <5> QED BY <3>4, <3>5, <5>1
      <4> QED BY <4>1, <4>2
    <3>9. Is(h, m)
      BY <3>4, <3>5, <3>7, <3>8
    <3> QED BY <2>2, <3>9
  <2> QED BY <2>3, <2>4
<1>2. PICK f : Is(f, N)
  <2> HIDE DEF Stuck, Is
  <2>1. N \in 0..N /\ N \notin Stuck
    BY <1>1
  <2> QED BY <1>0, <2>1
<1> QED BY <1>2

\* What a task can have become by comments: it has not changed, or it is queued, or ended now; and
\* an ended one changed by a retry from after its end.
Touched(task, next) ==
  /\ next \in TaskRecord
  /\ next.status \in {"pending", "ended"}
  /\ next.status = "ended" => next.completed = iNow
  /\ task.status = "ended" => \E i \in Retries : iComments[i].at > task.completed

\* applyCommand: one comment more.
LEMMA OneComment ==
  ASSUME CommandTypes, NEW task \in TaskRecord, Earned(task), NEW n \in 1..Len(iComments),
         NEW r, r = task \/ Touched(task, r),
         NEW next, next = IF n \in New(task) /\ ThisLife(task, iComments[n]) THEN Obeyed(r, iComments[n].verb) ELSE r
  PROVE  next = task \/ Touched(task, next)
<1>1. PICK c \in Said : c = iComments[n]
  <2>1. iComments \in [1..Len(iComments) -> Said]
    BY LenProperties DEF CommandTypes
  <2> QED BY <2>1
<1>2. CASE next = r
  BY <1>2
<1>3. CASE ThisLife(task, c) /\ next = Obeyed(r, c.verb) /\ next # r
  <2>1. r \in TaskRecord /\ iNow \in Nat
    BY DEF Touched, CommandTypes
  <2>2. CASE c.verb = "retry" /\ r.status = "ended" /\ next = [r EXCEPT !.status = "pending", !.completed = 0]
    <3>1. next \in TaskRecord /\ next.status = "pending"
      <4>1. 0 \in Nat
        OBVIOUS
      <4> QED BY <2>1, <2>2, <4>1 DEF TaskRecord
    <3>2. ASSUME task.status = "ended"
          PROVE  \E i \in Retries : iComments[i].at > task.completed
      <4>1. task.completed \in 1..iNow
        BY <3>2 DEF Earned
      <4>2. c.at > task.completed
        BY <1>3, <2>1, <2>2, <4>1 DEF ThisLife
      <4> QED BY <1>1, <2>2, <4>2 DEF Retries
    <3> QED BY <3>1, <3>2 DEF Touched
  <2>3. CASE r.status = "pending" /\ next = [r EXCEPT !.status = "ended", !.completed = iNow]
    <3>1. next \in TaskRecord /\ next.status = "ended" /\ next.completed = iNow
      BY <2>1, <2>3 DEF TaskRecord
    <3>2. task.status = "ended" => \E i \in Retries : iComments[i].at > task.completed
      BY <2>3 DEF Touched
    <3> QED BY <3>1, <3>2 DEF Touched
  <2> QED BY <1>3, <2>2, <2>3 DEF Obeyed
<1> QED BY <1>1, <1>2, <1>3

\* A task that the comments have not changed, or changed this way, is still earned.
LEMMA TouchedIsEarned ==
  ASSUME CommandTypes, NEW task \in TaskRecord, Earned(task), NEW next, Touched(task, next)
  PROVE  Earned(next)
<1>1. iNow \in Nat /\ iNow # 0 /\ iEnds \in Nat /\ iDirect \in Nat /\ task.completed \in Nat
  BY DEF CommandTypes, TaskRecord
<1>2. Cardinality(Retries) \in Nat /\ RetriesUntil(iNow) = Retries
  BY <1>1, RetriesCount
<1>3. iEnds <= iDirect + Cardinality(Retries)
  <2>1. CASE task.status = "ended"
    <3>1. iEnds <= 1 + iDirect + Cardinality(RetriesUntil(task.completed))
      BY <2>1 DEF Earned
    <3>2. /\ Cardinality(RetriesUntil(task.completed)) \in Nat
          /\ Cardinality(RetriesUntil(task.completed)) + 1 <= Cardinality(Retries)
      BY <1>1, <2>1, RetriesCount DEF Touched
    <3> QED BY <1>1, <1>2, <3>1, <3>2
  <2>2. CASE task.status # "ended"
    BY <2>2 DEF Earned
  <2> QED BY <2>1, <2>2
<1>4. CASE next.status = "ended"
  <2>1. next.completed = iNow /\ iNow \in 1..iNow
    BY <1>1, <1>4 DEF Touched
  <2>2. iEnds <= 1 + iDirect + Cardinality(Retries)
    BY <1>1, <1>2, <1>3
  <2> QED BY <1>2, <1>4, <2>1, <2>2 DEF Earned
<1>5. CASE next.status # "ended"
  BY <1>3, <1>5 DEF Earned
<1> QED BY <1>4, <1>5

\* reconcileIssueState's loop over the new comments.
LEMMA CommentsAreEarned ==
  ASSUME CommandTypes, NEW task \in TaskRecord, Earned(task)
  PROVE  After(task) \in TaskRecord /\ Earned(After(task))
<1> DEFINE N == Len(iComments)
           Body(f) == [n \in 0..N |-> IF n = 0 THEN task
                                      ELSE IF n \in New(task) /\ ThisLife(task, iComments[n])
                                           THEN Obeyed(f[n - 1], iComments[n].verb)
                                           ELSE f[n - 1]]
           OK(r) == r = task \/ Touched(task, r)
<1>1. N \in Nat
  BY LenProperties DEF CommandTypes
<1>2. \E f : f = Body(f)
  <2> DEFINE Some == TaskRecord
             Turn == [n \in 1..N |-> [r \in Some |->
                        IF n \in New(task) /\ ThisLife(task, iComments[n]) THEN Obeyed(r, iComments[n].verb) ELSE r]]
  <2>1. ASSUME NEW n \in 1..N, NEW r \in TaskRecord
        PROVE  (IF n \in New(task) /\ ThisLife(task, iComments[n]) THEN Obeyed(r, iComments[n].verb) ELSE r) \in TaskRecord
    BY DEF Obeyed, TaskRecord, CommandTypes
  <2>2. Turn \in [1..N -> [Some -> Some]]
    BY <2>1
  <2>3. PICK f \in [0..N -> Some] : f[0] = task /\ \A n \in 1..N : f[n] = Turn[n][f[n - 1]]
    <3>1. task \in Some
      OBVIOUS
    <3>2. PICK T, K : T = Turn /\ K = N
      OBVIOUS
    <3> HIDE DEF Turn, Some, N
    <3>3. \E f \in [0..K -> Some] : f[0] = task /\ \A n \in 1..K : f[n] = T[n][f[n - 1]]
      <4>1. K \in Nat /\ Turns(T, K, Some)
        BY <1>1, <2>2, <3>2 DEF Turns
      <4>2. PICK f : Course(f, task, T, K, Some)
        BY <3>1, <4>1, LoopIsDefined
      <4> QED BY <4>2 DEF Course
    <3> QED BY <3>2, <3>3
  <2>4. ASSUME NEW n \in 0..N, n # 0
        PROVE  f[n] = IF n \in New(task) /\ ThisLife(task, iComments[n])
                      THEN Obeyed(f[n - 1], iComments[n].verb) ELSE f[n - 1]
    <3>1. n \in 1..N /\ n - 1 \in 0..N
      BY <1>1, <2>4
    <3>2. f[n - 1] \in Some
      BY <2>3, <3>1
    <3> QED BY <2>3, <3>1, <3>2
  <2>5. f = Body(f)
    BY <2>3, <2>4
  <2> QED BY <2>5
<1>3. After(task) = (CHOOSE f : f = Body(f))[N]
  BY DEF After
<1>4. PICK f : f = Body(f) /\ After(task) = f[N]
  <2> HIDE DEF Body, N
  <2>1. PICK f : f = CHOOSE g : g = Body(g)
    OBVIOUS
  <2>2. f = Body(f)
    BY <1>2, <2>1
  <2> QED BY <1>3, <2>1, <2>2
<1>5. ASSUME NEW n \in 0..N
      PROVE  OK(f[n])
  <2> DEFINE Bad == {m \in 0..N : ~OK(f[m])}
  <2>0. Bad \in SUBSET Nat /\ \A m \in 0..N : m \in Nat /\ (m \in Bad <=> ~OK(f[m]))
    <3> HIDE DEF OK
    <3> QED OBVIOUS
  <2>1. ASSUME Bad # {}
        PROVE  FALSE
    <3>1. PICK m \in Bad : \A k \in Bad : m <= k
      <4> HIDE DEF Bad
      <4> QED BY <2>0, <2>1, Least
    <3>2. m \in 0..N /\ m \in Nat /\ ~OK(f[m]) /\ \A k \in Bad : m <= k
      BY <2>0, <3>1
    <3>3. f[m] = Body(f)[m]
      BY <1>4
    <3>4. m # 0
      BY <3>2, <3>3
    <3>5. m - 1 \in 0..N /\ ~(m <= m - 1) /\ m \in 1..N
      BY <1>1, <3>2, <3>4
    <3>6. OK(f[m - 1])
      <4> HIDE DEF Bad, OK
      <4>1. m - 1 \notin Bad
        BY <3>2, <3>5
      <4> QED BY <2>0, <3>5, <4>1
    <3>7. f[m] = IF m \in New(task) /\ ThisLife(task, iComments[m])
                 THEN Obeyed(f[m - 1], iComments[m].verb) ELSE f[m - 1]
      BY <3>2, <3>3, <3>4
    <3>8. f[m] = task \/ Touched(task, f[m])
      <4> HIDE DEF Body, Bad
      <4> QED BY <3>5, <3>6, <3>7, OneComment
    <3> QED BY <3>2, <3>8
  <2>2. n \notin Bad
    BY <2>1
  <2> HIDE DEF OK, Bad
  <2> QED BY <2>0, <2>2
<1>6. OK(After(task))
  <2> HIDE DEF OK
  <2> QED BY <1>1, <1>4, <1>5
<1> QED BY <1>6, TouchedIsEarned DEF Touched

\* Time passes, a comment is posted, the owner's workflow runs: what was earned stays so.
LEMMA EarnedStays ==
  ASSUME CommandTypes, CommandTypes', iNow <= iNow', iEnds' = iEnds, iDirect <= iDirect',
         iComments' = iComments \/ \E comment \in Said : iComments' = Append(iComments, comment),
         NEW task \in TaskRecord, Earned(task)
  PROVE  Earned(task)'
<1>1. PICK time \in Nat : time = task.completed
  BY DEF TaskRecord
<1>2. PICK A, B, C, D : /\ A = Retries /\ B = RetriesUntil(time)
                        /\ C = {i \in 1..Len(iComments') : iComments'[i].verb = "retry"}
                        /\ D = {i \in C : iComments'[i].at <= time}
  OBVIOUS
<1>3. \A i \in 1..Len(iComments) : i \in 1..Len(iComments') /\ iComments'[i] = iComments[i]
  <2>1. CASE iComments' = iComments
    BY <2>1
  <2>2. ASSUME NEW comment \in Said, iComments' = Append(iComments, comment)
        PROVE  \A i \in 1..Len(iComments) : i \in 1..Len(iComments') /\ iComments'[i] = iComments[i]
    <3>1. iComments \in Seq(Said) /\ Len(iComments) \in Nat
      BY LenProperties DEF CommandTypes
    <3> QED BY <2>2, <3>1, AppendProperties
  <2> QED BY <2>1, <2>2
<1>4. A \subseteq C /\ B \subseteq D /\ D \subseteq C
  BY <1>2, <1>3 DEF Retries, RetriesUntil
<1>5. IsFiniteSet(C)
  <2>1. Len(iComments') \in Nat
    BY LenProperties DEF CommandTypes
  <2>2. IsFiniteSet(1..Len(iComments')) /\ C \subseteq 1..Len(iComments')
    BY <1>2, <2>1, FS_Interval
  <2> QED BY <2>2, FS_Subset
<1>6. IsFiniteSet(D) /\ Cardinality(A) <= Cardinality(C)
  BY <1>4, <1>5, FS_Subset
<1>7. Cardinality(B) <= Cardinality(D)
  BY <1>4, <1>6, FS_Subset
<1>8. Cardinality(C) \in Nat /\ Cardinality(D) \in Nat
  BY <1>5, <1>6, FS_CardinalityType
<1>9. Cardinality(A) \in Nat /\ Cardinality(B) \in Nat
  BY <1>1, <1>2, RetriesCount
<1>10. iNow \in Nat /\ iNow' \in Nat /\ iEnds \in Nat /\ iDirect \in Nat /\ iDirect' \in Nat
  BY DEF CommandTypes
<1>11. CASE task.status = "ended"
  <2>1. time \in 1..iNow /\ iEnds <= 1 + iDirect + Cardinality(B)
    BY <1>1, <1>2, <1>11 DEF Earned
  <2>2. time \in 1..iNow' /\ iEnds' <= 1 + iDirect' + Cardinality(D)
    BY <1>7, <1>8, <1>9, <1>10, <2>1
  <2> QED BY <1>1, <1>2, <1>11, <2>2 DEF Earned, Retries, RetriesUntil
<1>12. CASE task.status # "ended"
  <2>1. iEnds <= iDirect + Cardinality(A)
    BY <1>2, <1>12 DEF Earned
  <2>2. iEnds' <= iDirect' + Cardinality(C)
    BY <1>6, <1>8, <1>9, <1>10, <2>1
  <2> QED BY <1>2, <1>12, <2>2 DEF Earned, Retries
<1> QED BY <1>11, <1>12

\* A task in the file and a task in hand, both earned before a step that only adds to what was asked.
LEMMA CommandsInductive == CommandsInv /\ [IssueCommandsNext]_iVars => CommandsInv'
<1> SUFFICES ASSUME CommandsInv, [IssueCommandsNext]_iVars
             PROVE  CommandsInv'
  OBVIOUS
<1>1. CommandTypes /\ iDisk \in TaskRecord /\ iMem \in TaskRecord
  BY DEF CommandsInv, CommandTypes
<1>2. /\ iNow \in Nat \ {0} /\ iEnds \in Nat /\ iDirect \in Nat /\ iListed \in Nat
      /\ Cardinality(Retries) \in Nat /\ RetriesUntil(iNow) = Retries
  BY <1>1, RetriesCount DEF CommandTypes
<1>3. ASSUME UNCHANGED <<iNow, iComments, iEnds, iDirect>>, NEW task \in TaskRecord, Earned(task)
      PROVE  Earned(task)'
  BY <1>3 DEF Earned, Retries, RetriesUntil
<1>4. CASE SecondPasses
  <2>1. CommandTypes'
    <3>1. iNow' \in Nat \ {0} /\ iNow' = iNow + 1 /\ iComments' = iComments
      BY <1>2, <1>4 DEF SecondPasses
    <3>2. iComments \in [1..Len(iComments) -> Said]
      BY <1>1, LenProperties DEF CommandTypes
    <3>3. \A i \in 1..Len(iComments) : iComments[i].at \in Nat /\ iComments[i].at <= iNow
      <4>1. \A i \in 1..Len(iComments) : iComments[i] \in Said
        BY <3>2
      <4> QED BY <1>1, <4>1 DEF CommandTypes, Said
    <3>4. \A i \in 1..Len(iComments') : iComments'[i].at <= iNow'
      BY <1>2, <3>1, <3>3
    <3> QED BY <1>1, <1>4, <3>1, <3>4 DEF SecondPasses, CommandTypes
  <2>2. iNow <= iNow' /\ iEnds' = iEnds /\ iDirect <= iDirect' /\ iComments' = iComments
    BY <1>2, <1>4 DEF SecondPasses
  <2>3. \A task \in TaskRecord : Earned(task) => Earned(task)'
    BY <1>1, <2>1, <2>2, EarnedStays
  <2> QED BY <1>1, <1>4, <2>1, <2>3 DEF SecondPasses, CommandsInv, Earned, Retries, RetriesUntil
<1>5. ASSUME NEW verb \in {"retry", "cancel", "talk"}, PostComment(verb)
      PROVE  CommandsInv'
  <2>1. PICK comment \in Said : /\ comment = [at |-> iNow, verb |-> verb]
                                /\ iComments' = Append(iComments, comment)
    BY <1>2, <1>5 DEF PostComment, Said
  <2>2. CommandTypes'
    <3>1. iComments \in Seq(Said)
      BY <1>1 DEF CommandTypes
    <3>2. /\ iComments' \in Seq(Said) /\ Len(iComments') = Len(iComments) + 1 /\ Len(iComments) \in Nat
          /\ \A i \in 1..Len(iComments) : iComments'[i] = iComments[i]
          /\ iComments'[Len(iComments) + 1] = comment
      BY <2>1, <3>1, AppendProperties, LenProperties
    <3>3. \A i \in 1..Len(iComments') : iComments'[i].at <= iNow
      <4> SUFFICES ASSUME NEW i \in 1..Len(iComments')
                   PROVE  iComments'[i].at <= iNow
        OBVIOUS
      <4>1. CASE i \in 1..Len(iComments)
        BY <1>1, <3>2, <4>1 DEF CommandTypes
      <4>2. CASE i = Len(iComments) + 1
        BY <1>2, <2>1, <3>2, <4>2
      <4> QED BY <3>2, <4>1, <4>2
    <3> QED BY <1>1, <1>5, <3>2, <3>3 DEF PostComment, CommandTypes
  <2>3. iNow <= iNow' /\ iEnds' = iEnds /\ iDirect <= iDirect'
    BY <1>2, <1>5 DEF PostComment
  <2>4. \A task \in TaskRecord : Earned(task) => Earned(task)'
    BY <1>1, <2>1, <2>2, <2>3, EarnedStays
  <2> QED BY <1>1, <1>5, <2>2, <2>4 DEF PostComment, CommandsInv, Earned, Retries, RetriesUntil
<1>6. CASE ListIssue
  <2>1. UpdatedAt \in Nat
    <3>1. iComments \in Seq(Said)
      BY <1>1 DEF CommandTypes
    <3>2. CASE iComments # <<>>
      <4>1. Len(iComments) \in Nat /\ iComments \in [1..Len(iComments) -> Said] /\ Len(iComments) # 0
        BY <3>1, <3>2, LenProperties, EmptySeq
      <4>2. iComments[Len(iComments)] \in Said
        BY <4>1
      <4> QED BY <3>2, <4>2 DEF UpdatedAt, Said
    <3> QED BY <3>2 DEF UpdatedAt
  <2>2. PICK task \in TaskRecord : task = Reclaimed(iDisk)
    BY <1>1 DEF Reclaimed, TaskRecord
  <2>3. Earned(task)
    BY <1>1, <2>2 DEF Reclaimed, CommandsInv, Earned, TaskRecord
  <2>4. CommandTypes'
    BY <1>1, <1>6, <2>1, <2>2 DEF ListIssue, CommandTypes
  <2>5. Earned(task)' /\ iMem' = task
    BY <1>3, <1>6, <2>2, <2>3 DEF ListIssue
  <2>6. \A t \in TaskRecord : Earned(t) => Earned(t)'
    BY <1>3, <1>6 DEF ListIssue
  <2> QED BY <1>1, <1>6, <2>4, <2>5, <2>6 DEF ListIssue, CommandsInv, Earned, Retries, RetriesUntil
<1>7. CASE ReadComments
  <2>1. Earned(iMem)
    BY <1>7 DEF ReadComments, CommandsInv
  <2>2. PICK read : read = After(iMem)
    OBVIOUS
  <2>3. read \in TaskRecord /\ Earned(read)
    BY <1>1, <2>1, <2>2, CommentsAreEarned
  <2>4. PICK task : /\ task \in TaskRecord /\ Earned(task)
                    /\ iMem' = task \/ iMem' = [task EXCEPT !.seen = iListed]
    <3>1. iMem' = iMem \/ iMem' = [read EXCEPT !.seen = iListed] \/ iMem' = [iMem EXCEPT !.seen = iListed]
      BY <1>7, <2>2 DEF ReadComments
    <3> QED BY <1>1, <2>1, <2>3, <3>1
  <2>5. PICK next \in TaskRecord : /\ iMem' = next /\ Earned(next)
    <3>1. iMem' \in TaskRecord /\ iMem'.status = task.status /\ iMem'.completed = task.completed
      BY <1>2, <2>4 DEF TaskRecord
    <3> QED BY <2>4, <3>1 DEF Earned
  <2>6. CommandTypes'
    BY <1>1, <1>7, <2>5 DEF ReadComments, CommandTypes
  <2>7. \A t \in TaskRecord : Earned(t) => Earned(t)'
    BY <1>3, <1>7 DEF ReadComments
  <2>8. iPc' = "read" /\ iDisk' = iDisk /\ Earned(next)'
    BY <1>7, <2>5, <2>7 DEF ReadComments
  <2>9. Earned(iDisk)'
    BY <1>1, <2>7, <2>8 DEF CommandsInv, Earned, Retries, RetriesUntil
  <2>10. Earned(iMem)'
    BY <2>5, <2>8 DEF Earned, Retries, RetriesUntil
  <2> QED BY <2>6, <2>8, <2>9, <2>10 DEF CommandsInv
<1>8. CASE StartRun
  <2>1. PICK task \in TaskRecord : task = [iMem EXCEPT !.status = "running", !.completed = 0]
    <3>1. 0 \in Nat
      OBVIOUS
    <3> QED BY <1>1, <3>1 DEF TaskRecord
  <2>2. task.status = "running" /\ Earned(task)
    <3>1. Earned(iMem) /\ iMem.status = "pending"
      BY <1>8 DEF StartRun, CommandsInv
    <3> QED BY <1>1, <2>1, <3>1 DEF Earned, TaskRecord
  <2>3. iMem' = task /\ iDisk' = task
    BY <1>8, <2>1 DEF StartRun
  <2>4. CommandTypes'
    BY <1>1, <1>8, <2>3 DEF StartRun, CommandTypes
  <2>5. Earned(task)'
    BY <1>3, <1>8, <2>2 DEF StartRun
  <2> QED BY <2>2, <2>3, <2>4, <2>5 DEF CommandsInv, Earned, Retries, RetriesUntil
<1>9. CASE EndOfRun
  <2>1. PICK task \in TaskRecord : task = [iMem EXCEPT !.status = "ended", !.completed = iNow]
    BY <1>1, <1>2 DEF TaskRecord
  <2>2. task.status = "ended" /\ task.completed = iNow
    BY <1>1, <2>1 DEF TaskRecord
  <2>3. iEnds <= iDirect + Cardinality(Retries)
    BY <1>9 DEF EndOfRun, CommandsInv, Earned
  <2>4. iMem' = task /\ iDisk' = task /\ iPc' = "idle" /\ iEnds' = iEnds + 1 /\ UNCHANGED <<iNow, iComments, iDirect>>
    BY <1>9, <2>1 DEF EndOfRun
  <2>5. CommandTypes'
    BY <1>1, <1>2, <1>9, <2>4 DEF EndOfRun, CommandTypes
  <2>6. PICK R : R = Retries /\ R = RetriesUntil(iNow)
    BY <1>2
  <2>7. iEnds' <= 1 + iDirect' + Cardinality(R) /\ iNow' \in 1..iNow'
    BY <1>2, <2>3, <2>4, <2>6
  <2>8. Earned(iDisk)'
    <3>1. R = RetriesUntil(iDisk.completed)'
      BY <2>2, <2>4, <2>6 DEF Retries, RetriesUntil
    <3> QED BY <2>2, <2>4, <2>7, <3>1 DEF Earned
  <2> QED BY <2>4, <2>5, <2>8 DEF CommandsInv
<1>10. CASE SaveAndStop
  <2>1. Earned(iMem) /\ iDisk' = iMem /\ iPc' = "idle"
    BY <1>10 DEF SaveAndStop, CommandsInv
  <2>2. CommandTypes'
    BY <1>1, <1>10 DEF SaveAndStop, CommandTypes
  <2>3. \A t \in TaskRecord : Earned(t) => Earned(t)'
    BY <1>3, <1>10 DEF SaveAndStop
  <2> QED BY <1>1, <2>1, <2>2, <2>3 DEF CommandsInv, Earned, Retries, RetriesUntil
<1>11. CASE PulseKilled
  <2>1. CommandTypes'
    BY <1>1, <1>11 DEF PulseKilled, CommandTypes
  <2>2. \A t \in TaskRecord : Earned(t) => Earned(t)'
    BY <1>3, <1>11 DEF PulseKilled
  <2> QED BY <1>1, <1>11, <2>1, <2>2 DEF PulseKilled, CommandsInv, Earned, Retries, RetriesUntil
<1>12. ASSUME NEW verb \in {"retry", "cancel"}, DirectCommand(verb)
       PROVE  CommandsInv'
  <2>1. PICK task : task = Obeyed(iDisk, verb) /\ iDisk' = task /\ iPc' = "idle"
    BY <1>12 DEF DirectCommand
  <2>2. task \in TaskRecord
    BY <1>1, <1>2, <2>1 DEF Obeyed, TaskRecord
  <2>3. iDirect' = iDirect + 1 /\ UNCHANGED <<iNow, iComments, iMem, iListed, iEnds>>
    BY <1>12 DEF DirectCommand
  <2>4. CommandTypes'
    BY <1>1, <1>2, <2>1, <2>2, <2>3 DEF CommandTypes
  <2>5. PICK R : R = Retries /\ R = RetriesUntil(iNow)
    BY <1>2
  <2>6. iEnds' <= iDirect' + Cardinality(R)
    <3>1. CASE iDisk.status = "ended"
      <4>1. iEnds <= 1 + iDirect + Cardinality(RetriesUntil(iDisk.completed)) /\ iDisk.completed \in Nat
        BY <1>1, <3>1 DEF CommandsInv, Earned, TaskRecord
      <4>2. /\ Cardinality(RetriesUntil(iDisk.completed)) \in Nat
            /\ Cardinality(RetriesUntil(iDisk.completed)) <= Cardinality(R)
        BY <1>1, <2>5, <4>1, RetriesCount
      <4> QED BY <1>2, <2>3, <2>5, <4>1, <4>2
    <3>2. CASE iDisk.status # "ended"
      BY <1>2, <2>3, <2>5, <3>2 DEF CommandsInv, Earned
    <3> QED BY <3>1, <3>2
  <2>7. task.status = "ended" => task.completed = iNow
    BY <1>1, <1>12, <2>1 DEF DirectCommand, Obeyed, TaskRecord
  <2>8. Earned(iDisk)'
    <3>1. CASE task.status = "ended"
      <4>1. R = RetriesUntil(iDisk.completed)'
        BY <2>1, <2>3, <2>5, <2>7, <3>1 DEF Retries, RetriesUntil
      <4>2. task.completed \in 1..iNow' /\ iEnds' <= 1 + iDirect' + Cardinality(R)
        BY <1>2, <2>3, <2>5, <2>6, <2>7, <3>1
      <4> QED BY <2>1, <3>1, <4>1, <4>2 DEF Earned
    <3>2. CASE task.status # "ended"
      <4>1. R = Retries'
        BY <2>3, <2>5 DEF Retries
      <4> QED BY <2>1, <2>6, <3>2, <4>1 DEF Earned
    <3> QED BY <3>1, <3>2
  <2> QED BY <2>1, <2>4, <2>8 DEF CommandsInv
<1>13. CASE UNCHANGED iVars
  BY <1>13 DEF iVars, CommandsInv, CommandTypes, Earned, Retries, RetriesUntil
<1> QED BY <1>4, <1>5, <1>6, <1>7, <1>8, <1>9, <1>10, <1>11, <1>12, <1>13 DEF IssueCommandsNext

\* The issue is filed and taken in: nothing has been asked, nothing has ended.
LEMMA CommandsBegin == IssueCommandsInit => CommandsInv
<1> SUFFICES ASSUME IssueCommandsInit
             PROVE  CommandsInv
  OBVIOUS
<1>1. CommandTypes
  BY DEF IssueCommandsInit, CommandTypes, TaskRecord, Said
<1>2. Retries = {} /\ Cardinality(Retries) = 0
  BY FS_EmptySet DEF IssueCommandsInit, Retries
<1> QED BY <1>1, <1>2 DEF IssueCommandsInit, CommandsInv, Earned

(* issueSync.js: however often a comment is read again, and in whatever order a pulse lists the issue,
   reads its comments and saves, a task runs to its end at most once for the issue and once for each
   retry. *)
THEOREM RunsAreAskedFor == IssueCommandsSpec => []RunsAskedFor
<1>1. CommandsInv => RunsAskedFor
  <2> SUFFICES ASSUME CommandsInv
               PROVE  RunsAskedFor
    OBVIOUS
  <2>1. CommandTypes /\ iDisk \in TaskRecord /\ iEnds \in Nat /\ iDirect \in Nat
    BY DEF CommandsInv, CommandTypes
  <2>2. RetriesAsked = iDirect + Cardinality(Retries)
    BY DEF RetriesAsked, Retries
  <2>3. PICK time \in Nat : time = iDisk.completed
    BY <2>1 DEF TaskRecord
  <2>4. /\ Cardinality(Retries) \in Nat /\ Cardinality(RetriesUntil(time)) \in Nat
        /\ Cardinality(RetriesUntil(time)) <= Cardinality(Retries)
    BY <2>1, RetriesCount
  <2>5. iEnds <= 1 + iDirect + Cardinality(RetriesUntil(time)) \/ iEnds <= iDirect + Cardinality(Retries)
    BY <2>3 DEF CommandsInv, Earned
  <2> QED BY <2>1, <2>2, <2>4, <2>5 DEF RunsAskedFor
<1> QED BY <1>1, CommandsBegin, CommandsInductive, PTL DEF IssueCommandsSpec

(***************************************************************************)
(* Plans: decomposer.js                                                    *)
(***************************************************************************)

\* What makes a recursive definition with N levels a definition: two functions that agree on the
\* first n levels are made into two that agree on the next one as well.
Deepens(B, Same, F, N) ==
  /\ B \in [F -> F] /\ Same \in [0..(N + 1) -> [F -> SUBSET F]]
  /\ \A f \in F, g \in F : g \in Same[0][f]
  /\ \A n \in 0..N, f \in F, g \in F : g \in Same[n][f] => B[g] \in Same[n + 1][B[f]]
  /\ \A f \in F, g \in F : g \in Same[N + 1][f] => f = g

\* Then it has a value.
LEMMA RecursionEnds ==
  ASSUME NEW N \in Nat, NEW F, NEW B, NEW Same, NEW first \in F, Deepens(B, Same, F, N)
  PROVE  \E f \in F : f = B[f]
<1>1. /\ B \in [F -> F] /\ \A f \in F : B[f] \in F
      /\ \A f \in F, g \in F : g \in Same[0][f]
      /\ \A n \in 0..N, f \in F, g \in F : g \in Same[n][f] => B[g] \in Same[n + 1][B[f]]
      /\ \A f \in F, g \in F : g \in Same[N + 1][f] => f = g
  BY DEF Deepens
<1>2. PICK c : Course(c, first, [n \in 1..(N + 1) |-> B], N + 1, F)
  <2>1. PICK T : T = [n \in 1..(N + 1) |-> B]
    OBVIOUS
  <2>2. Turns(T, N + 1, F) /\ N + 1 \in Nat
    BY <1>1, <2>1 DEF Turns
  <2>3. \E c : Course(c, first, T, N + 1, F)
    BY <2>2, LoopIsDefined
  <2> QED BY <2>1, <2>3
<1>3. c \in [0..(N + 1) -> F] /\ \A n \in 1..(N + 1) : c[n] = B[c[n - 1]]
  BY <1>2 DEF Course
<1> DEFINE Bad == {n \in 0..(N + 1) : B[c[n]] \notin Same[n][c[n]]}
<1>4. Bad \in SUBSET Nat
  OBVIOUS
<1>5. ASSUME Bad # {}
      PROVE  FALSE
  <2>1. PICK m \in Bad : \A k \in Bad : m <= k
    <3> HIDE DEF Bad
    <3> QED BY <1>4, <1>5, Least
  <2>2. m \in 0..(N + 1) /\ B[c[m]] \notin Same[m][c[m]]
    BY <2>1
  <2>3. m # 0
    BY <1>1, <1>3, <2>2
  <2>4. m - 1 \in 0..N /\ m - 1 \in 0..(N + 1) /\ m \in 1..(N + 1) /\ (m - 1) + 1 = m /\ ~(m <= m - 1)
    BY <2>2, <2>3
  <2>5. PICK k, d : k = m - 1 /\ d = c[m - 1]
    OBVIOUS
  <2>6. k \in 0..N /\ k + 1 = m /\ d \in F /\ c[m] = B[d]
    BY <1>3, <2>4, <2>5
  <2>7. B[d] \in Same[k][d]
    <3>1. m - 1 \notin Bad
      BY <2>1, <2>4
    <3> QED BY <2>4, <2>5, <3>1
  <2>8. B[B[d]] \in Same[k + 1][B[d]]
    BY <1>1, <2>6, <2>7
  <2> QED BY <2>2, <2>6, <2>8
<1>6. N + 1 \in 0..(N + 1) /\ c[N + 1] \in F
  BY <1>3
<1>7. B[c[N + 1]] \in Same[N + 1][c[N + 1]]
  BY <1>5, <1>6
<1> QED BY <1>1, <1>6, <1>7

\* The element that FoldSet takes out of a set.
Pick(s) == CHOOSE x \in s : TRUE

\* It is one of the set.
LEMMA PickIsIn == ASSUME NEW s, s # {} PROVE Pick(s) \in s
BY DEF Pick

\* What holds of no elements, and of one more than it holds of, holds of a finite set.
LEMMA OneByOne ==
  ASSUME NEW S, IsFiniteSet(S), NEW Ok, {} \in Ok,
         \A s \in SUBSET S : s # {} /\ s \ {Pick(s)} \in Ok => s \in Ok
  PROVE  S \in Ok
<1> DEFINE Bad == {n \in Nat : \E s \in SUBSET S : s \notin Ok /\ Cardinality(s) = n}
<1>1. ASSUME NEW s \in SUBSET S
      PROVE  IsFiniteSet(s) /\ Cardinality(s) \in Nat
  BY FS_Subset, FS_CardinalityType
<1>2. ASSUME Bad # {}
      PROVE  FALSE
  <2>1. PICK n \in Bad : \A k \in Bad : n <= k
    <3>1. Bad \in SUBSET Nat
      OBVIOUS
    <3> HIDE DEF Bad
    <3> QED BY <1>2, <3>1, Least
  <2>2. PICK s \in SUBSET S : s \notin Ok /\ Cardinality(s) = n
    BY <2>1
  <2>3. s # {} /\ Pick(s) \in s
    BY <2>2, PickIsIn
  <2>4. PICK r : r = s \ {Pick(s)}
    OBVIOUS
  <2>5. r \in SUBSET S /\ r \notin Ok
    BY <2>2, <2>3, <2>4
  <2>6. Cardinality(r) \in Nat /\ Cardinality(r) = n - 1 /\ n \in Nat
    BY <1>1, <2>2, <2>3, <2>4, <2>5, FS_RemoveElement
  <2>7. Cardinality(r) \in Bad
    BY <2>5, <2>6
  <2> QED BY <2>1, <2>6, <2>7
<1>3. CASE Bad = {}
  <2>1. Cardinality(S) \in Nat /\ Cardinality(S) \notin Bad
    BY <1>1, <1>3
  <2> QED BY <2>1
<1> QED BY <1>2, <1>3

\* What visit() may be, as a function of the step and of the marks.
Visitors == [PlanSteps -> [Marks -> Marks]]

\* The marks after the elements of s, one by one.
LooksAt(it, visit, m, S) ==
  /\ it \in [SUBSET S -> Marks] /\ it[{}] = m
  /\ \A s \in SUBSET S : s # {} => it[s] = LookAt(visit, Pick(s), it[s \ {Pick(s)}])

\* To look at a step leaves marks.
LEMMA LookMarks ==
  ASSUME NEW visit \in Visitors, NEW dep \in PlanSteps, NEW m \in Marks
  PROVE  LookAt(visit, dep, m) \in Marks
<1>1. visit[dep][m] \in Marks
  BY DEF Visitors
<1>2. [m EXCEPT !.found = TRUE] \in Marks
  BY DEF Marks
<1> QED BY <1>1, <1>2 DEF LookAt

\* The loop over a list of steps goes through each of them.
LEMMA LookingEnds ==
  ASSUME IsFiniteSet(PlanSteps), NEW visit \in Visitors, NEW m \in Marks, NEW S \in SUBSET PlanSteps
  PROVE  \E it : LooksAt(it, visit, m, S) /\ LookAtAll(visit, m, S) = it[S]
<1> DEFINE Body(it) == [s \in SUBSET S |-> IF s = {} THEN m ELSE LookAt(visit, Pick(s), it[s \ {Pick(s)}])]
<1>1. PICK F : F = [SUBSET S -> Marks]
  OBVIOUS
<1>2. ASSUME NEW s \in SUBSET S, s # {}
      PROVE  /\ Pick(s) \in s /\ Pick(s) \in PlanSteps /\ s \ {Pick(s)} \in SUBSET S
             /\ Cardinality(s) \in Nat /\ Cardinality(s \ {Pick(s)}) = Cardinality(s) - 1
  <2>1. Pick(s) \in s
    BY <1>2, PickIsIn
  <2>2. IsFiniteSet(s) /\ Cardinality(s) \in Nat
    BY FS_Subset, FS_CardinalityType
  <2> QED BY <2>1, <2>2, FS_RemoveElement
<1>3. ASSUME NEW it \in F
      PROVE  Body(it) \in F
  <2>1. ASSUME NEW s \in SUBSET S, s # {}
        PROVE  LookAt(visit, Pick(s), it[s \ {Pick(s)}]) \in Marks
    <3>1. it[s \ {Pick(s)}] \in Marks /\ Pick(s) \in PlanSteps
      BY <1>1, <1>2, <2>1
    <3> QED BY <3>1, LookMarks
  <2> QED BY <1>1, <2>1
<1>4. PICK N : N \in Nat /\ N = Cardinality(S)
  BY FS_Subset, FS_CardinalityType
<1>5. PICK B, Same : /\ B = [it \in F |-> Body(it)]
                     /\ Same = [n \in 0..(N + 1) |-> [f \in F |->
                          {g \in F : \A s \in SUBSET S : Cardinality(s) < n => f[s] = g[s]}]]
  OBVIOUS
<1>6. Deepens(B, Same, F, N)
  <2>1. B \in [F -> F] /\ Same \in [0..(N + 1) -> [F -> SUBSET F]]
    BY <1>3, <1>5
  <2>2. ASSUME NEW n \in 0..(N + 1), NEW f \in F, NEW g \in F
        PROVE  g \in Same[n][f] <=> \A s \in SUBSET S : Cardinality(s) < n => f[s] = g[s]
    BY <1>5
  <2>3. ASSUME NEW f \in F, NEW g \in F
        PROVE  g \in Same[0][f]
    <3>1. \A s \in SUBSET S : Cardinality(s) \in Nat
      BY FS_Subset, FS_CardinalityType
    <3>2. 0 \in 0..(N + 1) /\ \A s \in SUBSET S : ~(Cardinality(s) < 0)
      BY <1>4, <3>1
    <3> QED BY <2>2, <3>2
  <2>4. ASSUME NEW n \in 0..N, NEW f \in F, NEW g \in F, g \in Same[n][f]
        PROVE  B[g] \in Same[n + 1][B[f]]
    <3>1. n \in 0..(N + 1) /\ n + 1 \in 0..(N + 1) /\ n \in Nat
      BY <1>4
    <3>2. \A s \in SUBSET S : Cardinality(s) < n => f[s] = g[s]
      BY <2>2, <2>4, <3>1
    <3>3. ASSUME NEW s \in SUBSET S, Cardinality(s) < n + 1
          PROVE  Body(f)[s] = Body(g)[s]
      <4>1. CASE s = {}
        BY <4>1
      <4>2. CASE s # {}
        <5>1. PICK r, x : r = s \ {Pick(s)} /\ x = Pick(s)
          OBVIOUS
        <5>2. r \in SUBSET S /\ Cardinality(r) < n
          BY <1>2, <3>1, <3>3, <4>2, <5>1
        <5>3. f[r] = g[r]
          BY <3>2, <5>2
        <5> QED BY <4>2, <5>1, <5>3
      <4> QED BY <4>1, <4>2
    <3>4. B[f] \in F /\ B[g] \in F /\ B[f] = Body(f) /\ B[g] = Body(g)
      BY <1>3, <1>5
    <3> HIDE DEF Body
    <3> QED BY <2>2, <3>1, <3>3, <3>4
  <2>5. ASSUME NEW f \in F, NEW g \in F, g \in Same[N + 1][f]
        PROVE  f = g
    <3>1. ASSUME NEW s \in SUBSET S
          PROVE  f[s] = g[s]
      <4>1. IsFiniteSet(S)
        BY FS_Subset
      <4>2. Cardinality(s) \in Nat /\ Cardinality(s) <= N
        BY <1>4, <4>1, FS_Subset, FS_CardinalityType
      <4>3. N + 1 \in 0..(N + 1) /\ Cardinality(s) < N + 1
        BY <1>4, <4>2
      <4> QED BY <2>2, <2>5, <4>3
    <3> QED BY <1>1, <3>1
  <2> QED BY <2>1, <2>3, <2>4, <2>5 DEF Deepens
<1>7. \E it : it = Body(it)
  <2>1. PICK some : some = [s \in SUBSET S |-> m]
    OBVIOUS
  <2>2. some \in F
    BY <1>1, <2>1
  <2>3. PICK it \in F : it = B[it]
    BY <1>4, <1>6, <2>2, RecursionEnds
  <2> HIDE DEF Body
  <2> QED BY <1>5, <2>3
<1>8. LookAtAll(visit, m, S) = (CHOOSE it : it = Body(it))[S]
  BY DEF LookAtAll, FoldSet, MapThenFoldSet, Pick
<1>9. PICK it : it = Body(it) /\ LookAtAll(visit, m, S) = it[S]
  <2> HIDE DEF Body
  <2>1. PICK it : it = CHOOSE jt : jt = Body(jt)
    OBVIOUS
  <2>2. it = Body(it)
    BY <1>7, <2>1
  <2> QED BY <1>8, <2>1, <2>2
<1>10. it[{}] = m /\ \A s \in SUBSET S : s # {} => it[s] = LookAt(visit, Pick(s), it[s \ {Pick(s)}])
  BY <1>9
<1>11. ASSUME NEW s \in SUBSET S
       PROVE  it[s] \in Marks
  <2>1. PICK Ok : Ok = {r \in SUBSET s : it[r] \in Marks}
    OBVIOUS
  <2>2. {} \in Ok
    BY <1>10, <2>1
  <2>3. ASSUME NEW r \in SUBSET s, r # {}, r \ {Pick(r)} \in Ok
        PROVE  r \in Ok
    <3>1. PICK x, q : x = Pick(r) /\ q = r \ {Pick(r)}
      OBVIOUS
    <3>2. x \in PlanSteps /\ it[q] \in Marks /\ it[r] = LookAt(visit, x, it[q])
      BY <1>2, <1>10, <2>1, <2>3, <3>1
    <3>3. it[r] \in Marks
      BY <3>2, LookMarks
    <3> QED BY <2>1, <3>3
  <2>4. IsFiniteSet(s)
    BY FS_Subset
  <2>5. s \in Ok
    BY <2>2, <2>3, <2>4, OneByOne
  <2> QED BY <2>1, <2>5
<1>12. it \in [SUBSET S -> Marks]
  BY <1>9, <1>11
<1> QED BY <1>9, <1>10, <1>12 DEF LooksAt

\* A visit finds a cycle, or takes its step off the stack and marks it done, and forgets nothing.
Visited(id, m, r) == r.found \/ (r.under = m.under \ {id} /\ m.done \cup {id} \subseteq r.done)
Walkers == {visit \in Visitors : \A id \in PlanSteps, m \in Marks : Visited(id, m, visit[id][m])}

\* What is under way stays so while the dependencies of a step are looked at, and in the end each is done.
Seen(m, s, r) == r.found \/ (r.under = m.under /\ m.done \cup s \subseteq r.done)

\* To look at one more dependency, as the loop in visit() does, leaves it done as well, or a cycle found.
LEMMA OneLook ==
  ASSUME NEW visit \in Walkers, NEW m \in Marks, NEW s, NEW x \in s, NEW n \in Marks,
         Seen(m, s \ {x}, n), x \in PlanSteps
  PROVE  Seen(m, s, LookAt(visit, x, n))
<1>1. CASE n.found \/ x \in n.done
  BY <1>1 DEF Seen, LookAt
<1>2. CASE ~n.found /\ x \notin n.done /\ x \in n.under
  BY <1>2 DEF Seen, LookAt, Marks
<1>3. CASE ~n.found /\ x \notin n.done /\ x \notin n.under
  <2>1. LookAt(visit, x, n) = visit[x][n] /\ Visited(x, n, visit[x][n])
    BY <1>3 DEF LookAt, Walkers
  <2>2. n.under = m.under /\ m.done \cup (s \ {x}) \subseteq n.done
    BY <1>3 DEF Seen
  <2>3. PICK r : r = visit[x][n]
    OBVIOUS
  <2>4. r.found \/ (r.under = n.under \ {x} /\ n.done \cup {x} \subseteq r.done)
    BY <2>1, <2>3 DEF Visited
  <2>5. r.found \/ (r.under = m.under /\ m.done \cup s \subseteq r.done)
    BY <1>3, <2>2, <2>4
  <2> QED BY <2>1, <2>3, <2>5 DEF Seen
<1> QED BY <1>1, <1>2, <1>3

\* So the loop of visit() over the dependencies of a step leaves them all done, or has found a cycle.
LEMMA LooksSeen ==
  ASSUME IsFiniteSet(PlanSteps), NEW visit \in Walkers, NEW m \in Marks, NEW S \in SUBSET PlanSteps,
         NEW it, LooksAt(it, visit, m, S)
  PROVE  \A s \in SUBSET S : it[s] \in Marks /\ Seen(m, s, it[s])
<1> SUFFICES ASSUME NEW s \in SUBSET S
             PROVE  it[s] \in Marks /\ Seen(m, s, it[s])
  OBVIOUS
<1>1. /\ it[{}] = m /\ \A r \in SUBSET S : it[r] \in Marks
      /\ \A r \in SUBSET S : r # {} => it[r] = LookAt(visit, Pick(r), it[r \ {Pick(r)}])
  BY DEF LooksAt
<1>2. PICK Ok : Ok = {r \in SUBSET s : Seen(m, r, it[r])}
  OBVIOUS
<1>3. {} \in Ok
  BY <1>1, <1>2 DEF Seen
<1>4. ASSUME NEW r \in SUBSET s, r # {}, r \ {Pick(r)} \in Ok
      PROVE  r \in Ok
  <2>1. PICK x, q : x = Pick(r) /\ q = r \ {Pick(r)}
    OBVIOUS
  <2>2. x \in r /\ x \in PlanSteps /\ it[q] \in Marks /\ it[r] = LookAt(visit, x, it[q]) /\ Seen(m, r \ {x}, it[q])
    BY <1>1, <1>2, <1>4, <2>1, PickIsIn
  <2>3. Seen(m, r, it[r])
    BY <2>2, OneLook
  <2> QED BY <1>2, <2>3
<1>5. IsFiniteSet(s)
  BY FS_Subset
<1>6. s \in Ok
  BY <1>3, <1>4, <1>5, OneByOne
<1> QED BY <1>1, <1>2, <1>6

\* The body of visit().
VisitBy(visit, needs) == [id \in PlanSteps |-> [m \in Marks |-> Left(LookAtAll(visit, Begun(m, id), needs[id]), id)]]

\* To begin a visit puts its step on the stack and changes nothing else.
LEMMA BegunMarks ==
  ASSUME NEW m \in Marks, NEW id \in PlanSteps
  PROVE  /\ Begun(m, id) \in Marks /\ Begun(m, id).under = m.under \cup {id}
         /\ Begun(m, id).done = m.done /\ Begun(m, id).found = m.found
BY DEF Begun, Marks

\* To end a visit takes its step off the stack and marks it done, unless a cycle was found on the way.
LEMMA LeftMarks ==
  ASSUME NEW m \in Marks, NEW id \in PlanSteps
  PROVE  /\ Left(m, id) \in Marks /\ Left(m, id).found = m.found
         /\ ~m.found => Left(m, id).under = m.under \ {id} /\ Left(m, id).done = m.done \cup {id}
BY DEF Left, Marks

\* If the visits within visit() find a cycle or leave their step done, so does the visit itself.
LEMMA WalkersWalk ==
  ASSUME IsFiniteSet(PlanSteps), NEW needs \in [PlanSteps -> SUBSET PlanSteps], NEW visit \in Walkers
  PROVE  VisitBy(visit, needs) \in Walkers
<1>1. ASSUME NEW id \in PlanSteps, NEW m \in Marks
      PROVE  /\ Left(LookAtAll(visit, Begun(m, id), needs[id]), id) \in Marks
             /\ Visited(id, m, Left(LookAtAll(visit, Begun(m, id), needs[id]), id))
  <2>1. PICK b, S : b = Begun(m, id) /\ S = needs[id]
    OBVIOUS
  <2>2. b \in Marks /\ S \in SUBSET PlanSteps /\ visit \in Visitors
    BY <2>1, BegunMarks DEF Walkers
  <2>3. PICK it : LooksAt(it, visit, b, S) /\ LookAtAll(visit, b, S) = it[S]
    BY <2>2, LookingEnds
  <2>4. it[S] \in Marks /\ Seen(b, S, it[S])
    BY <2>2, <2>3, LooksSeen
  <2>5. PICK r : r = it[S]
    OBVIOUS
  <2>6. Left(r, id) \in Marks /\ Visited(id, m, Left(r, id))
    <3>1. r \in Marks /\ (r.found \/ (r.under = m.under \cup {id} /\ m.done \subseteq r.done))
      BY <2>1, <2>4, <2>5, BegunMarks DEF Seen
    <3> QED BY <3>1, LeftMarks DEF Visited
  <2> QED BY <2>1, <2>3, <2>5, <2>6
<1>2. PICK v : v = VisitBy(visit, needs)
  OBVIOUS
<1>3. /\ \A id \in PlanSteps, m \in Marks : v[id][m] = Left(LookAtAll(visit, Begun(m, id), needs[id]), id)
      /\ v \in [PlanSteps -> [Marks -> Marks]]
  BY <1>1, <1>2 DEF VisitBy
<1>4. \A id \in PlanSteps, m \in Marks : Visited(id, m, v[id][m])
  BY <1>1, <1>3
<1> QED BY <1>2, <1>3, <1>4 DEF Walkers, Visitors

\* How many steps are ahead of a visit.
Ahead(id, m) == PlanSteps \ (m.under \cup m.done \cup {id})

\* A visit within a visit has fewer ahead.
LEMMA FewerAhead ==
  ASSUME IsFiniteSet(PlanSteps), NEW id \in PlanSteps, NEW m \in Marks, NEW n \in Marks, NEW x \in PlanSteps,
         m.under \cup m.done \cup {id} \subseteq n.under \cup n.done, x \notin n.under \cup n.done
  PROVE  /\ Cardinality(Ahead(id, m)) \in Nat /\ Cardinality(Ahead(x, n)) \in Nat
         /\ Cardinality(Ahead(x, n)) < Cardinality(Ahead(id, m))
         /\ Cardinality(Ahead(id, m)) <= Cardinality(PlanSteps)
<1>1. PICK A, Z : A = Ahead(id, m) /\ Z = Ahead(x, n)
  OBVIOUS
<1>2. A \subseteq PlanSteps /\ Z \subseteq A /\ x \in A /\ x \notin Z
  BY <1>1 DEF Ahead
<1>3. IsFiniteSet(A) /\ Cardinality(A) <= Cardinality(PlanSteps)
  BY <1>2, FS_Subset
<1>4. IsFiniteSet(Z) /\ Cardinality(Z) <= Cardinality(A) /\ (Cardinality(Z) = Cardinality(A) => Z = A)
  BY <1>2, <1>3, FS_Subset
<1>5. Cardinality(A) \in Nat /\ Cardinality(Z) \in Nat
  BY <1>3, <1>4, FS_CardinalityType
<1>6. Cardinality(Z) # Cardinality(A)
  BY <1>2, <1>4
<1> QED BY <1>1, <1>3, <1>4, <1>5, <1>6

\* Two visitors that do the same with what a loop over dependencies may visit.
AlikeFrom(visit, walk, b) ==
  \A x \in PlanSteps, n \in Marks :
    ~n.found /\ n.under = b.under /\ b.done \subseteq n.done /\ x \notin n.under \cup n.done => visit[x][n] = walk[x][n]

\* Then the loop ends the same.
LEMMA LooksAlike ==
  ASSUME IsFiniteSet(PlanSteps), NEW walk \in Walkers, NEW visit, NEW b \in Marks, NEW S \in SUBSET PlanSteps,
         AlikeFrom(visit, walk, b)
  PROVE  LookAtAll(visit, b, S) = LookAtAll(walk, b, S)
<1> DEFINE Body(f) == [s \in SUBSET S |-> IF s = {} THEN b ELSE LookAt(visit, Pick(s), f[s \ {Pick(s)}])]
<1>1. PICK it : LooksAt(it, walk, b, S) /\ LookAtAll(walk, b, S) = it[S]
  BY LookingEnds DEF Walkers
<1>2. \A s \in SUBSET S : it[s] \in Marks /\ Seen(b, s, it[s])
  BY <1>1, LooksSeen
<1>3. /\ it \in [SUBSET S -> Marks] /\ it[{}] = b
      /\ \A s \in SUBSET S : s # {} => it[s] = LookAt(walk, Pick(s), it[s \ {Pick(s)}])
  BY <1>1 DEF LooksAt
<1>4. ASSUME NEW s \in SUBSET S, s # {}
      PROVE  it[s] = LookAt(visit, Pick(s), it[s \ {Pick(s)}])
  <2>1. PICK x, n, q : x = Pick(s) /\ q = s \ {Pick(s)} /\ n = it[q]
    OBVIOUS
  <2>2. x \in PlanSteps /\ n \in Marks /\ Seen(b, q, n) /\ it[s] = LookAt(walk, x, n)
    BY <1>2, <1>3, <1>4, <2>1, PickIsIn
  <2>3. CASE n.found \/ x \in n.done \/ x \in n.under
    BY <2>1, <2>2, <2>3 DEF LookAt
  <2>4. CASE ~n.found /\ x \notin n.done /\ x \notin n.under
    <3>1. visit[x][n] = walk[x][n]
      BY <2>2, <2>4 DEF AlikeFrom, Seen
    <3> QED BY <2>1, <2>2, <2>4, <3>1 DEF LookAt
  <2> QED BY <2>3, <2>4
<1>5. it = Body(it)
  BY <1>3, <1>4
<1>6. LookAtAll(visit, b, S) = (CHOOSE f : f = Body(f))[S]
  BY DEF LookAtAll, FoldSet, MapThenFoldSet, Pick
<1>7. PICK jt : jt = Body(jt) /\ LookAtAll(visit, b, S) = jt[S]
  <2> HIDE DEF Body
  <2>1. PICK jt : jt = CHOOSE f : f = Body(f)
    OBVIOUS
  <2>2. jt = Body(jt)
    BY <1>5, <2>1
  <2> QED BY <1>6, <2>1, <2>2
<1>8. jt[{}] = b /\ \A s \in SUBSET S : s # {} => jt[s] = LookAt(visit, Pick(s), jt[s \ {Pick(s)}])
  BY <1>7
<1>9. PICK Ok : Ok = {s \in SUBSET S : it[s] = jt[s]}
  OBVIOUS
<1>10. {} \in Ok
  BY <1>3, <1>8, <1>9
<1>11. ASSUME NEW s \in SUBSET S, s # {}, s \ {Pick(s)} \in Ok
       PROVE  s \in Ok
  <2>1. it[s \ {Pick(s)}] = jt[s \ {Pick(s)}]
    BY <1>9, <1>11
  <2> QED BY <1>4, <1>8, <1>9, <1>11, <2>1
<1>12. S \in Ok
  <2>1. IsFiniteSet(S)
    BY FS_Subset
  <2> QED BY <1>10, <1>11, <2>1, OneByOne
<1> QED BY <1>1, <1>7, <1>9, <1>12

\* A walk whose visits with fewer than k steps ahead are known is known of those with k.
LEMMA WalksAgree ==
  ASSUME IsFiniteSet(PlanSteps), NEW needs \in [PlanSteps -> SUBSET PlanSteps], NEW f, NEW g \in Walkers,
         NEW k \in Nat, \A id \in PlanSteps, m \in Marks : Cardinality(Ahead(id, m)) < k => f[id][m] = g[id][m],
         NEW id \in PlanSteps, NEW m \in Marks, Cardinality(Ahead(id, m)) < k + 1
  PROVE  VisitBy(f, needs)[id][m] = VisitBy(g, needs)[id][m]
<1>1. PICK b, S : b = Begun(m, id) /\ S = needs[id]
  OBVIOUS
<1>2. b \in Marks /\ S \in SUBSET PlanSteps /\ b.under = m.under \cup {id} /\ b.done = m.done
  BY <1>1, BegunMarks
<1>3. AlikeFrom(f, g, b)
  <2> SUFFICES ASSUME NEW x \in PlanSteps, NEW n \in Marks, ~n.found, n.under = b.under, b.done \subseteq n.done,
                      x \notin n.under \cup n.done
               PROVE  f[x][n] = g[x][n]
    BY DEF AlikeFrom
  <2>1. /\ Cardinality(Ahead(id, m)) \in Nat /\ Cardinality(Ahead(x, n)) \in Nat
        /\ Cardinality(Ahead(x, n)) < Cardinality(Ahead(id, m))
    BY <1>2, FewerAhead
  <2>2. Cardinality(Ahead(x, n)) < k
    BY <2>1
  <2> QED BY <2>2
<1>4. LookAtAll(f, b, S) = LookAtAll(g, b, S)
  BY <1>2, <1>3, LooksAlike
<1> QED BY <1>1, <1>4 DEF VisitBy

\* findCycle's recursion ends, whatever the plan depends on.
LEMMA WalkIsDefined ==
  ASSUME IsFiniteSet(PlanSteps), NEW needs \in [PlanSteps -> SUBSET PlanSteps]
  PROVE  \E visit \in Walkers : visit = VisitBy(visit, needs)
<1>1. PICK N : N \in Nat /\ N = Cardinality(PlanSteps)
  BY FS_CardinalityType
<1>2. PICK B, Same : /\ B = [visit \in Walkers |-> VisitBy(visit, needs)]
                     /\ Same = [n \in 0..(N + 1) |-> [f \in Walkers |-> {g \in Walkers :
                          \A id \in PlanSteps, m \in Marks : Cardinality(Ahead(id, m)) < n => f[id][m] = g[id][m]}]]
  OBVIOUS
<1>3. ASSUME NEW id \in PlanSteps, NEW m \in Marks
      PROVE  Cardinality(Ahead(id, m)) \in Nat /\ Cardinality(Ahead(id, m)) <= N
  <2>1. Ahead(id, m) \subseteq PlanSteps
    BY DEF Ahead
  <2> QED BY <1>1, <2>1, FS_Subset, FS_CardinalityType
<1>4. Deepens(B, Same, Walkers, N)
  <2>1. B \in [Walkers -> Walkers] /\ Same \in [0..(N + 1) -> [Walkers -> SUBSET Walkers]]
    BY <1>2, WalkersWalk
  <2>2. ASSUME NEW n \in 0..(N + 1), NEW f \in Walkers, NEW g \in Walkers
        PROVE  g \in Same[n][f]
                 <=> \A id \in PlanSteps, m \in Marks : Cardinality(Ahead(id, m)) < n => f[id][m] = g[id][m]
    BY <1>2
  <2>3. ASSUME NEW f \in Walkers, NEW g \in Walkers
        PROVE  g \in Same[0][f]
    <3>1. 0 \in 0..(N + 1) /\ \A id \in PlanSteps, m \in Marks : ~(Cardinality(Ahead(id, m)) < 0)
      BY <1>1, <1>3
    <3> QED BY <2>2, <3>1
  <2>4. ASSUME NEW n \in 0..N, NEW f \in Walkers, NEW g \in Walkers, g \in Same[n][f]
        PROVE  B[g] \in Same[n + 1][B[f]]
    <3>1. n \in 0..(N + 1) /\ n + 1 \in 0..(N + 1) /\ n \in Nat
      BY <1>1
    <3>2. \A id \in PlanSteps, m \in Marks : Cardinality(Ahead(id, m)) < n => f[id][m] = g[id][m]
      BY <2>2, <2>4, <3>1
    <3>3. \A id \in PlanSteps, m \in Marks :
            Cardinality(Ahead(id, m)) < n + 1 => VisitBy(f, needs)[id][m] = VisitBy(g, needs)[id][m]
      BY <3>1, <3>2, WalksAgree
    <3>4. B[f] \in Walkers /\ B[g] \in Walkers /\ B[f] = VisitBy(f, needs) /\ B[g] = VisitBy(g, needs)
      BY <1>2, WalkersWalk
    <3> QED BY <2>2, <3>1, <3>3, <3>4
  <2>5. ASSUME NEW f \in Walkers, NEW g \in Walkers, g \in Same[N + 1][f]
        PROVE  f = g
    <3>1. N + 1 \in 0..(N + 1) /\ \A id \in PlanSteps, m \in Marks : Cardinality(Ahead(id, m)) < N + 1
      BY <1>1, <1>3
    <3>2. \A id \in PlanSteps, m \in Marks : f[id][m] = g[id][m]
      BY <2>2, <2>5, <3>1
    <3>3. f \in [PlanSteps -> [Marks -> Marks]] /\ g \in [PlanSteps -> [Marks -> Marks]]
      BY DEF Walkers, Visitors
    <3>4. \A id \in PlanSteps : f[id] = g[id]
      BY <3>2, <3>3
    <3> QED BY <3>3, <3>4
  <2> QED BY <2>1, <2>3, <2>4, <2>5 DEF Deepens
<1>5. PICK some \in Walkers : TRUE
  <2>1. PICK over : over = [under |-> {}, done |-> {}, found |-> TRUE]
    OBVIOUS
  <2>2. over \in Marks /\ over.found
    BY <2>1 DEF Marks
  <2>3. PICK v : v = [id \in PlanSteps |-> [m \in Marks |-> over]]
    OBVIOUS
  <2>4. v \in [PlanSteps -> [Marks -> Marks]] /\ \A id \in PlanSteps, m \in Marks : v[id][m] = over
    BY <2>2, <2>3
  <2>5. v \in Walkers
    BY <2>2, <2>4 DEF Walkers, Visitors, Visited
  <2> QED BY <2>5
<1>6. PICK visit \in Walkers : visit = B[visit]
  BY <1>1, <1>4, <1>5, RecursionEnds
<1> QED BY <1>2, <1>6

\* And it has one value.
LEMMA WalkIsOnly ==
  ASSUME IsFiniteSet(PlanSteps), NEW needs \in [PlanSteps -> SUBSET PlanSteps], NEW walk \in Walkers,
         walk = VisitBy(walk, needs), NEW visit, visit = VisitBy(visit, needs)
  PROVE  visit = walk
<1> DEFINE Bad == {k \in Nat : \E id \in PlanSteps, m \in Marks :
                                  visit[id][m] # walk[id][m] /\ Cardinality(Ahead(id, m)) = k}
<1>1. ASSUME NEW id \in PlanSteps, NEW m \in Marks
      PROVE  Cardinality(Ahead(id, m)) \in Nat
  <2>1. Ahead(id, m) \subseteq PlanSteps
    BY DEF Ahead
  <2> QED BY <2>1, FS_Subset, FS_CardinalityType
<1>2. ASSUME Bad # {}
      PROVE  FALSE
  <2>1. PICK k \in Bad : \A j \in Bad : k <= j
    <3>1. Bad \in SUBSET Nat
      OBVIOUS
    <3> HIDE DEF Bad
    <3> QED BY <1>2, <3>1, Least
  <2>2. PICK id \in PlanSteps, m \in Marks : visit[id][m] # walk[id][m] /\ Cardinality(Ahead(id, m)) = k /\ k \in Nat
    BY <2>1
  <2>3. ASSUME NEW x \in PlanSteps, NEW n \in Marks, Cardinality(Ahead(x, n)) < k
        PROVE  visit[x][n] = walk[x][n]
    <3>1. Cardinality(Ahead(x, n)) \in Nat /\ Cardinality(Ahead(x, n)) \notin Bad
      BY <1>1, <2>1, <2>2, <2>3
    <3> QED BY <3>1
  <2>4. Cardinality(Ahead(id, m)) < k + 1
    BY <2>2
  <2>5. VisitBy(visit, needs)[id][m] = VisitBy(walk, needs)[id][m]
    BY <2>2, <2>3, <2>4, WalksAgree
  <2> QED BY <2>2, <2>5
<1>3. CASE Bad = {}
  <2>1. ASSUME NEW id \in PlanSteps, NEW m \in Marks
        PROVE  visit[id][m] = walk[id][m]
    <3>1. Cardinality(Ahead(id, m)) \in Nat /\ Cardinality(Ahead(id, m)) \notin Bad
      BY <1>1, <1>3
    <3> QED BY <3>1
  <2>2. PICK V, W : V = VisitBy(visit, needs) /\ W = VisitBy(walk, needs)
    OBVIOUS
  <2>3. ASSUME NEW id \in PlanSteps
        PROVE  V[id] = W[id]
    <3>1. PICK f, g : f = V[id] /\ g = W[id]
      OBVIOUS
    <3>2. f = [m \in Marks |-> f[m]] /\ g = [m \in Marks |-> g[m]] /\ \A m \in Marks : f[m] = g[m]
      <4>1. \A m \in Marks : V[id][m] = W[id][m]
        BY <2>1, <2>2
      <4> QED BY <2>2, <3>1, <4>1 DEF VisitBy
    <3> QED BY <3>1, <3>2
  <2>4. V = [id \in PlanSteps |-> V[id]] /\ W = [id \in PlanSteps |-> W[id]]
    BY <2>2 DEF VisitBy
  <2>5. V = W
    BY <2>3, <2>4
  <2> QED BY <2>2, <2>5
<1> QED BY <1>2, <1>3

\* Of any of these steps one waits for no other of them.
Startable(needs, D) == \A some \in (SUBSET D) \ {{}} : \E id \in some : needs[id] \cap some = {}

\* Marks while no cycle was met: what is done has all it needs done, in an order.
Sound(needs, m) ==
  ~m.found => /\ \A id \in m.done : needs[id] \subseteq m.done
              /\ Startable(needs, m.done)
              /\ m.under \cap m.done = {}

\* A step is done after all it needs.
LEMMA SoundGrows ==
  ASSUME NEW needs \in [PlanSteps -> SUBSET PlanSteps], NEW m \in Marks, NEW id \in PlanSteps, ~m.found,
         Sound(needs, m), needs[id] \subseteq m.done, id \in m.under
  PROVE  Sound(needs, Left(m, id))
<1>1. PICK D, r : D = m.done /\ r = Left(m, id)
  OBVIOUS
<1>2. r.done = D \cup {id} /\ r.under = m.under \ {id} /\ id \notin D /\ needs[id] \subseteq D
  BY <1>1, LeftMarks DEF Sound
<1>3. \A x \in D : needs[x] \subseteq D
  BY <1>1 DEF Sound
<1>4. ASSUME NEW some \in SUBSET (D \cup {id}), some # {}
      PROVE  \E x \in some : needs[x] \cap some = {}
  <2>1. CASE some \cap D = {}
    <3>1. some = {id}
      BY <1>4, <2>1
    <3> QED BY <1>2, <3>1
  <2>2. CASE some \cap D # {}
    <3>1. PICK x \in some \cap D : needs[x] \cap (some \cap D) = {}
      <4>1. some \cap D \in (SUBSET D) \ {{}}
        BY <2>2
      <4>2. Startable(needs, D)
        BY <1>1 DEF Sound
      <4>3. PICK S : S = some \cap D
        OBVIOUS
      <4>4. \E x \in S : needs[x] \cap S = {}
        BY <4>1, <4>2, <4>3 DEF Startable
      <4> QED BY <4>3, <4>4
    <3>2. needs[x] \subseteq D
      BY <1>3, <3>1
    <3> QED BY <3>1, <3>2
  <2> QED BY <2>1, <2>2
<1>5. Startable(needs, r.done)
  <2>1. \A some \in SUBSET (D \cup {id}) : some # {} => \E x \in some : needs[x] \cap some = {}
    BY <1>4
  <2>2. Startable(needs, D \cup {id})
    BY <2>1 DEF Startable
  <2> QED BY <1>2, <2>2
<1>6. \A x \in r.done : needs[x] \subseteq r.done
  BY <1>2, <1>3
<1>7. r.under \cap r.done = {}
  BY <1>1, <1>2 DEF Sound
<1> QED BY <1>1, <1>5, <1>6, <1>7 DEF Sound

\* Visits that have less ahead than one from here, or any, leave sound marks.
SoundFrom(needs, visit, b) ==
  \A x \in PlanSteps, n \in Marks :
    ~n.found /\ n.under = b.under /\ b.done \subseteq n.done /\ x \notin n.under \cup n.done /\ Sound(needs, n)
      => Sound(needs, visit[x][n])

\* The loop over dependencies keeps the marks sound.
LEMMA LooksSound ==
  ASSUME IsFiniteSet(PlanSteps), NEW needs \in [PlanSteps -> SUBSET PlanSteps], NEW visit \in Walkers,
         NEW b \in Marks, Sound(needs, b), SoundFrom(needs, visit, b), NEW S \in SUBSET PlanSteps
  PROVE  /\ LookAtAll(visit, b, S) \in Marks /\ Seen(b, S, LookAtAll(visit, b, S))
         /\ Sound(needs, LookAtAll(visit, b, S))
<1>1. PICK it : LooksAt(it, visit, b, S) /\ LookAtAll(visit, b, S) = it[S]
  BY LookingEnds DEF Walkers
<1>2. \A s \in SUBSET S : it[s] \in Marks /\ Seen(b, s, it[s])
  BY <1>1, LooksSeen
<1>3. PICK Ok : Ok = {s \in SUBSET S : Sound(needs, it[s])}
  OBVIOUS
<1>4. {} \in Ok
  BY <1>1, <1>3 DEF LooksAt
<1>5. ASSUME NEW s \in SUBSET S, s # {}, s \ {Pick(s)} \in Ok
      PROVE  s \in Ok
  <2>1. PICK x, q : x = Pick(s) /\ q = s \ {Pick(s)}
    OBVIOUS
  <2>2. x \in PlanSteps /\ q \in SUBSET S /\ Sound(needs, it[q]) /\ it[s] = LookAt(visit, x, it[q])
    BY <1>1, <1>3, <1>5, <2>1, PickIsIn DEF LooksAt
  <2>3. PICK n : n = it[q]
    OBVIOUS
  <2>4. n \in Marks /\ Seen(b, q, n) /\ Sound(needs, n)
    BY <1>2, <2>2, <2>3
  <2>5. Sound(needs, LookAt(visit, x, n))
    <3>1. CASE n.found \/ x \in n.done
      BY <2>4, <3>1 DEF LookAt
    <3>2. CASE ~n.found /\ x \notin n.done /\ x \in n.under
      <4>1. LookAt(visit, x, n).found
        BY <2>4, <3>2 DEF LookAt, Marks
      <4> QED BY <4>1 DEF Sound
    <3>3. CASE ~n.found /\ x \notin n.done /\ x \notin n.under
      <4>1. n.under = b.under /\ b.done \subseteq n.done
        BY <2>4, <3>3 DEF Seen
      <4>2. Sound(needs, visit[x][n])
        BY <2>2, <2>4, <3>3, <4>1 DEF SoundFrom
      <4> QED BY <3>3, <4>2 DEF LookAt
    <3> QED BY <3>1, <3>2, <3>3
  <2> QED BY <1>3, <2>2, <2>3, <2>5
<1>6. S \in Ok
  <2>1. IsFiniteSet(S)
    BY FS_Subset
  <2> QED BY <1>4, <1>5, <2>1, OneByOne
<1> QED BY <1>1, <1>2, <1>3, <1>6

\* A visit of a step that is not yet marked leaves sound marks.
LEMMA VisitsSound ==
  ASSUME IsFiniteSet(PlanSteps), NEW needs \in [PlanSteps -> SUBSET PlanSteps], NEW visit \in Walkers,
         visit = VisitBy(visit, needs)
  PROVE  \A id \in PlanSteps, m \in Marks :
           id \notin m.under \cup m.done /\ Sound(needs, m) => Sound(needs, visit[id][m])
<1> DEFINE Wrong(id, m) == id \notin m.under \cup m.done /\ Sound(needs, m) /\ ~Sound(needs, visit[id][m])
           Bad == {k \in Nat : \E id \in PlanSteps, m \in Marks : Wrong(id, m) /\ Cardinality(Ahead(id, m)) = k}
<1>1. ASSUME NEW id \in PlanSteps, NEW m \in Marks
      PROVE  Cardinality(Ahead(id, m)) \in Nat
  <2>1. Ahead(id, m) \subseteq PlanSteps
    BY DEF Ahead
  <2> QED BY <2>1, FS_Subset, FS_CardinalityType
<1>2. ASSUME Bad # {}
      PROVE  FALSE
  <2>1. PICK k \in Bad : \A j \in Bad : k <= j
    <3>1. Bad \in SUBSET Nat
      OBVIOUS
    <3> HIDE DEF Bad
    <3> QED BY <1>2, <3>1, Least
  <2>2. PICK id \in PlanSteps, m \in Marks : Wrong(id, m) /\ Cardinality(Ahead(id, m)) = k /\ k \in Nat
    BY <2>1
  <2>3. ASSUME NEW x \in PlanSteps, NEW n \in Marks, Cardinality(Ahead(x, n)) < k
        PROVE  ~Wrong(x, n)
    <3>1. Cardinality(Ahead(x, n)) \in Nat /\ Cardinality(Ahead(x, n)) \notin Bad
      BY <1>1, <2>1, <2>2, <2>3
    <3> HIDE DEF Wrong
    <3> QED BY <3>1
  <2>4. PICK b, S : b = Begun(m, id) /\ S = needs[id]
    OBVIOUS
  <2>5. /\ b \in Marks /\ b.under = m.under \cup {id} /\ b.done = m.done /\ b.found = m.found
        /\ S \in SUBSET PlanSteps
    BY <2>4, BegunMarks
  <2>6. Sound(needs, b)
    BY <2>2, <2>5 DEF Sound
  <2>7. SoundFrom(needs, visit, b)
    <3> SUFFICES ASSUME NEW x \in PlanSteps, NEW n \in Marks, ~n.found, n.under = b.under,
                        b.done \subseteq n.done, x \notin n.under \cup n.done, Sound(needs, n)
                 PROVE  Sound(needs, visit[x][n])
      BY DEF SoundFrom
    <3>1. Cardinality(Ahead(x, n)) < k
      BY <2>2, <2>5, FewerAhead
    <3> QED BY <2>3, <3>1
  <2>8. PICK r : r = LookAtAll(visit, b, S)
    OBVIOUS
  <2>9. r \in Marks /\ Seen(b, S, r) /\ Sound(needs, r)
    BY <2>5, <2>6, <2>7, <2>8, LooksSound
  <2>10. visit[id][m] = Left(r, id)
    <3>1. VisitBy(visit, needs)[id][m] = Left(r, id)
      BY <2>4, <2>8 DEF VisitBy
    <3> QED BY <3>1
  <2>11. Sound(needs, Left(r, id))
    <3>1. CASE r.found
      BY <2>9, <3>1, LeftMarks DEF Sound
    <3>2. CASE ~r.found
      <4>1. needs[id] \subseteq r.done /\ id \in r.under
        BY <2>4, <2>5, <2>9, <3>2 DEF Seen
      <4> QED BY <2>9, <3>2, <4>1, SoundGrows
    <3> QED BY <3>1, <3>2
  <2> QED BY <2>2, <2>10, <2>11
<1>3. CASE Bad = {}
  <2>1. ASSUME NEW id \in PlanSteps, NEW m \in Marks
        PROVE  ~Wrong(id, m)
    <3>1. Cardinality(Ahead(id, m)) \in Nat /\ Cardinality(Ahead(id, m)) \notin Bad
      BY <1>1, <1>3
    <3> HIDE DEF Wrong
    <3> QED BY <3>1
  <2> QED BY <2>1
<1> QED BY <1>2, <1>3

\* All that a step waits for, at any remove, and itself.
WaitedFor(needs, id) ==
  {x \in PlanSteps : \A Z \in SUBSET PlanSteps : id \in Z /\ (\A z \in Z : needs[z] \subseteq Z) => x \in Z}

\* It is closed under dependsOn, and made of the step and of what its dependencies wait for.
LEMMA WaitedForIs ==
  ASSUME NEW needs \in [PlanSteps -> SUBSET PlanSteps], NEW id \in PlanSteps
  PROVE  /\ id \in WaitedFor(needs, id)
         /\ \A dep \in needs[id] : WaitedFor(needs, dep) \subseteq WaitedFor(needs, id)
         /\ \A x \in WaitedFor(needs, id) : needs[x] \subseteq WaitedFor(needs, id)
         /\ \A x \in WaitedFor(needs, id) : x = id \/ \E dep \in needs[id] : x \in WaitedFor(needs, dep)
<1>1. id \in WaitedFor(needs, id)
  BY DEF WaitedFor
<1>2. \A dep \in needs[id] : WaitedFor(needs, dep) \subseteq WaitedFor(needs, id)
  BY DEF WaitedFor
<1>3. \A x \in WaitedFor(needs, id) : needs[x] \subseteq WaitedFor(needs, id)
  BY DEF WaitedFor
<1>4. ASSUME NEW x \in WaitedFor(needs, id), x # id, \A dep \in needs[id] : x \notin WaitedFor(needs, dep)
      PROVE  FALSE
  <2>1. PICK Z : Z = {id} \cup {y \in PlanSteps : \E dep \in needs[id] : y \in WaitedFor(needs, dep)}
    OBVIOUS
  <2>2. Z \in SUBSET PlanSteps /\ id \in Z /\ x \notin Z
    BY <1>4, <2>1
  <2>3. ASSUME NEW z \in Z
        PROVE  needs[z] \subseteq Z
    <3>1. CASE z = id
      <4>1. \A dep \in needs[id] : dep \in WaitedFor(needs, dep) /\ dep \in PlanSteps
        BY DEF WaitedFor
      <4> QED BY <2>1, <3>1, <4>1
    <3>2. CASE z # id
      <4>1. PICK dep \in needs[id] : z \in WaitedFor(needs, dep) /\ z \in PlanSteps
        BY <2>1, <3>2
      <4>2. needs[z] \subseteq WaitedFor(needs, dep) /\ needs[z] \subseteq PlanSteps
        BY <4>1 DEF WaitedFor
      <4> QED BY <2>1, <4>2
    <3> QED BY <3>1, <3>2
  <2> QED BY <2>2, <2>3 DEF WaitedFor
<1> QED BY <1>1, <1>2, <1>3, <1>4

\* Where steps can run in an order, none waits for itself.
LEMMA NoneWaitsForItself ==
  ASSUME NEW needs \in [PlanSteps -> SUBSET PlanSteps], Startable(needs, PlanSteps),
         NEW id \in PlanSteps, NEW dep \in needs[id]
  PROVE  id \notin WaitedFor(needs, dep)
<1> SUFFICES ASSUME id \in WaitedFor(needs, dep)
             PROVE  FALSE
  OBVIOUS
<1>1. PICK C : C = {x \in WaitedFor(needs, dep) : id \in WaitedFor(needs, x)}
  OBVIOUS
<1>2. dep \in PlanSteps /\ dep \in C /\ C \in SUBSET PlanSteps
  BY <1>1, WaitedForIs DEF WaitedFor
<1>3. PICK x \in C : needs[x] \cap C = {}
  BY <1>2 DEF Startable
<1>4. x \in PlanSteps /\ x \in WaitedFor(needs, dep) /\ id \in WaitedFor(needs, x)
  BY <1>1, <1>2, <1>3
<1>5. x # id
  BY <1>2, <1>3
<1>6. PICK y \in needs[x] : id \in WaitedFor(needs, y)
  BY <1>4, <1>5, WaitedForIs
<1>7. y \in WaitedFor(needs, dep)
  BY <1>2, <1>4, <1>6, WaitedForIs
<1> QED BY <1>1, <1>3, <1>6, <1>7

\* Visits that raise no alarm, where nothing they look at waits for what is under way.
QuietFrom(needs, visit, b) ==
  \A x \in PlanSteps, n \in Marks :
    ~n.found /\ n.under = b.under /\ b.done \subseteq n.done /\ x \notin n.under \cup n.done
      /\ n.under \cap WaitedFor(needs, x) = {} => ~visit[x][n].found

\* A loop over dependencies none of which waits for a step on the stack finds no cycle.
LEMMA LooksQuiet ==
  ASSUME IsFiniteSet(PlanSteps), NEW needs \in [PlanSteps -> SUBSET PlanSteps], NEW visit \in Walkers,
         NEW b \in Marks, ~b.found, QuietFrom(needs, visit, b), NEW S \in SUBSET PlanSteps,
         \A x \in S : b.under \cap WaitedFor(needs, x) = {}
  PROVE  ~LookAtAll(visit, b, S).found
<1>1. PICK it : LooksAt(it, visit, b, S) /\ LookAtAll(visit, b, S) = it[S]
  BY LookingEnds DEF Walkers
<1>2. \A s \in SUBSET S : it[s] \in Marks /\ Seen(b, s, it[s])
  BY <1>1, LooksSeen
<1>3. PICK Ok : Ok = {s \in SUBSET S : ~it[s].found}
  OBVIOUS
<1>4. {} \in Ok
  BY <1>1, <1>3 DEF LooksAt
<1>5. ASSUME NEW s \in SUBSET S, s # {}, s \ {Pick(s)} \in Ok
      PROVE  s \in Ok
  <2>1. PICK x, q : x = Pick(s) /\ q = s \ {Pick(s)}
    OBVIOUS
  <2>2. x \in S /\ x \in PlanSteps /\ q \in SUBSET S /\ ~it[q].found /\ it[s] = LookAt(visit, x, it[q])
    BY <1>1, <1>3, <1>5, <2>1, PickIsIn DEF LooksAt
  <2>3. PICK n : n = it[q]
    OBVIOUS
  <2>4. n \in Marks /\ n.under = b.under /\ b.done \subseteq n.done
    BY <1>2, <2>2, <2>3 DEF Seen
  <2>5. x \notin n.under /\ n.under \cap WaitedFor(needs, x) = {}
    BY <2>2, <2>4, WaitedForIs
  <2>6. ~LookAt(visit, x, n).found
    <3>1. CASE x \in n.done
      BY <2>2, <2>3, <3>1 DEF LookAt
    <3>2. CASE x \notin n.done
      <4>1. LookAt(visit, x, n) = visit[x][n]
        BY <2>2, <2>3, <2>5, <3>2 DEF LookAt
      <4> QED BY <2>2, <2>3, <2>4, <2>5, <3>2, <4>1 DEF QuietFrom
    <3> QED BY <3>1, <3>2
  <2> QED BY <1>3, <2>2, <2>3, <2>6
<1>6. S \in Ok
  <2>1. IsFiniteSet(S)
    BY FS_Subset
  <2> QED BY <1>4, <1>5, <2>1, OneByOne
<1> QED BY <1>1, <1>3, <1>6

\* Where a plan can be run in an order, visit() finds no cycle: it raises no false alarm.
LEMMA VisitsQuiet ==
  ASSUME IsFiniteSet(PlanSteps), NEW needs \in [PlanSteps -> SUBSET PlanSteps], Startable(needs, PlanSteps),
         NEW visit \in Walkers, visit = VisitBy(visit, needs)
  PROVE  \A id \in PlanSteps, m \in Marks :
           ~m.found /\ m.under \cap WaitedFor(needs, id) = {} => ~visit[id][m].found
<1> DEFINE Wrong(id, m) == ~m.found /\ m.under \cap WaitedFor(needs, id) = {} /\ visit[id][m].found
           Bad == {k \in Nat : \E id \in PlanSteps, m \in Marks : Wrong(id, m) /\ Cardinality(Ahead(id, m)) = k}
<1>1. ASSUME NEW id \in PlanSteps, NEW m \in Marks
      PROVE  Cardinality(Ahead(id, m)) \in Nat
  <2>1. Ahead(id, m) \subseteq PlanSteps
    BY DEF Ahead
  <2> QED BY <2>1, FS_Subset, FS_CardinalityType
<1>2. ASSUME Bad # {}
      PROVE  FALSE
  <2>1. PICK k \in Bad : \A j \in Bad : k <= j
    <3>1. Bad \in SUBSET Nat
      OBVIOUS
    <3> HIDE DEF Bad
    <3> QED BY <1>2, <3>1, Least
  <2>2. PICK id \in PlanSteps, m \in Marks : Wrong(id, m) /\ Cardinality(Ahead(id, m)) = k /\ k \in Nat
    BY <2>1
  <2>3. ASSUME NEW x \in PlanSteps, NEW n \in Marks, Cardinality(Ahead(x, n)) < k
        PROVE  ~Wrong(x, n)
    <3>1. Cardinality(Ahead(x, n)) \in Nat /\ Cardinality(Ahead(x, n)) \notin Bad
      BY <1>1, <2>1, <2>2, <2>3
    <3> HIDE DEF Wrong
    <3> QED BY <3>1
  <2>4. PICK b, S : b = Begun(m, id) /\ S = needs[id]
    OBVIOUS
  <2>5. /\ b \in Marks /\ b.under = m.under \cup {id} /\ b.done = m.done /\ b.found = m.found
        /\ S \in SUBSET PlanSteps
    BY <2>4, BegunMarks
  <2>6. \A x \in S : b.under \cap WaitedFor(needs, x) = {}
    <3>1. \A x \in S : WaitedFor(needs, x) \subseteq WaitedFor(needs, id) /\ id \notin WaitedFor(needs, x)
      BY <2>4, WaitedForIs, NoneWaitsForItself
    <3> QED BY <2>2, <2>5, <3>1
  <2>7. QuietFrom(needs, visit, b)
    <3> SUFFICES ASSUME NEW x \in PlanSteps, NEW n \in Marks, ~n.found, n.under = b.under,
                        b.done \subseteq n.done, x \notin n.under \cup n.done, n.under \cap WaitedFor(needs, x) = {}
                 PROVE  ~visit[x][n].found
      BY DEF QuietFrom
    <3>1. Cardinality(Ahead(x, n)) < k
      BY <2>2, <2>5, FewerAhead
    <3> QED BY <2>3, <3>1
  <2>8. PICK r : r = LookAtAll(visit, b, S)
    OBVIOUS
  <2>9. r \in Marks /\ ~r.found
    <3>1. PICK it : LooksAt(it, visit, b, S) /\ r = it[S]
      BY <2>5, <2>8, LookingEnds DEF Walkers
    <3>2. r \in Marks
      BY <2>5, <3>1 DEF LooksAt
    <3> QED BY <2>2, <2>5, <2>6, <2>7, <2>8, <3>2, LooksQuiet
  <2>10. visit[id][m] = Left(r, id)
    <3>1. VisitBy(visit, needs)[id][m] = Left(r, id)
      BY <2>4, <2>8 DEF VisitBy
    <3> QED BY <3>1
  <2> QED BY <2>2, <2>9, <2>10, LeftMarks
<1>3. CASE Bad = {}
  <2>1. ASSUME NEW id \in PlanSteps, NEW m \in Marks
        PROVE  ~Wrong(id, m)
    <3>1. Cardinality(Ahead(id, m)) \in Nat /\ Cardinality(Ahead(id, m)) \notin Bad
      BY <1>1, <1>3
    <3> HIDE DEF Wrong
    <3> QED BY <3>1
  <2> QED BY <2>1
<1> QED BY <1>2, <1>3

\* The walk that findCycle() makes.
LEMMA TheWalk ==
  ASSUME IsFiniteSet(PlanSteps), NEW tasks, NEW needs \in [PlanSteps -> SUBSET PlanSteps],
         needs = [id \in PlanSteps |-> DependsOn(tasks, id)]
  PROVE  \E visit \in Walkers : /\ visit = VisitBy(visit, needs)
                                /\ FindCycle(tasks) = LookAtAll(visit, Unmarked, IdsOf(tasks)).found
<1> DEFINE Is(v) == v = [id \in PlanSteps |-> [m \in Marks |-> Left(LookAtAll(v, Begun(m, id), DependsOn(tasks, id)), id)]]
<1>1. ASSUME NEW v
      PROVE  Is(v) <=> v = VisitBy(v, needs)
  BY DEF VisitBy
<1>2. FindCycle(tasks) = LookAtAll(CHOOSE v : Is(v), Unmarked, IdsOf(tasks)).found
  BY DEF FindCycle
<1> HIDE DEF Is
<1>3. PICK walk \in Walkers : walk = VisitBy(walk, needs)
  BY WalkIsDefined
<1>4. PICK v : v = CHOOSE u : Is(u)
  OBVIOUS
<1>5. v = VisitBy(v, needs)
  BY <1>1, <1>3, <1>4
<1>6. v = walk
  BY <1>3, <1>5, WalkIsOnly
<1> QED BY <1>2, <1>3, <1>4, <1>6

(* findCycle(), decomposer.js: it finds a cycle in a plan if and only if the plan has steps each of which
   waits for another of them, so that none of these could ever start. *)
THEOREM FindCycleIsExact ==
  ASSUME NEW tasks \in Replies
  PROVE  FindCycle(tasks)
           <=> \E some \in (SUBSET IdsOf(tasks)) \ {{}} : \A id \in some : DependsOn(tasks, id) \cap some # {}
<1>1. \A i \in DOMAIN tasks : tasks[i] \in StepRecord
  BY DEF Replies
<1>2. /\ IdsOf(tasks) \in SUBSET PlanSteps /\ \A id \in PlanSteps : DependsOn(tasks, id) \subseteq PlanSteps
      /\ \A id \in PlanSteps \ IdsOf(tasks) : DependsOn(tasks, id) = {}
  BY <1>1 DEF IdsOf, DependsOn, StepRecord
<1>3. IsFiniteSet(PlanSteps)
  BY PlansAssumption
<1>4. PICK needs : needs = [id \in PlanSteps |-> DependsOn(tasks, id)]
  OBVIOUS
<1>5. needs \in [PlanSteps -> SUBSET PlanSteps] /\ \A id \in PlanSteps : needs[id] = DependsOn(tasks, id)
  BY <1>2, <1>4
<1>6. PICK visit \in Walkers : /\ visit = VisitBy(visit, needs)
                               /\ FindCycle(tasks) = LookAtAll(visit, Unmarked, IdsOf(tasks)).found
  BY <1>3, <1>4, <1>5, TheWalk
<1>7. Unmarked \in Marks /\ Unmarked.done = {} /\ Unmarked.under = {} /\ ~Unmarked.found
  BY DEF Unmarked, Marks
<1>8. PICK r : r = LookAtAll(visit, Unmarked, IdsOf(tasks))
  OBVIOUS
<1>9. ~r.found => Startable(needs, IdsOf(tasks))
  <2>1. Sound(needs, Unmarked)
    BY <1>7 DEF Sound, Startable
  <2>2. SoundFrom(needs, visit, Unmarked)
    BY <1>3, <1>5, <1>6, VisitsSound DEF SoundFrom
  <2>3. r \in Marks /\ Seen(Unmarked, IdsOf(tasks), r) /\ Sound(needs, r)
    BY <1>2, <1>3, <1>5, <1>6, <1>7, <1>8, <2>1, <2>2, LooksSound
  <2>4. ~r.found => IdsOf(tasks) \subseteq r.done /\ Startable(needs, r.done)
    BY <2>3 DEF Seen, Sound
  <2> QED BY <2>4 DEF Startable
<1>10. Startable(needs, IdsOf(tasks)) => ~r.found
  <2> SUFFICES ASSUME Startable(needs, IdsOf(tasks))
               PROVE  ~r.found
    OBVIOUS
  <2>1. Startable(needs, PlanSteps)
    <3> SUFFICES ASSUME NEW some \in (SUBSET PlanSteps) \ {{}}
                 PROVE  \E id \in some : needs[id] \cap some = {}
      BY DEF Startable
    <3>1. CASE some \subseteq IdsOf(tasks)
      BY <3>1 DEF Startable
    <3>2. ASSUME NEW id \in some, id \notin IdsOf(tasks)
          PROVE  needs[id] \cap some = {}
      BY <1>2, <1>5, <3>2
    <3> QED BY <3>1, <3>2
  <2>2. QuietFrom(needs, visit, Unmarked)
    BY <1>3, <1>5, <1>6, <2>1, VisitsQuiet DEF QuietFrom
  <2>3. \A x \in IdsOf(tasks) : Unmarked.under \cap WaitedFor(needs, x) = {}
    BY <1>7
  <2> QED BY <1>2, <1>3, <1>5, <1>6, <1>7, <1>8, <2>2, <2>3, LooksQuiet
<1>11. Startable(needs, IdsOf(tasks))
         <=> \A some \in (SUBSET IdsOf(tasks)) \ {{}} : \E id \in some : DependsOn(tasks, id) \cap some = {}
  BY <1>2, <1>5 DEF Startable
<1> QED BY <1>6, <1>8, <1>9, <1>10, <1>11

\* PlanCanRun of a given plan.
CanRun(tasks, most) ==
  /\ Cardinality(IdsOf(tasks)) = Len(tasks) /\ Len(tasks) <= most
  /\ \A i \in DOMAIN tasks : tasks[i].dependsOn \subseteq IdsOf(tasks)
  /\ \A some \in (SUBSET IdsOf(tasks)) \ {{}} : \E id \in some : DependsOn(tasks, id) \cap some = {}

\* validateTaskGraph(): what it lets through can run.
LEMMA ValidCanRun ==
  ASSUME NEW tasks \in Replies, ValidGraph(tasks)
  PROVE  CanRun(tasks, pMost)
<1>1. ~FindCycle(tasks)
  BY DEF ValidGraph
<1>2. \A some \in (SUBSET IdsOf(tasks)) \ {{}} : \E id \in some : DependsOn(tasks, id) \cap some = {}
  BY <1>1, FindCycleIsExact
<1> QED BY <1>2 DEF ValidGraph, CanRun

\* The plan of one step can run, and no plan yet is none that cannot.
LEMMA ShortPlans ==
  ASSUME NEW most \in Nat \ {0}, NEW tasks, tasks = <<>> \/ tasks \in SingleTask
  PROVE  CanRun(tasks, most)
<1>1. CASE tasks = <<>>
  <2>1. IdsOf(tasks) = {} /\ Len(tasks) = 0 /\ DOMAIN tasks = {}
    BY <1>1 DEF IdsOf
  <2>2. Cardinality(IdsOf(tasks)) = 0
    BY <2>1, FS_EmptySet
  <2> QED BY <2>1, <2>2 DEF CanRun
<1>2. ASSUME NEW id \in PlanSteps, tasks = <<[id |-> id, dependsOn |-> {}]>>
      PROVE  CanRun(tasks, most)
  <2>1. Len(tasks) = 1 /\ DOMAIN tasks = {1} /\ tasks[1].id = id /\ tasks[1].dependsOn = {}
    BY <1>2
  <2>2. IdsOf(tasks) = {id} /\ DependsOn(tasks, id) = {}
    BY <2>1 DEF IdsOf, DependsOn
  <2>3. Cardinality(IdsOf(tasks)) = 1
    BY <2>2, FS_Singleton
  <2>4. ASSUME NEW some \in (SUBSET IdsOf(tasks)) \ {{}}
        PROVE  \E x \in some : DependsOn(tasks, x) \cap some = {}
    BY <2>2
  <2>5. \A i \in DOMAIN tasks : tasks[i].dependsOn \subseteq IdsOf(tasks)
    BY <2>1
  <2> QED BY <2>1, <2>3, <2>4, <2>5 DEF CanRun
<1> QED BY <1>1, <1>2 DEF SingleTask

(* decomposer.js: whatever a model answers, once or twice, the plan that a run takes, its own, a corrected
   one or the plan of one step, has an order in which it can be run to its end. *)
THEOREM PlansCanRun == PlansSpec => []PlanCanRun
<1> DEFINE Inv == pMost \in Nat \ {0} /\ PlanCanRun
<1>1. PlansInit => Inv
  <2> SUFFICES ASSUME PlansInit
               PROVE  Inv
    OBVIOUS
  <2>1. pMost \in Nat \ {0} /\ pGraph = <<>>
    BY PlansAssumption DEF PlansInit
  <2>2. CanRun(pGraph, pMost)
    BY <2>1, ShortPlans
  <2> QED BY <2>1, <2>2 DEF CanRun, PlanCanRun
<1>2. Inv /\ [PlansNext]_planVars => Inv'
  <2> SUFFICES ASSUME Inv, [PlansNext]_planVars
               PROVE  Inv'
    OBVIOUS
  <2>1. ASSUME NEW tasks \in SingleTask, Planned(tasks)
        PROVE  Inv'
    <3>1. CanRun(tasks, pMost)
      BY ShortPlans
    <3> QED BY <2>1, <3>1 DEF Planned, CanRun, PlanCanRun
  <2>2. CASE UNCHANGED <<pMost, pGraph>>
    BY <2>2 DEF PlanCanRun
  <2>3. CASE Unfit
    BY <2>1, <2>2, <2>3 DEF Unfit
  <2>4. CASE Propose
    <3>1. PICK reply \in Replies : IF ValidGraph(reply) THEN Planned(reply) ELSE Unfit
      BY <2>4 DEF Propose
    <3>2. CASE ValidGraph(reply)
      <4>1. CanRun(reply, pMost) /\ Planned(reply)
        BY <3>1, <3>2, ValidCanRun
      <4> QED BY <4>1 DEF Planned, CanRun, PlanCanRun
    <3> QED BY <2>3, <3>1, <3>2
  <2>5. CASE PlanParked \/ PlanAgain
    BY <2>2, <2>5 DEF PlanParked, PlanAgain
  <2>6. CASE NoPlanner
    BY <2>1, <2>6 DEF NoPlanner
  <2>7. CASE NextRun
    <3>1. pMost' \in Nat \ {0} /\ pGraph' = <<>>
      BY <2>7, PlansAssumption DEF NextRun
    <3>2. CanRun(pGraph', pMost')
      BY <3>1, ShortPlans
    <3> QED BY <3>1, <3>2 DEF CanRun, PlanCanRun, IdsOf, DependsOn
  <2>8. CASE UNCHANGED planVars
    BY <2>2, <2>8 DEF planVars
  <2> QED BY <2>3, <2>4, <2>5, <2>6, <2>7, <2>8 DEF PlansNext
<1>3. Inv => PlanCanRun
  OBVIOUS
<1> QED BY <1>1, <1>2, <1>3, PTL DEF PlansSpec
=============================================================================
