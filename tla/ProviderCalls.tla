---------------------------- MODULE ProviderCalls ----------------------------
(***************************************************************************)
(* The calls that the steps of a pulse make to the chat providers, several *)
(* at a time: which providers a call tries, and what the health table and  *)
(* the quota ledger learn from it.                                         *)
(*   src/src/providers/registry.js, base.js, health.js                     *)
(*   src/src/reliability/quota.js                                          *)
(*                                                                         *)
(* Between two awaits a call is alone: a stretch of routing is one action, *)
(* and so is an answer with all that is recorded of it.  The order of the  *)
(* providers is any (it follows error rates and the canary), and so is the *)
(* choice among the calls that wait at a provider.  The ledger's two       *)
(* windows are told apart by the reserve only: one count stands for each.  *)
(* How long a cooldown lasts, the tokens and what a call returns are left  *)
(* out, and so is the canary's verdict, which stays the same for a pulse.  *)
(***************************************************************************)
EXTENDS Naturals, FiniteSets

CONSTANTS
  Providers,             \* the direct providers that have a key
  Steps,                 \* the callers, which may call together
  PerProvider,           \* MAX_CONCURRENT_PER_PROVIDER (4)
  MaxProviders,          \* providers that one call may try
  PerWindow, Reserve     \* calls in a window; those of them kept for urgent work

ASSUME ProviderCallsAssumption ==
  /\ {PerProvider, MaxProviders, PerWindow} \subseteq Nat \ {0} /\ Reserve \in 0..(PerWindow - 1)
  /\ IsFiniteSet(Steps)

VARIABLES
  cStatus,   \* the health record: "ok" stands for "unknown" too, "failed" for what has a cooldown
  cCool,     \* the providers whose cooldownUntil is in the future
  cCount,    \* the calls that the ledger has in the window
  cGateway,  \* OmniRoute is configured
  cCall      \* what the callers are doing

cVars == <<cStatus, cCool, cCount, cGateway, cCall>>

Nowhere == "none"
ASSUME NowhereAssumption == Nowhere \notin Providers

NoCall == [at |-> "idle", who |-> Nowhere, named |-> FALSE, urgent |-> FALSE, left |-> {}, tried |-> 0]

CallsTypeOK ==
  /\ cStatus \in [Providers -> {"ok", "failed", "misconfigured"}]
  /\ cCool \subseteq {p \in Providers : cStatus[p] = "failed"}
  /\ cCount \in [Providers -> Nat]
  /\ cGateway \in BOOLEAN
  /\ cCall \in [Steps -> [at : {"idle", "gateway", "queued", "asking"}, who : Providers \cup {Nowhere},
                          named : BOOLEAN, urgent : BOOLEAN, left : SUBSET Providers,
                          tried : 0..MaxProviders]]

CallsInit ==
  /\ cStatus = [p \in Providers |-> "ok"] /\ cCool = {}
  /\ cCount = [p \in Providers |-> 0]
  /\ cGateway \in BOOLEAN
  /\ cCall = [s \in Steps |-> NoCall]

\* The calls that were let through to p and have no answer yet.
Under(p) == {s \in Steps : cCall[s].who = p}
Asking(p) == {s \in Under(p) : cCall[s].at = "asking"}
-----------------------------------------------------------------------------
\* (A slip: the last call of a window is given out once more.)
SpendOneMore(p, urgent) == cCount[p] <= PerWindow - (IF urgent THEN 0 ELSE Reserve)

\* canSpend(): ordinary work stops at the reserve.
CanSpend(p, urgent) == cCount[p] < PerWindow - (IF urgent THEN 0 ELSE Reserve)

\* (A slip: who asks for a provider by name gets it, whatever is known of it.)
NamedAnyway(p, call) ==
  \/ ~call.named /\ (cStatus[p] = "misconfigured" \/ p \in cCool)
  \/ ~CanSpend(p, call.urgent)

\* skipReason(): a rejected key; a cooldown, unless the caller named the provider; the quota.
SkippedFor(p, call) ==
  \/ cStatus[p] = "misconfigured"
  \/ p \in cCool /\ ~call.named
  \/ ~CanSpend(p, call.urgent)

\* The loop of chat(): it passes over providers until one may be called, or none is left, or
\* enough were tried.
Onward(s, call) ==
  \/ \E p \in call.left, over \in SUBSET call.left :
       /\ call.tried < MaxProviders /\ p \notin over
       /\ ~SkippedFor(p, call) /\ \A q \in over : SkippedFor(q, call)
       /\ cCall' = [cCall EXCEPT ![s] =
            [call EXCEPT !.at = "queued", !.who = p, !.left = @ \ (over \cup {p}), !.tried = @ + 1]]
  \/ /\ call.tried = MaxProviders \/ \A q \in call.left : SkippedFor(q, call)
     /\ cCall' = [cCall EXCEPT ![s] = NoCall]

\* chat(): the gateway comes first, unless a provider is named.
Chat(s, named, urgent) ==
  LET call == [NoCall EXCEPT !.named = named, !.urgent = urgent] IN
  /\ cCall[s] = NoCall
  /\ IF named
     THEN \E p \in Providers : Onward(s, [call EXCEPT !.left = {p}])
     ELSE IF cGateway
     THEN cCall' = [cCall EXCEPT ![s] = [call EXCEPT !.at = "gateway", !.left = Providers]]
     ELSE Onward(s, [call EXCEPT !.left = Providers])
  /\ UNCHANGED <<cStatus, cCool, cCount, cGateway>>

\* The gateway answers, or fails and the direct providers are next, or the caller is aborted.
GatewayEnds(s) ==
  /\ cCall[s].at = "gateway"
  /\ \/ cCall' = [cCall EXCEPT ![s] = NoCall]
     \/ Onward(s, cCall[s])
  /\ UNCHANGED <<cStatus, cCool, cCount, cGateway>>

\* A place among the calls that run at the provider; what was looked at is not looked at again.
Enter(s) ==
  /\ cCall[s].at = "queued" /\ Cardinality(Asking(cCall[s].who)) < PerProvider
  /\ cCall' = [cCall EXCEPT ![s].at = "asking"]
  /\ UNCHANGED <<cStatus, cCool, cCount, cGateway>>

\* record(), by the registry: an answer of any kind, though not a lost connection.
Counted(p, outcome) ==
  IF outcome \in {"ok", "refused", "error"} THEN [cCount EXCEPT ![p] = @ + 1] ELSE cCount

\* recordOutcome(): the latest answer decides, whatever was known.
Judged(p, outcome) ==
  /\ cStatus' = [cStatus EXCEPT ![p] =
       CASE outcome = "ok" -> "ok" [] outcome = "refused" -> "misconfigured" [] OTHER -> "failed"]
  /\ cCool' = IF outcome \in {"ok", "refused"} THEN cCool \ {p} ELSE cCool \cup {p}

\* A request ends: an answer, a key refused (401), another error, a lost connection or the
\* deadline; the call goes on with the next provider.  An abort by the caller counts as a
\* failure of the provider, and ends the call.
Answer(s, outcome) ==
  LET p == cCall[s].who
      call == [cCall[s] EXCEPT !.at = "idle", !.who = Nowhere] IN
  /\ cCall[s].at = "asking"
  /\ Judged(p, outcome)
  /\ cCount' = Counted(p, outcome)
  /\ IF outcome \in {"ok", "aborted"} THEN cCall' = [cCall EXCEPT ![s] = NoCall]
     ELSE Onward(s, call)
  /\ UNCHANGED cGateway

\* A minute or a day is over.
NewWindow == cCount' = [p \in Providers |-> 0] /\ UNCHANGED <<cStatus, cCool, cGateway, cCall>>

CooldownEnds(p) ==
  /\ p \in cCool /\ cCool' = cCool \ {p}
  /\ UNCHANGED <<cStatus, cCount, cGateway, cCall>>

\* The weekly self-test, between two pulses: it asks a provider whatever its record says.
SelfTest(p, outcome) ==
  /\ \A s \in Steps : cCall[s] = NoCall
  /\ Judged(p, outcome)
  /\ UNCHANGED <<cCount, cGateway, cCall>>

Outcomes == {"ok", "refused", "error", "lost", "aborted"}

CallsNext ==
  \/ \E s \in Steps :
       \/ \E named, urgent \in BOOLEAN : Chat(s, named, urgent)
       \/ GatewayEnds(s) \/ Enter(s)
       \/ \E o \in Outcomes : Answer(s, o)
  \/ NewWindow
  \/ \E p \in Providers : CooldownEnds(p) \/ \E o \in Outcomes \ {"aborted"} : SelfTest(p, o)

CallsSpec == CallsInit /\ [][CallsNext]_cVars
-----------------------------------------------------------------------------
\* However many calls look at the ledger before one of them is recorded, a window is overspent by
\* at most the other callers, each once (quota.js:81-89 looks, 95-103 counts when the answer is
\* there, and a window may begin in between).
QuotaNearlyKept ==
  \A p \in Providers : cCount[p] + Cardinality(Under(p)) <= PerWindow - 1 + Cardinality(Steps)

\* A provider whose key was refused, and that no call is still waiting for, stays out until the
\* self-test finds a key that works, for calls that name it too (health.js:172, "the key was
\* rejected (401/403); needs a human to rotate it").
RejectedKeyStaysOut ==
  [][\A p \in Providers :
       cStatus[p] = "misconfigured" /\ Under(p) = {}
         => \/ cStatus'[p] = "misconfigured" /\ Under(p)' = {}
            \/ \E o \in Outcomes : SelfTest(p, o)]_cVars
=============================================================================
