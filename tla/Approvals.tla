------------------------------ MODULE Approvals ------------------------------
(***************************************************************************)
(* One connection of the connectors' broker and the calls of one of its    *)
(* actions: who may call it, the calls that wait for a person, what the    *)
(* provider's answers make of the connection, and its end.                 *)
(*   src/worker/src/connectors/{broker,store,oauth,telegram,mcpClient}.js  *)
(*                                                                         *)
(* A request is a process that reads the connection, then the policy, then *)
(* acts; requests overlap and may die between two statements.  A person    *)
(* decides on the dashboard and by buttons and words in Telegram: these    *)
(* are requests as well.  The input of a call, its validation (one reason  *)
(* to refuse), the log and the events are left out, and so is the era that *)
(* a connection keeps of a remote MCP server: its first call may always be *)
(* a modern one.                                                           *)
(***************************************************************************)
EXTENDS Naturals, FiniteSets

CONSTANTS
  Approvals, Requests,   \* ids of waiting calls; requests that may be under way together
  MaxPending,            \* calls that may wait (20)
  MaxAsked               \* bound: approvals ever asked for

Nobody == "none"
ASSUME ApprovalsAssumption ==
  MaxPending \in Nat /\ MaxAsked \in Nat /\ Nobody \notin Approvals

VARIABLES
  aKind,   \* of the connector and the action: it signs in with OAuth; the action handles personal data;
           \* it is the call of a tool of a remote MCP server
  aConn,   \* the status of the connection's row
  aVault,  \* the vault has secrets of the connection
  aMode,   \* the row of connector_policies for the action
  aRisk,   \* its risk (of a remote tool: the one a person set)
  aRow,    \* the approvals; `ran' counts the requests that sent the call, `again' what was sent twice
  aReq,    \* the requests
  aAsked

aVars == <<aKind, aConn, aVault, aMode, aRisk, aRow, aReq, aAsked>>

Caller(kind, scopes) == [kind |-> kind, scopes |-> scopes]
Agents == {Caller("internal", {})} \cup {Caller("mcp", s) : s \in {{"write"}, {"read", "write", "personal"}}}
Person == Caller("person", {})
Approval == Caller("approval", {})

Idle == [at |-> "idle", who |-> Person, on |-> Nobody, seen |-> "none", ok |-> FALSE]
NoRow == [st |-> "absent", late |-> FALSE, ran |-> 0, again |-> 0]
Statuses == {"connected", "unverified", "error", "needs_authorization", "needs_reconnect"}
ActionKinds == {k \in [oauth : BOOLEAN, personal : BOOLEAN, remote : BOOLEAN] :
                  k.remote => k.personal /\ ~k.oauth}

ApprovalsTypeOK ==
  /\ aKind \in ActionKinds
  /\ aConn \in Statuses \cup {"absent", "gone"} /\ aVault \in BOOLEAN
  /\ aMode \in {"unset", "ask", "auto", "deny"} /\ aRisk \in {"read", "write", "destructive"}
  /\ aRow \in [Approvals -> [st : {"absent", "pending", "approved", "denied", "executed", "failed", "expired"},
                             late : BOOLEAN, ran : 0..2, again : 0..2]]
  /\ aReq \in [Requests -> [at : {"idle", "save", "claim", "judge", "insert", "load", "run", "again", "write", "test", "expire", "sign"},
                            who : Agents \cup {Person, Approval}, on : Approvals \cup {Nobody},
                            seen : Statuses \cup {"none"}, ok : BOOLEAN]]
  /\ aAsked \in 0..MaxAsked

ApprovalsInit ==
  /\ aKind \in ActionKinds
  /\ aConn = "absent" /\ aVault = FALSE /\ aMode = "unset" /\ aRisk = "write"
  /\ aRow = [a \in Approvals |-> NoRow] /\ aReq = [q \in Requests |-> Idle] /\ aAsked = 0

\* Who calls and what was seen matter up to the verdict only.
GoesTo(q, at) == aReq' = [aReq EXCEPT ![q] = [Idle EXCEPT !.at = at, !.on = aReq[q].on]]
Over(q) == aReq' = [aReq EXCEPT ![q] = Idle]
Exists == aConn \in Statuses
SetStatus(status) == aConn' = IF Exists THEN status ELSE aConn
SetApproval(a, status) == aRow' = [aRow EXCEPT ![a].st = status]
-----------------------------------------------------------------------------
(* connect(), disconnect() *)

Connect(q) ==
  /\ aConn = "absent" /\ aReq[q] = Idle /\ GoesTo(q, "save")
  /\ aConn' \in IF aKind.oauth THEN {"needs_authorization"} ELSE {"connected", "unverified"}
  /\ UNCHANGED <<aKind, aVault, aMode, aRisk, aRow, aAsked>>

SaveSecrets(q) ==
  /\ aReq[q].at = "save" /\ aVault' = TRUE /\ Over(q)
  /\ UNCHANGED <<aKind, aConn, aMode, aRisk, aRow, aAsked>>

\* A step after the insert fails: the rows go again, those of an OAuth connector excepted.
ConnectFails(q) ==
  /\ aReq[q].at = "save" /\ Over(q)
  /\ IF aKind.oauth THEN UNCHANGED <<aConn, aVault>> ELSE aConn' = "gone" /\ aVault' = FALSE
  /\ UNCHANGED <<aKind, aMode, aRisk, aRow, aAsked>>

Disconnect(q) ==
  /\ Exists /\ aReq[q] = Idle /\ GoesTo(q, "expire")
  /\ aConn' = "gone" /\ aVault' = FALSE /\ aMode' = "unset"
  /\ UNCHANGED <<aKind, aRisk, aRow, aAsked>>

WithStatus(status, P(_)) ==
  [a \in Approvals |-> IF aRow[a].st = "pending" /\ P(a) THEN [aRow[a] EXCEPT !.st = status] ELSE aRow[a]]

ExpireItsCalls(q) ==
  /\ aReq[q].at = "expire" /\ Over(q)
  /\ aRow' = WithStatus("expired", LAMBDA a : TRUE)
  /\ UNCHANGED <<aKind, aConn, aVault, aMode, aRisk, aAsked>>

\* setActionMode() and setToolRisk()
SetMode(mode) ==
  /\ Exists /\ aMode # mode /\ ~(aRisk = "destructive" /\ mode = "auto")
  /\ aMode' = mode
  /\ UNCHANGED <<aKind, aConn, aVault, aRisk, aRow, aReq, aAsked>>

SetRisk(risk) ==
  /\ Exists /\ aRisk # risk /\ aRisk' = risk
  /\ UNCHANGED <<aKind, aConn, aVault, aMode, aRow, aReq, aAsked>>
-----------------------------------------------------------------------------
(* testConnection(): the status is judged by the row as it was read. *)

Test(q) ==
  /\ Exists /\ aReq[q] = Idle
  /\ aReq' = [aReq EXCEPT ![q] = [Idle EXCEPT !.at = "test", !.seen = aConn]]
  /\ UNCHANGED <<aKind, aConn, aVault, aMode, aRisk, aRow, aAsked>>

Tested(q, ok) ==
  /\ aReq[q].at = "test" /\ Over(q)
  /\ CASE ok /\ aReq[q].seen \in {"unverified", "error"} -> SetStatus("connected")
       [] ~ok /\ aReq[q].seen = "connected"              -> SetStatus("error")
       [] OTHER                                          -> UNCHANGED aConn
  /\ UNCHANGED <<aKind, aVault, aMode, aRisk, aRow, aAsked>>

\* finishOAuth(): the provider gives a token; the secrets and then the row are written.
SignIn(q) ==
  /\ aKind.oauth /\ Exists /\ aVault /\ aReq[q] = Idle /\ GoesTo(q, "sign")
  /\ UNCHANGED <<aKind, aConn, aVault, aMode, aRisk, aRow, aAsked>>

SignedIn(q) ==
  /\ aReq[q].at = "sign" /\ Over(q) /\ aVault' = TRUE /\ SetStatus("connected")
  /\ UNCHANGED <<aKind, aMode, aRisk, aRow, aAsked>>
-----------------------------------------------------------------------------
(* invokeAction() *)

\* decide()
Verdict(who, risk, mode) ==
  LET scopes == {IF risk = "read" THEN "read" ELSE "write"} \cup (IF aKind.personal THEN {"personal"} ELSE {}) IN
  CASE mode = "deny" \/ (risk = "destructive" /\ who # Person) -> "deny"
    [] who \in {Person, Approval}                              -> "run"
    [] who.kind = "internal" /\ aKind.personal                       -> "deny"
    [] who.kind = "internal" /\ risk # "read"                  -> "approve"
    [] who.kind = "mcp" /\ ~(scopes \subseteq who.scopes)      -> "deny"
    [] OTHER -> IF mode = "auto" THEN "run" ELSE "approve"

ModeInForce == IF aMode # "unset" THEN aMode ELSE IF aRisk = "read" THEN "auto" ELSE "ask"

Call(q, who) ==
  /\ Exists /\ aReq[q] = Idle
  /\ aReq' = [aReq EXCEPT ![q] = [Idle EXCEPT !.at = "judge", !.who = who, !.seen = aConn]]
  /\ UNCHANGED <<aKind, aConn, aVault, aMode, aRisk, aRow, aAsked>>

\* The end of invokeAction(): one that was approved has still to write its outcome.
Ends(q, ok) ==
  LET on == aReq[q].on IN
  aReq' = [aReq EXCEPT ![q] = IF on = Nobody THEN Idle ELSE [Idle EXCEPT !.at = "write", !.on = on, !.ok = ok]]

Pending == {a \in Approvals : aRow[a].st = "pending"}

Judge(q) ==
  LET verdict == Verdict(aReq[q].who, aRisk, ModeInForce) IN
  /\ aReq[q].at = "judge"
  /\ \/ Ends(q, FALSE)   \* the input is refused, or the rate is used up
     \/ /\ aReq[q].seen \notin {"none", "needs_reconnect", "needs_authorization"}
        /\ \/ verdict = "run" /\ GoesTo(q, "load")
           \/ verdict = "approve" /\ Cardinality(Pending) < MaxPending /\ GoesTo(q, "insert")
  /\ UNCHANGED <<aKind, aConn, aVault, aMode, aRisk, aRow, aAsked>>

\* createApproval(), after its count
Insert(q) ==
  /\ aReq[q].at = "insert" /\ aAsked < MaxAsked /\ Over(q)
  /\ \E a \in Approvals : aRow[a] = NoRow /\ SetApproval(a, "pending")
  /\ aAsked' = aAsked + 1
  /\ UNCHANGED <<aKind, aConn, aVault, aMode, aRisk>>

\* executeAction() works with the secrets as they are now.
Load(q) ==
  /\ aReq[q].at = "load" /\ aVault /\ GoesTo(q, "run")
  /\ UNCHANGED <<aKind, aConn, aVault, aMode, aRisk, aRow, aAsked>>

\* The call reaches the provider, whose answer may be lost; if a remote MCP server answers without
\* a usable result, openSession().call() takes it for a legacy one...
Run(q) ==
  /\ aReq[q].at = "run"
  /\ IF aReq[q].on = Nobody THEN UNCHANGED aRow ELSE aRow' = [aRow EXCEPT ![aReq[q].on].ran = @ + 1]
  /\ (\E ok \in BOOLEAN : Ends(q, ok)) \/ (aKind.remote /\ GoesTo(q, "again"))
  /\ UNCHANGED <<aKind, aConn, aVault, aMode, aRisk, aAsked>>

\* ... and sends the same call once more, whatever the server did with the first.
RunAgain(q) ==
  /\ aReq[q].at = "again"
  /\ IF aReq[q].on = Nobody THEN UNCHANGED aRow ELSE aRow' = [aRow EXCEPT ![aReq[q].on].again = @ + 1]
  /\ \E ok \in BOOLEAN : Ends(q, ok)
  /\ UNCHANGED <<aKind, aConn, aVault, aMode, aRisk, aAsked>>

\* Or there are no secrets, or it never gets there (an initialize that fails, say), ...
RunFails(q) ==
  /\ aReq[q].at \in {"load", "run", "again"} /\ Ends(q, FALSE)
  /\ UNCHANGED <<aKind, aConn, aVault, aMode, aRisk, aRow, aAsked>>

\* ... or it is refused with 401 or 403 (of a remote MCP server this is an error like any other), ...
RunRefused(q) ==
  /\ ~aKind.remote /\ aReq[q].at = "run" /\ SetStatus("error") /\ Ends(q, FALSE)
  /\ UNCHANGED <<aKind, aVault, aMode, aRisk, aRow, aAsked>>

\* ... and ensureAccessToken() may come first: a fresh token is stored, or the sign-in is over.
Refresh(q) ==
  /\ aKind.oauth /\ aReq[q].at = "run"
  /\ aVault' = TRUE /\ SetStatus("connected")
  /\ UNCHANGED <<aKind, aMode, aRisk, aRow, aReq, aAsked>>

RefreshRefused(q) ==
  /\ aKind.oauth /\ aReq[q].at = "run" /\ SetStatus("needs_reconnect") /\ Ends(q, FALSE)
  /\ UNCHANGED <<aKind, aVault, aMode, aRisk, aRow, aAsked>>
-----------------------------------------------------------------------------
(* decideApproval() *)

Decide(q, a) ==
  /\ aRow[a].st = "pending" /\ aReq[q] = Idle
  /\ IF aRow[a].late THEN SetApproval(a, "expired") /\ UNCHANGED aReq
     ELSE aReq' = [aReq EXCEPT ![q] = [Idle EXCEPT !.at = "claim", !.on = a]] /\ UNCHANGED aRow
  /\ UNCHANGED <<aKind, aConn, aVault, aMode, aRisk, aAsked>>

\* (A slip: the row is written by its id.)
FreeAnyway(a) == TRUE

\* The WHERE clause of the claim.
Free(a) == aRow[a].st = "pending"

\* The claim; an approved call is then invoked as any other, on the connection as it now is.
Claim(q) ==
  LET a == aReq[q].on IN
  /\ aReq[q].at = "claim"
  /\ \/ ~Free(a) /\ Over(q) /\ UNCHANGED aRow
     \/ Free(a) /\ SetApproval(a, "denied") /\ Over(q)
     \/ /\ Free(a) /\ SetApproval(a, "approved")
        /\ aReq' = [aReq EXCEPT ![q] = [@ EXCEPT !.at = "judge", !.who = Approval, !.seen = IF Exists THEN aConn ELSE "none"]]
  /\ UNCHANGED <<aKind, aConn, aVault, aMode, aRisk, aAsked>>

WriteOutcome(q) ==
  /\ aReq[q].at = "write" /\ Over(q)
  /\ SetApproval(aReq[q].on, IF aReq[q].ok THEN "executed" ELSE "failed")
  /\ UNCHANGED <<aKind, aConn, aVault, aMode, aRisk, aAsked>>

\* 24 hours pass, and expireApprovals().
Late(a) ==
  /\ aRow[a].st = "pending" /\ ~aRow[a].late /\ aRow' = [aRow EXCEPT ![a].late = TRUE]
  /\ UNCHANGED <<aKind, aConn, aVault, aMode, aRisk, aReq, aAsked>>

ExpireApprovals ==
  /\ \E a \in Pending : aRow[a].late
  /\ aRow' = WithStatus("expired", LAMBDA a : aRow[a].late)
  /\ UNCHANGED <<aKind, aConn, aVault, aMode, aRisk, aReq, aAsked>>

RequestDies(q) ==
  /\ aReq[q] # Idle /\ Over(q)
  /\ UNCHANGED <<aKind, aConn, aVault, aMode, aRisk, aRow, aAsked>>

\* pruneOldRows(), 30 days later.
Forget(a) ==
  /\ aRow[a].st \notin {"absent", "pending"} /\ \A q \in Requests : aReq[q].on # a
  /\ aRow' = [aRow EXCEPT ![a] = NoRow]
  /\ UNCHANGED <<aKind, aConn, aVault, aMode, aRisk, aReq, aAsked>>

ApprovalsNext ==
  \/ \E q \in Requests :
       \/ Connect(q) \/ SaveSecrets(q) \/ ConnectFails(q) \/ Disconnect(q) \/ ExpireItsCalls(q)
       \/ Test(q) \/ (\E ok \in BOOLEAN : Tested(q, ok)) \/ SignIn(q) \/ SignedIn(q)
       \/ (\E who \in Agents \cup {Person} : Call(q, who)) \/ Judge(q) \/ Insert(q)
       \/ Load(q) \/ Run(q) \/ RunAgain(q) \/ RunFails(q) \/ RunRefused(q) \/ Refresh(q) \/ RefreshRefused(q)
       \/ (\E a \in Approvals : Decide(q, a)) \/ Claim(q) \/ WriteOutcome(q) \/ RequestDies(q)
  \/ \E mode \in {"ask", "auto", "deny"} : SetMode(mode)
  \/ \E risk \in {"read", "write", "destructive"} : SetRisk(risk)
  \/ \E a \in Approvals : Late(a) \/ Forget(a)
  \/ ExpireApprovals

ApprovalsSpec == ApprovalsInit /\ [][ApprovalsNext]_aVars
-----------------------------------------------------------------------------
(* broker.js:529 "An approved call runs once", also when two persons decide, the connection goes, *)
(* its policy changes or the request dies: no second request ever takes it up, it is done only if *)
(* it was sent, and never sent if it was denied or came too late.  The request that has it sends  *)
(* it once; only a call to a remote MCP server is sent a second time, by the fallback of          *)
(* mcpClient.js:132, 159: to such a server the sentence does not apply.                           *)
ApprovedTakenOnce ==
  \A a \in Approvals :
    /\ aRow[a].ran <= 1 /\ aRow[a].again <= aRow[a].ran
    /\ aRow[a].again > 0 => aKind.remote
    /\ aRow[a].st = "executed" => aRow[a].ran = 1
    /\ aRow[a].st \in {"absent", "pending", "denied", "expired"} => aRow[a].ran = 0
==============================================================================
