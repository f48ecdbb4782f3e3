---------------------------- MODULE WorkerProofs ----------------------------
(***************************************************************************)
(* Proofs about the parts of the Worker that keep their state in D1 and in *)
(* the vault: the approvals of the broker, the hooks, the keys, the        *)
(* notices, the tasks, the machines, the callback token and the keeper,    *)
(* for any number of requests, rows and ticks that overlap.                *)
(*                                                                         *)
(* The last four parts have something that must happen.  The provers do    *)
(* not know when an action is ENABLED; FleetGuards, TasksGuards,           *)
(* TokenGuards and KeeperGuards of their modules say it of the fair        *)
(* actions, by their guards, and are hypotheses of the theorems on         *)
(* liveness.                                                               *)
(***************************************************************************)
EXTENDS Approvals, Hooks, ProviderKeys, Notices, Fleet, WorkerTasks, CallbackToken, PulseKeeper,
        SequenceTheorems, TLAPS

(***************************************************************************)
(* Approvals: broker.js, store.js                                          *)
(***************************************************************************)

\* What a request may look like, and one that begins or goes on.
Stages == {"idle", "save", "claim", "judge", "insert", "load", "run", "again", "write", "test", "expire", "sign"}
ARequest == [at : Stages, who : Agents \cup {Person, Approval}, on : Approvals \cup {Nobody},
             seen : Statuses \cup {"none"}, ok : BOOLEAN]
ARow == [st : {"absent", "pending", "approved", "denied", "executed", "failed", "expired"},
         late : BOOLEAN, ran : 0..2, again : 0..2]

\* The variables that no call reads are of their types.
SettingsOK ==
  /\ aKind \in ActionKinds
  /\ aConn \in Statuses \cup {"absent", "gone"} /\ aVault \in BOOLEAN
  /\ aMode \in {"unset", "ask", "auto", "deny"} /\ aRisk \in {"read", "write", "destructive"}
  /\ aAsked \in 0..MaxAsked

\* A request carries out an approved call, or has its outcome still to write.
Carries(req) == req.on # Nobody /\ req.at \in {"judge", "load", "run", "again", "write"}

\* The request is before its first call.
NotSent == {"judge", "load", "run"}

\* What an approval says of its call, but for what kind of call is sent twice.
CallOnce ==
  \A a \in Approvals :
    /\ aRow[a].ran <= 1 /\ aRow[a].again <= aRow[a].ran
    /\ aRow[a].st = "executed" => aRow[a].ran = 1
    /\ aRow[a].st \in {"absent", "pending", "denied", "expired"} => aRow[a].ran = 0

\* A call that may yet run is one that was approved and did not run, or runs for the first time;
\* only one request has it.
CallsOK ==
  /\ aReq \in [Requests -> ARequest] /\ aRow \in [Approvals -> ARow]
  /\ \A q \in Requests : Carries(aReq[q]) =>
       /\ aRow[aReq[q].on].st = "approved"
       /\ aReq[q].at \in NotSent => aRow[aReq[q].on].ran = 0
       /\ aReq[q].at = "again" => aRow[aReq[q].on].ran = 1 /\ aRow[aReq[q].on].again = 0
       /\ aReq[q].ok => aRow[aReq[q].on].ran = 1
  /\ \A q \in Requests :
       /\ aReq[q].ok => aReq[q].at = "write"
       /\ aReq[q].at \in {"claim", "write"} => aReq[q].on # Nobody
  /\ \A q, r \in Requests :
       q # r /\ Carries(aReq[q]) /\ Carries(aReq[r]) => aReq[q].on # aReq[r].on

CallsInv == CallsOK /\ CallOnce

\* Rows for which no call is under way may change as long as they do not say that one ran.
IdleRowsChange ==
  /\ aRow' \in [Approvals -> ARow]
  /\ \A a \in Approvals :
       \/ aRow'[a] = aRow[a]
       \/ /\ \A q \in Requests : ~(Carries(aReq[q]) /\ aReq[q].on = a)
          /\ aRow'[a].ran = 0 /\ aRow'[a].again = 0 /\ aRow'[a].st \in {"absent", "pending", "denied", "expired"}

\* A request that begins, or steps on with the call it carries, disturbs no other one.
LEMMA StepsOn ==
  ASSUME CallsInv, NEW q \in Requests, NEW new \in ARequest, ~new.ok,
         aReq' = [aReq EXCEPT ![q] = new], IdleRowsChange,
         new.at \in {"claim", "write"} => new.on # Nobody,
         Carries(new) => /\ Carries(aReq[q]) /\ new.on = aReq[q].on /\ new.at # "again"
                         /\ new.at \in NotSent => aReq[q].at \in NotSent
  PROVE  CallsInv'
<1> USE DEF CallsInv, CallsOK
<1>1. CallOnce'
  BY DEF CallOnce, IdleRowsChange
<1>2. aReq'[q] = new /\ \A r \in Requests : r # q => aReq'[r] = aReq[r]
  OBVIOUS
<1>3. aReq' \in [Requests -> ARequest] /\ aRow' \in [Approvals -> ARow]
  BY DEF IdleRowsChange
<1>4. \A r, s \in Requests :
        r # s /\ Carries(aReq'[r]) /\ Carries(aReq'[s]) => aReq'[r].on # aReq'[s].on
  BY <1>2
<1>5. \A r \in Requests : /\ aReq'[r].ok => aReq'[r].at = "write"
                          /\ aReq'[r].at \in {"claim", "write"} => aReq'[r].on # Nobody
  BY <1>2
<1>6. \A r \in Requests : Carries(aReq[r]) => aReq[r].on \in Approvals /\ aRow'[aReq[r].on] = aRow[aReq[r].on]
  BY DEF IdleRowsChange, Carries, ARequest
<1>7. \A r \in Requests : Carries(aReq'[r]) =>
        /\ aRow'[aReq'[r].on].st = "approved"
        /\ aReq'[r].at \in NotSent => aRow'[aReq'[r].on].ran = 0
        /\ aReq'[r].at = "again" => aRow'[aReq'[r].on].ran = 1 /\ aRow'[aReq'[r].on].again = 0
        /\ aReq'[r].ok => aRow'[aReq'[r].on].ran = 1
  BY <1>2, <1>6
<1> HIDE DEF ARequest, Carries
<1> QED BY <1>1, <1>3, <1>4, <1>5, <1>7

\* So does a step that changes no request.
LEMMA RowsOnly ==
  ASSUME CallsInv, aReq' = aReq, IdleRowsChange
  PROVE  CallsInv'
<1> USE DEF CallsInv, CallsOK
<1>1. CallOnce'
  BY DEF CallOnce, IdleRowsChange
<1>2. \A q \in Requests : Carries(aReq[q]) => aReq[q].on \in Approvals /\ aRow'[aReq[q].on] = aRow[aReq[q].on]
  BY DEF Carries, ARequest, IdleRowsChange
<1> QED BY <1>1, <1>2 DEF IdleRowsChange

\* Rows that stay, and those that wait for a person or are not there, have no call under way.
LEMMA WaitingRowsAreIdle ==
  ASSUME CallsInv
  PROVE  /\ aRow' = aRow => IdleRowsChange
         /\ \A a \in Approvals : aRow[a].st # "approved" =>
              \A q \in Requests : ~(Carries(aReq[q]) /\ aReq[q].on = a)
         /\ \A a \in Approvals : aRow[a].st \in {"absent", "pending"} => aRow[a].ran = 0 /\ aRow[a].again = 0
<1>1. aRow \in [Approvals -> ARow]
  BY DEF CallsInv, CallsOK
<1>2. aRow' = aRow => IdleRowsChange
  BY <1>1 DEF IdleRowsChange
<1>3. \A a \in Approvals : aRow[a].st \in {"absent", "pending"} => aRow[a].ran = 0 /\ aRow[a].again = 0
  BY <1>1 DEF CallsInv, CallOnce, ARow
<1> QED BY <1>2, <1>3 DEF CallsInv, CallsOK

\* A step of the one request that has the call of a row, or may take it up, on that row.
LEMMA RowOfOneCall ==
  ASSUME CallsInv, NEW q \in Requests, NEW a \in Approvals, aReq[q].on = a,
         Carries(aReq[q]) \/ aRow[a].st = "pending",
         aReq' \in [Requests -> ARequest], aRow' \in [Approvals -> ARow],
         \A r \in Requests : r # q => aReq'[r] = aReq[r],
         \A b \in Approvals : b # a => aRow'[b] = aRow[b],
         aReq'[q].on \in {a, Nobody}, aReq'[q].ok => aReq'[q].at = "write",
         aReq'[q].at \in {"claim", "write"} => aReq'[q].on # Nobody,
         Carries(aReq'[q]) => /\ aRow'[a].st = "approved"
                              /\ aReq'[q].at \in NotSent => aRow'[a].ran = 0
                              /\ aReq'[q].at = "again" => aRow'[a].ran = 1 /\ aRow'[a].again = 0
                              /\ aReq'[q].ok => aRow'[a].ran = 1,
         aRow'[a].ran <= 1, aRow'[a].again <= aRow'[a].ran,
         aRow'[a].st = "executed" => aRow'[a].ran = 1,
         aRow'[a].st \in {"absent", "pending", "denied", "expired"} => aRow'[a].ran = 0
  PROVE  CallsInv'
<1> USE DEF CallsInv, CallsOK
<1>1. \A r \in Requests : r # q /\ Carries(aReq[r]) => aReq[r].on \in Approvals /\ aReq[r].on # a
  BY DEF Carries, ARequest
<1>2. CallOnce'
  BY DEF CallOnce
<1>3. \A r, s \in Requests :
        r # s /\ Carries(aReq'[r]) /\ Carries(aReq'[s]) => aReq'[r].on # aReq'[s].on
  BY <1>1 DEF Carries
<1>4. \A r \in Requests : Carries(aReq'[r]) =>
        /\ aRow'[aReq'[r].on].st = "approved"
        /\ aReq'[r].at \in NotSent => aRow'[aReq'[r].on].ran = 0
        /\ aReq'[r].at = "again" => aRow'[aReq'[r].on].ran = 1 /\ aRow'[aReq'[r].on].again = 0
        /\ aReq'[r].ok => aRow'[aReq'[r].on].ran = 1
  <2>1. ASSUME NEW r \in Requests, r # q, Carries(aReq'[r])
        PROVE  aReq'[r] = aReq[r] /\ aRow'[aReq[r].on] = aRow[aReq[r].on]
    BY <1>1, <2>1
  <2>2. Carries(aReq'[q]) => aReq'[q].on = a
    BY DEF Carries
  <2> QED BY <2>1, <2>2
<1>5. \A r \in Requests : /\ aReq'[r].ok => aReq'[r].at = "write"
                          /\ aReq'[r].at \in {"claim", "write"} => aReq'[r].on # Nobody
  OBVIOUS
<1> QED BY <1>2, <1>3, <1>4, <1>5

\* A request between calls is a request, and so is one that waits for its next step.
LEMMA IdleIsRequest == Idle \in ARequest /\ ~Carries(Idle) /\ ~Idle.ok /\ Idle.at = "idle"
  BY DEF Idle, ARequest, Stages, Carries

\* The settings keep their types.
LEMMA SettingsInductive == SettingsOK /\ [ApprovalsNext]_aVars => SettingsOK'
<1> SUFFICES ASSUME SettingsOK, [ApprovalsNext]_aVars PROVE SettingsOK'
  OBVIOUS
<1> USE ApprovalsAssumption DEF SettingsOK, Statuses, SetStatus
<1>1. ASSUME NEW q \in Requests, Connect(q) \/ SaveSecrets(q) \/ ConnectFails(q) \/ Disconnect(q) PROVE SettingsOK'
  BY <1>1 DEF Connect, SaveSecrets, ConnectFails, Disconnect
<1>2. ASSUME NEW q \in Requests, ExpireItsCalls(q) \/ Test(q) \/ SignIn(q) \/ SignedIn(q) PROVE SettingsOK'
  BY <1>2 DEF ExpireItsCalls, Test, SignIn, SignedIn
<1>3. ASSUME NEW q \in Requests, NEW ok \in BOOLEAN, Tested(q, ok) PROVE SettingsOK'
  <2>1. aConn' \in {aConn, "connected", "error"}
    BY <1>3 DEF Tested
  <2> QED BY <1>3, <2>1 DEF Tested
<1>4. ASSUME NEW q \in Requests, NEW who \in Agents \cup {Person}, Call(q, who) PROVE SettingsOK'
  BY <1>4 DEF Call
<1>5. ASSUME NEW q \in Requests, Judge(q) \/ Insert(q) \/ Load(q) \/ Run(q) PROVE SettingsOK'
  <2>1. aAsked' = aAsked \/ (aAsked < MaxAsked /\ aAsked' = aAsked + 1)
    BY <1>5 DEF Judge, Insert, Load, Run
  <2> HIDE DEF Statuses
  <2>2. UNCHANGED <<aKind, aConn, aVault, aMode, aRisk>>
    BY <1>5 DEF Judge, Insert, Load, Run
  <2> QED BY <2>1, <2>2
<1>6. ASSUME NEW q \in Requests, RunAgain(q) \/ RunFails(q) \/ RunRefused(q) \/ Refresh(q) \/ RefreshRefused(q)
      PROVE  SettingsOK'
  BY <1>6 DEF RunAgain, RunFails, RunRefused, Refresh, RefreshRefused
<1>7. ASSUME NEW q \in Requests, (\E a \in Approvals : Decide(q, a)) \/ Claim(q) \/ WriteOutcome(q) \/ RequestDies(q)
      PROVE  SettingsOK'
  BY <1>7 DEF Decide, Claim, WriteOutcome, RequestDies
<1>8. ASSUME (\E mode \in {"ask", "auto", "deny"} : SetMode(mode))
             \/ (\E risk \in {"read", "write", "destructive"} : SetRisk(risk)) PROVE SettingsOK'
  BY <1>8 DEF SetMode, SetRisk
<1>9. ASSUME (\E a \in Approvals : Late(a) \/ Forget(a)) \/ ExpireApprovals PROVE SettingsOK'
  BY <1>9 DEF Late, Forget, ExpireApprovals
<1>10. CASE UNCHANGED aVars
  BY <1>10 DEF aVars
<1> QED
  BY <1>1, <1>2, <1>3, <1>4, <1>5, <1>6, <1>7, <1>8, <1>9, <1>10 DEF ApprovalsNext

\* No step of a request, a person or the clock makes a second call for an approval.
LEMMA CallsInductive == CallsInv /\ [ApprovalsNext]_aVars => CallsInv'
<1> SUFFICES ASSUME CallsInv, [ApprovalsNext]_aVars PROVE CallsInv'
  OBVIOUS
<1>0. aReq \in [Requests -> ARequest] /\ aRow \in [Approvals -> ARow]
  BY DEF CallsInv, CallsOK
<1>r. \A a \in Approvals :
        aRow[a].st \in {"absent", "pending", "denied", "expired"} => aRow[a].ran = 0 /\ aRow[a].again = 0
  BY <1>0 DEF CallsInv, CallOnce, ARow
<1>q. /\ \A q \in Requests : aReq[q].ok => aReq[q].at = "write"
      /\ \A q \in Requests : aReq[q].on \in Approvals \cup {Nobody}
  BY <1>0 DEF CallsInv, CallsOK, ARequest
<1>s. \A at \in {"save", "expire", "sign", "load", "insert", "run", "again", "test", "judge", "write", "claim"} : at \in Stages
  BY DEF Stages
<1>1. ASSUME NEW q \in Requests, aReq[q] = Idle, GoesTo(q, "save") \/ GoesTo(q, "expire") \/ GoesTo(q, "sign"),
             aRow' = aRow
      PROVE  CallsInv'
  <2>1. PICK at \in {"save", "expire", "sign"} : GoesTo(q, at)
    BY <1>1
  <2> DEFINE new == [Idle EXCEPT !.at = at, !.on = aReq[q].on]
  <2>2. aReq' = [aReq EXCEPT ![q] = new]
    BY <2>1 DEF GoesTo
  <2> HIDE DEF new
  <2>3. new \in ARequest /\ ~new.ok /\ new.at = at
    BY <1>q, <1>s DEF new, Idle, ARequest
  <2>4. ~Carries(new)
    BY <2>3 DEF Carries
  <2> QED BY <1>1, <2>2, <2>3, <2>4, WaitingRowsAreIdle, StepsOn
<1>2. ASSUME NEW q \in Requests, Over(q), aRow' = aRow PROVE CallsInv'
  BY <1>2, IdleIsRequest, WaitingRowsAreIdle, StepsOn DEF Over
<1>3. ASSUME NEW q \in Requests, NEW at \in {"load", "run", "insert"}, GoesTo(q, at), aRow' = aRow,
             aReq[q].at \in {"judge", "load"}
      PROVE  CallsInv'
  <2> DEFINE new == [Idle EXCEPT !.at = at, !.on = aReq[q].on]
  <2>1. aReq' = [aReq EXCEPT ![q] = new]
    BY <1>3 DEF GoesTo
  <2> HIDE DEF new
  <2>2. new \in ARequest /\ ~new.ok /\ new.at = at /\ new.on = aReq[q].on
    BY <1>q, <1>s DEF new, Idle, ARequest
  <2>3. Carries(new) => Carries(aReq[q]) /\ new.on = aReq[q].on /\ new.at # "again" /\ aReq[q].at \in NotSent
    BY <1>3, <2>2 DEF Carries, NotSent
  <2> QED BY <1>3, <2>1, <2>2, <2>3, WaitingRowsAreIdle, StepsOn
<1>4. ASSUME NEW q \in Requests, Ends(q, FALSE), aRow' = aRow, aReq[q].at \in {"judge", "load", "run", "again"}
      PROVE  CallsInv'
  <2>1. CASE aReq[q].on = Nobody
    BY <1>2, <1>4, <2>1 DEF Ends, Over
  <2>2. CASE aReq[q].on # Nobody
    <3> DEFINE new == [Idle EXCEPT !.at = "write", !.on = aReq[q].on, !.ok = FALSE]
    <3>1. aReq' = [aReq EXCEPT ![q] = new]
      BY <1>4, <2>2 DEF Ends
    <3> HIDE DEF new
    <3>2. new \in ARequest /\ new.ok = FALSE /\ new.at = "write" /\ new.on = aReq[q].on
      BY <1>q, <1>s DEF new, Idle, ARequest
    <3>3. Carries(aReq[q])
      BY <1>4, <2>2 DEF Carries
    <3>4. new.at \notin NotSent /\ new.at # "again"
      BY <3>2 DEF NotSent
    <3> QED BY <1>4, <2>2, <3>1, <3>2, <3>3, <3>4, WaitingRowsAreIdle, StepsOn
  <2> QED BY <2>1, <2>2
<1>5. ASSUME NEW q \in Requests, Test(q) \/ \E who \in Agents \cup {Person} : Call(q, who) PROVE CallsInv'
  <2>1. aConn \in Statuses /\ aRow' = aRow
    BY <1>5 DEF Test, Call, Exists
  <2>2. PICK new : /\ aReq' = [aReq EXCEPT ![q] = new]
                   /\ \/ new = [Idle EXCEPT !.at = "test", !.seen = aConn]
                      \/ \E who \in Agents \cup {Person} : new = [Idle EXCEPT !.at = "judge", !.who = who, !.seen = aConn]
    <3>1. CASE Test(q)
      BY <3>1 DEF Test
    <3>2. CASE \E who \in Agents \cup {Person} : Call(q, who)
      BY <3>2 DEF Call
    <3> QED BY <1>5, <3>1, <3>2
  <2>3. new \in ARequest /\ ~new.ok /\ ~Carries(new) /\ new.at \in {"test", "judge"}
    <3>1. CASE new = [Idle EXCEPT !.at = "test", !.seen = aConn]
      BY <1>s, <2>1, <3>1 DEF Idle, ARequest, Carries
    <3>2. ASSUME NEW who \in Agents \cup {Person}, new = [Idle EXCEPT !.at = "judge", !.who = who, !.seen = aConn]
          PROVE  new \in ARequest /\ ~new.ok /\ ~Carries(new) /\ new.at \in {"test", "judge"}
      BY <1>s, <2>1, <3>2 DEF Idle, ARequest, Carries
    <3> QED BY <2>2, <3>1, <3>2
  <2> QED BY <2>1, <2>2, <2>3, WaitingRowsAreIdle, StepsOn
<1>6. ASSUME NEW q \in Requests,
             \/ Connect(q) \/ SaveSecrets(q) \/ ConnectFails(q) \/ Disconnect(q)
             \/ SignIn(q) \/ SignedIn(q) \/ (\E ok \in BOOLEAN : Tested(q, ok)) \/ RequestDies(q)
      PROVE  CallsInv'
  <2>1. CASE Connect(q) \/ Disconnect(q) \/ SignIn(q)
    BY <1>1, <2>1 DEF Connect, Disconnect, SignIn
  <2>2. CASE SaveSecrets(q) \/ ConnectFails(q) \/ SignedIn(q) \/ (\E ok \in BOOLEAN : Tested(q, ok)) \/ RequestDies(q)
    <3>1. Over(q) /\ aRow' = aRow
      BY <2>2 DEF SaveSecrets, ConnectFails, SignedIn, Tested, RequestDies
    <3> QED BY <1>2, <3>1
  <2> QED BY <1>6, <2>1, <2>2
<1>7. ASSUME NEW q \in Requests, Judge(q) \/ Load(q) PROVE CallsInv'
  <2>1. aReq[q].at \in {"judge", "load"} /\ aRow' = aRow
    BY <1>7 DEF Judge, Load
  <2>2. Ends(q, FALSE) \/ GoesTo(q, "load") \/ GoesTo(q, "insert") \/ GoesTo(q, "run")
    BY <1>7 DEF Judge, Load
  <2> QED BY <1>3, <1>4, <2>1, <2>2
<1>8. ASSUME NEW q \in Requests, RunFails(q) \/ RunRefused(q) \/ RefreshRefused(q) PROVE CallsInv'
  BY <1>4, <1>8 DEF RunFails, RunRefused, RefreshRefused
<1>9. ASSUME (\E q \in Requests : Refresh(q)) \/ (aReq' = aReq /\ aRow' = aRow) PROVE CallsInv'
  <2>1. aReq' = aReq /\ aRow' = aRow
    BY <1>9 DEF Refresh
  <2> QED BY <2>1, WaitingRowsAreIdle, RowsOnly
<1>10. ASSUME NEW status \in {"pending", "denied", "expired"}, NEW S \in SUBSET Approvals,
              \A a \in S : aRow[a].st \in {"absent", "pending"},
              aRow' = [a \in Approvals |-> IF a \in S THEN [aRow[a] EXCEPT !.st = status] ELSE aRow[a]]
       PROVE  IdleRowsChange
  <2>1. \A a \in S : aRow'[a].ran = 0 /\ aRow'[a].again = 0 /\ aRow'[a].st = status /\ aRow'[a] \in ARow
    BY <1>0, <1>10, <1>r DEF ARow
  <2>2. \A a \in Approvals : a \notin S => aRow'[a] = aRow[a]
    BY <1>10
  <2>3. aRow' \in [Approvals -> ARow]
    BY <1>0, <1>10, <2>1, <2>2
  <2> QED BY <1>10, <2>1, <2>2, <2>3, WaitingRowsAreIdle DEF IdleRowsChange
<1>11. ASSUME NEW a \in Approvals, NEW status \in {"pending", "denied", "expired"},
              aRow[a].st \in {"absent", "pending"}, SetApproval(a, status)
       PROVE  IdleRowsChange
  <2>1. aRow' = [b \in Approvals |-> IF b \in {a} THEN [aRow[b] EXCEPT !.st = status] ELSE aRow[b]]
    BY <1>0, <1>11 DEF SetApproval
  <2> QED BY <1>10, <1>11, <2>1
<1>12. ASSUME NEW q \in Requests, Over(q), IdleRowsChange PROVE CallsInv'
  BY <1>12, IdleIsRequest, StepsOn DEF Over
<1>13. ASSUME (\E q \in Requests : ExpireItsCalls(q)) \/ ExpireApprovals PROVE CallsInv'
  <2>1. CASE ExpireApprovals
    <3>1. aRow' = [a \in Approvals |-> IF a \in {b \in Approvals : aRow[b].st = "pending" /\ aRow[b].late}
                                       THEN [aRow[a] EXCEPT !.st = "expired"] ELSE aRow[a]]
      BY <2>1 DEF ExpireApprovals, WithStatus
    <3>2. IdleRowsChange
      BY <1>10, <3>1
    <3> QED BY <2>1, <3>2, RowsOnly DEF ExpireApprovals
  <2>2. ASSUME NEW q \in Requests, ExpireItsCalls(q) PROVE CallsInv'
    <3>1. aRow' = [a \in Approvals |-> IF a \in {b \in Approvals : aRow[b].st = "pending"}
                                       THEN [aRow[a] EXCEPT !.st = "expired"] ELSE aRow[a]]
      BY <2>2 DEF ExpireItsCalls, WithStatus
    <3>2. IdleRowsChange
      BY <1>10, <3>1
    <3> QED BY <1>12, <2>2, <3>2 DEF ExpireItsCalls
  <2> QED BY <1>13, <2>1, <2>2
<1>14. ASSUME NEW q \in Requests, Insert(q) PROVE CallsInv'
  <2>1. PICK a \in Approvals : aRow[a] = NoRow /\ SetApproval(a, "pending")
    BY <1>14 DEF Insert
  <2>2. IdleRowsChange
    BY <1>11, <2>1 DEF NoRow
  <2> QED BY <1>12, <1>14, <2>2 DEF Insert
<1>15. ASSUME NEW a \in Approvals, Late(a) \/ Forget(a) PROVE CallsInv'
  <2>1. aReq' = aReq
    BY <1>15 DEF Late, Forget
  <2>2. IdleRowsChange
    <3>1. CASE Late(a)
      BY <1>0, <1>r, <3>1, WaitingRowsAreIdle DEF Late, IdleRowsChange, ARow
    <3>2. CASE Forget(a)
      BY <1>0, <3>2 DEF Forget, NoRow, IdleRowsChange, ARow
    <3> QED BY <1>15, <3>1, <3>2
  <2> QED BY <2>1, <2>2, RowsOnly
<1>16. ASSUME NEW q \in Requests, NEW a \in Approvals, Decide(q, a) PROVE CallsInv'
  <2>1. CASE aRow[a].late
    BY <1>11, <1>16, <2>1, RowsOnly DEF Decide
  <2>2. CASE ~aRow[a].late
    <3> DEFINE new == [Idle EXCEPT !.at = "claim", !.on = a]
    <3>1. aReq' = [aReq EXCEPT ![q] = new] /\ aRow' = aRow
      BY <1>16, <2>2 DEF Decide
    <3>2. new \in ARequest /\ ~new.ok /\ ~Carries(new) /\ new.on # Nobody
      BY <1>s, ApprovalsAssumption DEF Idle, ARequest, Carries
    <3> HIDE DEF new
    <3> QED BY <3>1, <3>2, WaitingRowsAreIdle, StepsOn
  <2> QED BY <2>1, <2>2
<1>17. ASSUME NEW q \in Requests, Claim(q) PROVE CallsInv'
  <2> DEFINE a == aReq[q].on
  <2>1. a \in Approvals /\ aReq[q].at = "claim"
    BY <1>17, <1>q DEF Claim, CallsInv, CallsOK
  <2>2. CASE Over(q) /\ aRow' = aRow
    BY <1>2, <2>2
  <2>3. CASE Free(a) /\ SetApproval(a, "denied") /\ Over(q)
    BY <1>11, <1>12, <2>1, <2>3 DEF Free
  <2>4. CASE /\ Free(a) /\ SetApproval(a, "approved")
             /\ aReq' = [aReq EXCEPT ![q] = [@ EXCEPT !.at = "judge", !.who = Approval,
                                                      !.seen = IF Exists THEN aConn ELSE "none"]]
    <3>1. aReq'[q] \in ARequest /\ aReq'[q].at = "judge" /\ aReq'[q].on = a /\ ~aReq'[q].ok
      BY <1>0, <1>q, <1>s, <2>1, <2>4, ZenonT(40) DEF ARequest, Exists
    <3>2. aRow'[a] \in ARow /\ aRow'[a].st = "approved" /\ aRow'[a].ran = 0 /\ aRow'[a].again = 0
      BY <1>0, <1>r, <2>1, <2>4 DEF ARow, SetApproval, Free
    <3> QED BY <1>0, <2>1, <2>4, <3>1, <3>2, RowOfOneCall DEF Free, SetApproval, NotSent
  <2> QED BY <1>17, <2>2, <2>3, <2>4 DEF Claim
<1>18. ASSUME NEW q \in Requests, Run(q) \/ RunAgain(q) PROVE CallsInv'
  <2>1. PICK new :
          /\ aReq' = [aReq EXCEPT ![q] = new]
          /\ \/ aReq[q].on = Nobody /\ (new = Idle \/ new = [Idle EXCEPT !.at = "again", !.on = Nobody])
             \/ aReq[q].on # Nobody /\ \E ok \in BOOLEAN :
                  new = [Idle EXCEPT !.at = "write", !.on = aReq[q].on, !.ok = ok]
             \/ aReq[q].on # Nobody /\ Run(q) /\ new = [Idle EXCEPT !.at = "again", !.on = aReq[q].on]
    BY <1>18 DEF Run, RunAgain, Ends, GoesTo
  <2>2. CASE aReq[q].on = Nobody
    <3>1. new \in ARequest /\ ~new.ok /\ ~Carries(new) /\ new.at \in {"idle", "again"}
      BY <1>s, <2>1, <2>2, IdleIsRequest DEF Idle, ARequest, Carries
    <3>2. aRow' = aRow
      BY <1>18, <2>2 DEF Run, RunAgain
    <3> QED BY <2>1, <3>1, <3>2, WaitingRowsAreIdle, StepsOn
  <2>3. CASE aReq[q].on # Nobody
    <3> DEFINE a == aReq[q].on
    <3>1. a \in Approvals /\ Carries(aReq[q]) /\ aReq[q].at \in {"run", "again"}
      BY <1>18, <1>q, <2>3 DEF Run, RunAgain, Carries
    <3>2. /\ aRow[a].st = "approved" /\ aRow[a] \in ARow
          /\ Run(q) => aRow[a].ran = 0 /\ aRow[a].again = 0
          /\ RunAgain(q) => aRow[a].ran = 1 /\ aRow[a].again = 0
      BY <1>0, <3>1 DEF CallsInv, CallsOK, CallOnce, Run, RunAgain, NotSent, ARow
    <3>3. /\ new \in ARequest /\ new.on = a
          /\ new.at = "write" \/ (Run(q) /\ new.at = "again")
          /\ new.ok => new.at = "write"
      BY <1>q, <1>s, <2>1, <2>3, <3>1 DEF Idle, ARequest
    <3>4. PICK row :
            /\ aRow' = [aRow EXCEPT ![a] = row]
            /\ row \in ARow /\ row.st = "approved" /\ row.ran = 1 /\ row.again \in {0, 1}
            /\ new.at = "again" => row.again = 0
      <4>1. CASE Run(q)
        <5> DEFINE row == [aRow[a] EXCEPT !.ran = 1]
        <5>1. row \in ARow /\ row.st = "approved" /\ row.ran = 1 /\ row.again = 0
          BY <3>2, <4>1 DEF ARow
        <5>2. aRow' = [aRow EXCEPT ![a] = row]
          BY <1>0, <2>3, <3>1, <3>2, <4>1 DEF Run
        <5> HIDE DEF row
        <5> QED BY <5>1, <5>2
      <4>2. CASE RunAgain(q)
        <5> DEFINE row == [aRow[a] EXCEPT !.again = 1]
        <5>1. row \in ARow /\ row.st = "approved" /\ row.ran = 1 /\ row.again = 1
          BY <3>2, <4>2 DEF ARow
        <5>2. aRow' = [aRow EXCEPT ![a] = row]
          BY <1>0, <2>3, <3>1, <3>2, <4>2 DEF RunAgain
        <5>3. new.at # "again"
          BY <3>3, <4>2 DEF Run, RunAgain
        <5> HIDE DEF row
        <5> QED BY <5>1, <5>2, <5>3
      <4> QED BY <1>18, <4>1, <4>2
    <3>5. /\ \A r \in Requests : r # q => aReq'[r] = aReq[r]
          /\ \A b \in Approvals : b # a => aRow'[b] = aRow[b]
          /\ aReq' \in [Requests -> ARequest] /\ aRow' \in [Approvals -> ARow]
          /\ aReq'[q] = new /\ aRow'[a] = row
      BY <1>0, <2>1, <3>1, <3>3, <3>4
    <3>6. aReq[q].on = a
      OBVIOUS
    <3>7. /\ row.ran <= 1 /\ row.again <= row.ran
          /\ row.st \notin {"executed", "absent", "pending", "denied", "expired"}
      BY <3>4
    <3>8. /\ new.at \notin NotSent /\ new.at # "claim" /\ a # Nobody
          /\ new.at = "again" => row.ran = 1 /\ row.again = 0
      BY <2>3, <3>3, <3>4 DEF NotSent
    <3> HIDE DEF a
    <3> QED BY <3>1, <3>3, <3>4, <3>5, <3>6, <3>7, <3>8, RowOfOneCall
  <2> QED BY <2>2, <2>3
<1>19. ASSUME NEW q \in Requests, WriteOutcome(q) PROVE CallsInv'
  <2> DEFINE a == aReq[q].on
  <2>1. a \in Approvals /\ aReq[q].at = "write" /\ Carries(aReq[q])
    BY <1>19, <1>q DEF WriteOutcome, CallsInv, CallsOK, Carries
  <2>2. aRow[a].st = "approved" /\ aRow[a].ran <= 1 /\ aRow[a].again <= aRow[a].ran /\ (aReq[q].ok => aRow[a].ran = 1)
    BY <2>1 DEF CallsInv, CallsOK, CallOnce
  <2>3. aReq' = [aReq EXCEPT ![q] = Idle]
    BY <1>19 DEF WriteOutcome, Over
  <2>4. PICK status \in {"executed", "failed"} :
          (aReq[q].ok <=> status = "executed") /\ aRow' = [aRow EXCEPT ![a].st = status]
    BY <1>19 DEF WriteOutcome, SetApproval
  <2>5. aRow'[a] \in ARow /\ aRow'[a].st = status /\ aRow'[a].ran = aRow[a].ran /\ aRow'[a].again = aRow[a].again
    BY <1>0, <2>1, <2>4 DEF ARow
  <2>6. /\ \A r \in Requests : r # q => aReq'[r] = aReq[r]
        /\ \A b \in Approvals : b # a => aRow'[b] = aRow[b]
        /\ aReq' \in [Requests -> ARequest] /\ aRow' \in [Approvals -> ARow]
    BY <1>0, <2>1, <2>3, <2>4, <2>5, IdleIsRequest
  <2>7. aReq'[q] = Idle /\ Idle.on = Nobody
    BY <1>0, <2>3 DEF Idle
  <2>8. aReq[q].on = a
    OBVIOUS
  <2> HIDE DEF a
  <2> QED BY <2>1, <2>2, <2>4, <2>5, <2>6, <2>7, <2>8, IdleIsRequest, RowOfOneCall
<1>20. CASE SetMode(aMode') \/ SetRisk(aRisk') \/ UNCHANGED aVars
  BY <1>9, <1>20 DEF SetMode, SetRisk, aVars
<1> QED
  BY <1>5, <1>6, <1>7, <1>8, <1>9, <1>13, <1>14, <1>15, <1>16, <1>17, <1>18, <1>19, <1>20
     DEF ApprovalsNext, SetMode, SetRisk

\* An approval is asked for, decided, run and written, and swept, with its types kept.
LEMMA Calls == ApprovalsSpec => [](SettingsOK /\ CallsInv)
<1>1. ApprovalsInit => SettingsOK /\ CallsInv
  <2> SUFFICES ASSUME ApprovalsInit PROVE SettingsOK /\ CallsInv
    OBVIOUS
  <2>0. aRow = [a \in Approvals |-> NoRow] /\ aReq = [q \in Requests |-> Idle]
    BY DEF ApprovalsInit
  <2>1. SettingsOK
    <3>1. 0 \in 0..MaxAsked
      BY ApprovalsAssumption
    <3> QED BY <3>1 DEF ApprovalsInit, SettingsOK
  <2>2. NoRow \in ARow /\ NoRow.ran = 0 /\ NoRow.again = 0 /\ NoRow.st = "absent"
    BY DEF NoRow, ARow
  <2>3. CallsInv
    <3>1. aRow = [a \in Approvals |-> NoRow] /\ aReq = [q \in Requests |-> Idle]
      BY <2>0
    <3>2. CallOnce
      BY <2>2, <3>1 DEF CallOnce
    <3>3. CallsOK
      BY <2>2, <3>1, IdleIsRequest DEF CallsOK
    <3> QED BY <3>2, <3>3 DEF CallsInv
  <2> QED BY <2>1, <2>3
<1> QED BY <1>1, SettingsInductive, CallsInductive, PTL DEF ApprovalsSpec

\* Only a call to a remote MCP server is sent, or about to be sent, a second time.
SentAgain ==
  /\ \A a \in Approvals : aRow[a].again > 0 => aKind.remote
  /\ \A q \in Requests : aReq[q].at = "again" => aKind.remote

\* No step but that of mcpClient.js has a call sent again, and no kind changes.
LEMMA SentAgainKept == CallsInv /\ SentAgain /\ [ApprovalsNext]_aVars => SentAgain'
<1> SUFFICES ASSUME CallsInv, SentAgain, [ApprovalsNext]_aVars PROVE SentAgain'
  OBVIOUS
<1> DEFINE Fine == /\ aKind' = aKind
                   /\ \A q \in Requests : aReq'[q].at = "again" => aReq[q].at = "again" \/ aKind.remote
                   /\ \A a \in Approvals : \/ aRow'[a].again \in {aRow[a].again, 0}
                                           \/ aKind.remote
<1>0. aReq \in [Requests -> ARequest] /\ aRow \in [Approvals -> ARow] /\ Idle.at = "idle"
  BY IdleIsRequest DEF CallsInv, CallsOK
<1>i. \A at, on : [Idle EXCEPT !.at = at, !.on = on].at = at
  BY DEF Idle
<1>g. ASSUME NEW q \in Requests, NEW at, at # "again", GoesTo(q, at)
      PROVE  \A r \in Requests : aReq'[r].at = "again" => aReq[r].at = "again"
  <2>1. PICK new : new.at = at /\ aReq' = [aReq EXCEPT ![q] = new]
    BY <1>g, <1>i DEF GoesTo
  <2>2. aReq'[q].at = at /\ \A r \in Requests : r # q => aReq'[r] = aReq[r]
    BY <1>0, <2>1
  <2> QED BY <1>g, <2>2
<1>e. ASSUME NEW q \in Requests, NEW ok, Ends(q, ok)
      PROVE  \A r \in Requests : aReq'[r].at = "again" => aReq[r].at = "again"
  <2> DEFINE written == [Idle EXCEPT !.at = "write", !.on = aReq[q].on, !.ok = ok]
  <2>0. written.at = "write"
    BY DEF Idle
  <2> HIDE DEF written
  <2>1. PICK new : new.at \in {"idle", "write"} /\ aReq' = [aReq EXCEPT ![q] = new]
    <3>1. aReq' = [aReq EXCEPT ![q] = Idle] \/ aReq' = [aReq EXCEPT ![q] = written]
      BY <1>e DEF Ends, written
    <3> QED BY <1>0, <2>0, <3>1
  <2>2. aReq'[q].at \in {"idle", "write"} /\ \A r \in Requests : r # q => aReq'[r] = aReq[r]
    BY <1>0, <2>1
  <2> QED BY <2>2
<1>1. ASSUME NEW q \in Requests,
             \/ Connect(q) \/ SaveSecrets(q) \/ ConnectFails(q) \/ Disconnect(q)
             \/ SignIn(q) \/ SignedIn(q) \/ (\E ok \in BOOLEAN : Tested(q, ok)) \/ RequestDies(q)
      PROVE  Fine
  <2>1. aKind' = aKind /\ aRow' = aRow
    BY <1>1 DEF Connect, SaveSecrets, ConnectFails, Disconnect, SignIn, SignedIn, Tested, RequestDies
  <2>2. Over(q) \/ GoesTo(q, "save") \/ GoesTo(q, "expire") \/ GoesTo(q, "sign")
    BY <1>1 DEF Connect, SaveSecrets, ConnectFails, Disconnect, SignIn, SignedIn, Tested, RequestDies
  <2> QED BY <1>0, <1>g, <2>1, <2>2 DEF Over
<1>2. ASSUME NEW q \in Requests, Test(q) \/ \E who \in Agents \cup {Person} : Call(q, who) PROVE Fine
  <2>1. aKind' = aKind /\ aRow' = aRow
    BY <1>2 DEF Test, Call
  <2>2. aReq'[q].at \in {"test", "judge"} /\ \A r \in Requests : r # q => aReq'[r] = aReq[r]
    <3>1. CASE Test(q)
      <4> DEFINE new == [Idle EXCEPT !.at = "test", !.seen = aConn]
      <4>1. aReq' = [aReq EXCEPT ![q] = new]
        BY <3>1 DEF Test
      <4>2. new.at = "test"
        BY DEF Idle
      <4> HIDE DEF new
      <4> QED BY <1>0, <4>1, <4>2
    <3>2. CASE \E who \in Agents \cup {Person} : Call(q, who)
      <4>1. PICK who : Call(q, who)
        BY <3>2
      <4> DEFINE new == [Idle EXCEPT !.at = "judge", !.who = who, !.seen = aConn]
      <4>2. aReq' = [aReq EXCEPT ![q] = new]
        BY <4>1 DEF Call
      <4>3. new.at = "judge"
        BY DEF Idle
      <4> HIDE DEF new
      <4> QED BY <1>0, <4>2, <4>3
    <3> QED BY <1>2, <3>1, <3>2
  <2> QED BY <2>1, <2>2
<1>3. ASSUME NEW q \in Requests, Judge(q) \/ Load(q) \/ RunFails(q) \/ RunRefused(q) \/ Refresh(q)
                                \/ RefreshRefused(q)
      PROVE  Fine
  <2>1. aKind' = aKind /\ aRow' = aRow
    BY <1>3 DEF Judge, Load, RunFails, RunRefused, Refresh, RefreshRefused
  <2>2. \/ Ends(q, FALSE) \/ GoesTo(q, "load") \/ GoesTo(q, "insert") \/ GoesTo(q, "run") \/ aReq' = aReq
    BY <1>3 DEF Judge, Load, RunFails, RunRefused, Refresh, RefreshRefused
  <2> QED BY <1>e, <1>g, <2>1, <2>2
<1>4. ASSUME NEW q \in Requests, Run(q) \/ RunAgain(q) PROVE Fine
  <2>1. aKind' = aKind
    BY <1>4 DEF Run, RunAgain
  <2>2. CASE aKind.remote
    BY <2>1, <2>2
  <2>3. CASE ~aKind.remote
    <3>1. Run(q) /\ \E ok \in BOOLEAN : Ends(q, ok)
      BY <1>4, <2>3 DEF Run, RunAgain, SentAgain
    <3>2. \A r \in Requests : aReq'[r].at = "again" => aReq[r].at = "again"
      BY <1>e, <3>1
    <3>3. \A a \in Approvals : aRow'[a].again = aRow[a].again
      BY <1>0, <3>1 DEF Run, ARow
    <3> QED BY <2>1, <3>2, <3>3
  <2> QED BY <2>2, <2>3
<1>5. ASSUME NEW q \in Requests, Insert(q) \/ (\E a \in Approvals : Decide(q, a)) \/ WriteOutcome(q)
      PROVE  Fine
  <2>1. aKind' = aKind
    BY <1>5 DEF Insert, Decide, WriteOutcome
  <2>2. \A r \in Requests : aReq'[r].at = "again" => aReq[r].at = "again"
    BY <1>0, <1>5 DEF Insert, Decide, WriteOutcome, Over, Idle
  <2>3. PICK a, status : aRow' = [aRow EXCEPT ![a].st = status] \/ aRow' = aRow
    BY <1>5 DEF Insert, Decide, WriteOutcome, SetApproval
  <2>4. \A b \in Approvals : aRow'[b].again = aRow[b].again
    BY <1>0, <2>3 DEF ARow
  <2> QED BY <2>1, <2>2, <2>4
<1>6. ASSUME NEW q \in Requests, Claim(q) PROVE Fine
  <2>1. aKind' = aKind
    BY <1>6 DEF Claim
  <2>2. \A r \in Requests : aReq'[r].at = "again" => aReq[r].at = "again"
    BY <1>0, <1>6 DEF Claim, Over, ARequest
  <2>3. PICK status : aRow' = [aRow EXCEPT ![aReq[q].on].st = status] \/ aRow' = aRow
    BY <1>6 DEF Claim, SetApproval
  <2>4. \A b \in Approvals : aRow'[b].again = aRow[b].again
    BY <1>0, <2>3 DEF ARow
  <2> QED BY <2>1, <2>2, <2>4
<1>7. ASSUME (\E a \in Approvals : Late(a) \/ Forget(a)) \/ ExpireApprovals \/ \E q \in Requests : ExpireItsCalls(q)
      PROVE  Fine
  <2>1. aKind' = aKind
    BY <1>7 DEF Late, Forget, ExpireApprovals, ExpireItsCalls
  <2>2. \A r \in Requests : aReq'[r].at = "again" => aReq[r].at = "again"
    BY <1>0, <1>7 DEF Late, Forget, ExpireApprovals, ExpireItsCalls, Over
  <2>3. \A b \in Approvals : aRow'[b].again \in {aRow[b].again, 0}
    <3>1. CASE \E a \in Approvals : Late(a) \/ Forget(a)
      BY <1>0, <3>1 DEF Late, Forget, NoRow, ARow
    <3>2. CASE ExpireApprovals \/ \E q \in Requests : ExpireItsCalls(q)
      BY <1>0, <3>2 DEF ExpireApprovals, ExpireItsCalls, WithStatus, ARow
    <3> QED BY <1>7, <3>1, <3>2
  <2> QED BY <2>1, <2>2, <2>3
<1>8. ASSUME SetMode(aMode') \/ SetRisk(aRisk') \/ UNCHANGED aVars PROVE Fine
  BY <1>8 DEF SetMode, SetRisk, aVars
<1>9. Fine
  <2> HIDE DEF Fine
  <2> QED BY <1>1, <1>2, <1>3, <1>4, <1>5, <1>6, <1>7, <1>8 DEF ApprovalsNext, SetMode, SetRisk
<1> QED BY <1>0, <1>9 DEF SentAgain

\* broker.js:529 "An approved call runs once", for any number of approvals and of requests that
\* decide, run, disconnect, die and are swept at once: no second request takes it up, and only a
\* remote MCP server may be sent it a second time.
THEOREM ApprovedCallTakenOnce == ApprovalsSpec => []ApprovedTakenOnce
<1>1. ApprovalsInit => SentAgain
  BY IdleIsRequest DEF ApprovalsInit, SentAgain, NoRow
<1>2. CallsInv /\ SentAgain => ApprovedTakenOnce
  BY DEF CallsInv, CallOnce, SentAgain, ApprovedTakenOnce
<1> QED BY <1>1, <1>2, SentAgainKept, Calls, PTL DEF ApprovalsSpec

\* The broker's rows and requests keep their types.
THEOREM ApprovalsTypeCorrect == ApprovalsSpec => []ApprovalsTypeOK
<1>1. SettingsOK /\ CallsInv => ApprovalsTypeOK
  BY DEF SettingsOK, CallsInv, CallsOK, ApprovalsTypeOK, ARequest, ARow, Stages
<1> QED BY <1>1, Calls, PTL
-----------------------------------------------------------------------------
(***************************************************************************)
(* Keys: keys.js                                                           *)
(***************************************************************************)

\* A request that has passed the write to GitHub, or reads the vault, carries a key that GitHub took.
Stops == {"off", "check", "write", "vault", "row", "drop vault", "drop row", "reconcile", "rotate"}
DeskRequest == [at : Stops, key : MaybeKey, chat : BOOLEAN]
CarriesKept(req) ==
  /\ req \in DeskRequest
  /\ req.at \in {"check", "write"} => req.key \in Values
  /\ req.at \in {"vault", "row", "rotate"} => req.key \in wWritten \cup {NoValue}

KeysInv ==
  /\ wWritten \subseteq Values /\ wCount \in 0..MaxDesk
  /\ wSecret \in wWritten \cup {NoValue} /\ wVault \in wWritten \cup {NoValue}
  /\ wRow \in wWritten \cup {NoValue, Unknown}
  /\ wReq \in [Desk -> DeskRequest]
  /\ \A q \in Desk : CarriesKept(wReq[q])

\* What GitHub once took stays taken, so a step of one request spoils no other one's key.
LEMMA OneAtTheDesk ==
  ASSUME KeysInv, NEW q \in Desk, NEW new, CarriesKept(new)', wReq' = [wReq EXCEPT ![q] = new],
         wWritten \subseteq wWritten'
  PROVE  wReq' \in [Desk -> DeskRequest] /\ \A r \in Desk : CarriesKept(wReq[r])'
<1> HIDE DEF DeskRequest
<1>1. new \in DeskRequest
  BY DEF CarriesKept
<1>2. wReq'[q] = new /\ \A r \in Desk : r # q => wReq'[r] = wReq[r]
  BY DEF KeysInv
<1>3. wReq' \in [Desk -> DeskRequest]
  BY <1>1 DEF KeysInv
<1>4. ASSUME NEW r \in Desk, r # q PROVE CarriesKept(wReq[r])'
  BY <1>2, <1>4 DEF KeysInv, CarriesKept
<1>5. CarriesKept(wReq[q])'
  BY <1>2 DEF CarriesKept
<1> QED BY <1>3, <1>4, <1>5

\* A request that goes on to another stop, its key being one that may be there.
LEMMA KeyStepKeeps ==
  ASSUME KeysInv, NEW q \in Desk, NEW at \in Stops, KeyStep(q, at), wWritten \subseteq wWritten',
         at \in {"check", "write"} => wReq[q].key \in Values,
         at \in {"vault", "row", "rotate"} => wReq[q].key \in wWritten' \cup {NoValue}
  PROVE  wReq' \in [Desk -> DeskRequest] /\ \A r \in Desk : CarriesKept(wReq[r])'
<1>1. wReq[q] \in DeskRequest
  BY DEF KeysInv
<1>2. PICK new : new = (IF at = "off" THEN NoReq ELSE [wReq[q] EXCEPT !.at = at])
  OBVIOUS
<1>3. wReq' = [wReq EXCEPT ![q] = new]
  BY <1>2 DEF KeyStep
<1>4. CASE at = "off"
  <2>1. new \in DeskRequest /\ new.at = "off"
    BY <1>2, <1>4 DEF DeskRequest, NoReq, MaybeKey, Stops
  <2>2. CarriesKept(new)'
    BY <2>1 DEF CarriesKept
  <2> QED BY <1>3, <2>2, OneAtTheDesk
<1>5. CASE at # "off"
  <2>1. new \in DeskRequest /\ new.at = at /\ new.key = wReq[q].key
    BY <1>1, <1>2, <1>5 DEF DeskRequest
  <2>2. CarriesKept(new)'
    BY <2>1 DEF CarriesKept
  <2> QED BY <1>3, <2>2, OneAtTheDesk
<1> QED BY <1>4, <1>5

\* Saving, removing, listing and rotating keep to keys that GitHub took: the vault and the row
\* are written after the secret.
LEMMA KeysInductive == KeysInv /\ [KeysNext]_wVars => KeysInv'
<1> SUFFICES ASSUME KeysInv, [KeysNext]_wVars PROVE KeysInv'
  OBVIOUS
<1> DEFINE Fine == wReq' \in [Desk -> DeskRequest] /\ \A r \in Desk : CarriesKept(wReq[r])'
<1>0. /\ \A q \in Desk : wReq[q] \in DeskRequest /\ CarriesKept(wReq[q])
      /\ wWritten \subseteq Values /\ wCount \in 0..MaxDesk
      /\ wSecret \in wWritten \cup {NoValue} /\ wVault \in wWritten \cup {NoValue}
      /\ wRow \in wWritten \cup {NoValue, Unknown}
  BY DEF KeysInv
<1>s. \A at \in {"off", "write", "vault", "row", "drop vault", "drop row", "reconcile", "rotate"} : at \in Stops
  BY DEF Stops
<1>b. wCount < MaxDesk => wCount + 1 \in 0..MaxDesk
  BY <1>0, KeysAssumption
<1>1. ASSUME NEW q \in Desk, NEW new, Begin(q, new), CarriesKept(new)', wWritten \subseteq wWritten'
      PROVE  Fine
  BY <1>1, OneAtTheDesk DEF Begin
<1>2. ASSUME NEW v \in Values, SetOutside(v) PROVE KeysInv'
  <2>1. \A r \in Desk : CarriesKept(wReq[r])'
    BY <1>0, <1>2 DEF SetOutside, CarriesKept
  <2> QED BY <1>0, <1>2, <1>b, <2>1 DEF SetOutside, KeysInv
<1>3. ASSUME NEW q \in Desk, NEW v \in Values, NEW chat \in BOOLEAN, SaveKey(q, v, chat) PROVE KeysInv'
  <2>1. Begin(q, [at |-> "check", key |-> v, chat |-> chat]) /\ UNCHANGED <<wSecret, wVault, wRow, wWritten>>
    BY <1>3 DEF SaveKey
  <2>2. CarriesKept([at |-> "check", key |-> v, chat |-> chat])'
    BY DEF CarriesKept, DeskRequest, Stops, MaybeKey
  <2>3. Fine
    BY <1>1, <2>1, <2>2
  <2> QED BY <1>0, <1>b, <2>1, <2>3 DEF Begin, KeysInv
<1>4. ASSUME NEW q \in Desk, Checked(q) PROVE KeysInv'
  <2>1. Fine
    BY <1>0, <1>4, <1>s, KeyStepKeeps DEF Checked, CarriesKept
  <2> QED BY <1>0, <1>4, <2>1 DEF Checked, KeysInv
<1>5. ASSUME NEW q \in Desk, WriteSecret(q) PROVE KeysInv'
  <2>1. wReq[q].key \in Values
    BY <1>0, <1>5 DEF WriteSecret, CarriesKept
  <2>2. PICK taken \in BOOLEAN, ok \in BOOLEAN :
          /\ ok => taken
          /\ IF taken THEN wSecret' = wReq[q].key /\ wWritten' = wWritten \cup {wReq[q].key}
                      ELSE UNCHANGED <<wSecret, wWritten>>
          /\ KeyStep(q, AfterWrite(ok))
    BY <1>5 DEF WriteSecret
  <2>3. Fine
    BY <1>s, <2>1, <2>2, KeyStepKeeps DEF AfterWrite
  <2> QED BY <1>0, <1>5, <2>1, <2>2, <2>3 DEF WriteSecret, KeysInv
<1>6. ASSUME NEW q \in Desk, CopyToVault(q) \/ WriteRow(q) PROVE KeysInv'
  <2>1. wReq[q].key \in wWritten \cup {NoValue}
    BY <1>0, <1>6 DEF CopyToVault, WriteRow, CarriesKept
  <2>2. Fine
    BY <1>6, <1>s, <2>1, KeyStepKeeps DEF CopyToVault, WriteRow
  <2> QED BY <1>0, <1>6, <2>1, <2>2 DEF CopyToVault, WriteRow, KeysInv
<1>7. ASSUME NEW q \in Desk, RemoveKey(q) \/ ListKeys(q) PROVE KeysInv'
  <2>1. CarriesKept([NoReq EXCEPT !.at = "drop vault"])' /\ CarriesKept([NoReq EXCEPT !.at = "reconcile"])'
    BY DEF CarriesKept, NoReq, DeskRequest, Stops, MaybeKey
  <2>2. Fine
    BY <1>1, <1>7, <2>1 DEF RemoveKey, ListKeys
  <2> QED BY <1>0, <1>7, <1>b, <2>2 DEF RemoveKey, ListKeys, Begin, KeysInv
<1>8. ASSUME NEW q \in Desk, DropVault(q) \/ DropRow(q) \/ Reconcile(q) \/ DeskDies(q) PROVE KeysInv'
  <2>1. Fine
    BY <1>8, <1>s, KeyStepKeeps DEF DropVault, DropRow, Reconcile, DeskDies
  <2> QED BY <1>0, <1>8, <2>1 DEF DropVault, DropRow, Reconcile, DeskDies, KeysInv
<1>9. ASSUME NEW q \in Desk, Rotate(q) PROVE KeysInv'
  <2>1. CarriesKept([NoReq EXCEPT !.at = "rotate", !.key = wVault])'
    BY <1>0, <1>9 DEF Rotate, CarriesKept, NoReq, DeskRequest, Stops, MaybeKey
  <2>2. Fine
    BY <1>1, <1>9, <2>1 DEF Rotate
  <2> QED BY <1>0, <1>9, <1>b, <2>2 DEF Rotate, Begin, KeysInv
<1>10. ASSUME NEW q \in Desk, WriteBack(q) PROVE KeysInv'
  <2>1. wReq[q].key \in wWritten \cup {NoValue}
    BY <1>0, <1>10 DEF WriteBack, CarriesKept
  <2>2. Fine
    BY <1>10, <1>s, KeyStepKeeps DEF WriteBack
  <2> QED BY <1>0, <1>10, <2>1, <2>2 DEF WriteBack, KeysInv
<1>11. CASE UNCHANGED wVars
  BY <1>11 DEF wVars, KeysInv, CarriesKept
<1> QED
  BY <1>2, <1>3, <1>4, <1>5, <1>6, <1>7, <1>8, <1>9, <1>10, <1>11 DEF KeysNext

\* keys.js: every desk, however it may interleave with the others, leaves the keys in order.
LEMMA Keys == KeysSpec => []KeysInv
<1>1. KeysInit => KeysInv
  <2>1. CarriesKept(NoReq) /\ NoReq \in DeskRequest
    BY DEF CarriesKept, NoReq, DeskRequest, Stops, MaybeKey
  <2>2. 0 \in 0..MaxDesk
    BY KeysAssumption
  <2> QED BY <2>1, <2>2 DEF KeysInit, KeysInv
<1> QED BY <1>1, KeysInductive, PTL DEF KeysSpec

\* keys.js, steps 10 to 12: wherever a save, a removal or a rotation fails or dies and however
\* they overlap, the vault and the row never hold a key that GitHub did not take.
THEOREM KeysWereWritten == KeysSpec => [](KeysTypeOK /\ KeptKeysWereWritten)
<1>1. KeysInv => KeysTypeOK /\ KeptKeysWereWritten
  BY DEF KeysInv, KeysTypeOK, KeptKeysWereWritten, DeskRequest, Stops, MaybeKey
<1> QED BY <1>1, Keys, PTL
-----------------------------------------------------------------------------
(***************************************************************************)
(* Hooks: hooks.js, retention.js                                           *)
(***************************************************************************)

\* A copy of this post is refused: its nonce is on record, or its signature is too old.
Taken(p) == hNonce[p] # -1 \/ hTime > SignedAt[p] + HookWindow

HookRequest == [at : {"idle", "nonce", "task"}, post : Posts \cup {NoPost}]

\* Who has a nonce, or a task, has spent the post.  A nonce is no older than the signature.
HooksInv ==
  /\ hTime \in 0..HookEnd /\ hNonce \in [Posts -> (-1)..HookEnd]
  /\ hReq \in [Posting -> HookRequest] /\ hTasks \in [Posts -> 0..1]
  /\ \A q \in Posting : hReq[q].at # "idle" => hReq[q].post \in Posts
  /\ \A q \in Posting : hReq[q].at = "nonce" => InWindow(hReq[q].post)
  /\ \A q \in Posting : hReq[q].at = "task" => hTasks[hReq[q].post] = 0 /\ Taken(hReq[q].post)
  /\ \A q, r \in Posting : q # r /\ hReq[q].at = "task" /\ hReq[r].at = "task" => hReq[q].post # hReq[r].post
  /\ \A p \in Posts : hTasks[p] = 1 => Taken(p)
  /\ \A p \in Posts : hNonce[p] # -1 => hNonce[p] >= SignedAt[p] - HookWindow

\* The time, the window and the signatures are numbers.
LEMMA HookNumbers ==
  /\ HookEnd \in Nat /\ HookWindow \in Nat /\ \A p \in Posts : SignedAt[p] \in Int
  /\ NoRequestYet \in HookRequest /\ NoRequestYet.at = "idle"
  BY HooksAssumption DEF NoRequestYet, HookRequest

\* A nonce is taken once, and forgotten only when its signature is too old to be taken again.
LEMMA HooksInductive == HooksInv /\ [HooksNext]_hVars => HooksInv'
<1> SUFFICES ASSUME HooksInv, [HooksNext]_hVars PROVE HooksInv'
  OBVIOUS
<1> USE HookNumbers DEF HooksInv, Taken
<1> HIDE DEF HookRequest
<1>1. CASE HookTick
  <2>1. hTime' = hTime + 1 /\ hTime' \in 0..HookEnd
    BY <1>1 DEF HookTick
  <2>2. \A q \in Posting : hReq[q].at # "nonce"
    BY <1>1 DEF HookTick
  <2>3. UNCHANGED <<hNonce, hReq, hTasks>>
    BY <1>1 DEF HookTick
  <2>4. \A p \in Posts : Taken(p) => Taken(p)'
    BY <2>1, <2>3
  <2> HIDE DEF Taken
  <2> QED BY <2>1, <2>2, <2>3, <2>4
<1>2. CASE PruneNonces
  <2>1. hNonce' = [p \in Posts |-> IF Outlived(p) THEN -1 ELSE hNonce[p]] /\ UNCHANGED <<hTime, hReq, hTasks>>
    BY <1>2 DEF PruneNonces
  <2>2. ASSUME NEW p \in Posts, Taken(p) PROVE Taken(p)'
    <3>1. CASE Outlived(p)
      <4>1. hNonce[p] # -1 => hTime > SignedAt[p] + HookWindow
        BY <3>1 DEF Outlived
      <4> QED BY <2>1, <2>2, <4>1
    <3>2. CASE ~Outlived(p)
      BY <2>1, <2>2, <3>2
    <3> QED BY <3>1, <3>2
  <2>3. hNonce' \in [Posts -> (-1)..HookEnd] /\ \A p \in Posts : hNonce'[p] # -1 => hNonce'[p] = hNonce[p]
    BY <2>1
  <2>4. \A q \in Posting : hReq[q].at = "nonce" => InWindow(hReq[q].post)'
    BY <2>1 DEF InWindow
  <2> HIDE DEF Taken
  <2> QED BY <2>1, <2>2, <2>3, <2>4
<1>3. ASSUME NEW q \in Posting, NEW p \in Posts, Arrive(q, p) PROVE HooksInv'
  <2>1. [at |-> "nonce", post |-> p] \in HookRequest
    BY DEF HookRequest
  <2>2. \A r \in Posting : hReq'[r] = IF r = q THEN [at |-> "nonce", post |-> p] ELSE hReq[r]
    BY <1>3 DEF Arrive
  <2> QED BY <1>3, <2>1, <2>2 DEF Arrive, InWindow
<1>4. ASSUME NEW q \in Posting, TakeNonce(q) PROVE HooksInv'
  <2> DEFINE p == hReq[q].post
  <2>1. p \in Posts /\ InWindow(p) /\ hReq[q].at = "nonce" /\ UNCHANGED <<hTime, hTasks>>
    BY <1>4 DEF TakeNonce
  <2>2. CASE hNonce[p] # -1
    <3>1. \A r \in Posting : hReq'[r] = IF r = q THEN NoRequestYet ELSE hReq[r]
      BY <1>4, <2>2 DEF TakeNonce
    <3>2. hReq' \in [Posting -> HookRequest] /\ hNonce' = hNonce
      BY <1>4, <2>2 DEF TakeNonce
    <3> QED BY <2>1, <3>1, <3>2 DEF InWindow
  <2>3. CASE hNonce[p] = -1
    <3>1. ~Taken(p)
      BY <2>1, <2>3 DEF InWindow
    <3>2. hTasks[p] = 0 /\ \A r \in Posting : hReq[r].at = "task" => hReq[r].post # p
      BY <2>1, <3>1
    <3>3. hReq' = [hReq EXCEPT ![q].at = "task"] /\ hNonce' = [hNonce EXCEPT ![p] = hTime]
      BY <1>4, <2>3 DEF TakeNonce
    <3>4. hReq'[q].at = "task" /\ hReq'[q].post = p /\ \A r \in Posting : r # q => hReq'[r] = hReq[r]
      BY <3>3 DEF HookRequest
    <3>5. hReq' \in [Posting -> HookRequest]
      BY <3>3 DEF HookRequest
    <3>6. hNonce'[p] = hTime /\ hNonce' \in [Posts -> (-1)..HookEnd] /\ \A r \in Posts : r # p => hNonce'[r] = hNonce[r]
      BY <2>1, <3>3
    <3>7. \A r \in Posts : Taken(r) \/ r = p => Taken(r)'
      BY <2>1, <3>6
    <3>8. hTime >= SignedAt[p] - HookWindow
      BY <2>1 DEF InWindow
    <3> HIDE DEF Taken, p
    <3> QED BY <2>1, <3>2, <3>4, <3>5, <3>6, <3>7, <3>8 DEF InWindow
  <2> QED BY <2>2, <2>3
<1>5. ASSUME NEW q \in Posting, QueueTask(q) PROVE HooksInv'
  <2> DEFINE p == hReq[q].post
  <2>1. p \in Posts /\ hTasks[p] = 0 /\ Taken(p) /\ hReq[q].at = "task"
    BY <1>5 DEF QueueTask
  <2>2. hReq' = [hReq EXCEPT ![q] = NoRequestYet] /\ UNCHANGED <<hTime, hNonce>>
    BY <1>5 DEF QueueTask
  <2>3. hTasks' = [hTasks EXCEPT ![p] = 1]
    BY <1>5, <2>1 DEF QueueTask
  <2>4. hReq'[q] = NoRequestYet /\ \A r \in Posting : r # q => hReq'[r] = hReq[r]
    BY <2>2
  <2>5. hReq' \in [Posting -> HookRequest] /\ hTasks' \in [Posts -> 0..1]
    <3>1. hReq' \in [Posting -> HookRequest]
      BY <2>2
    <3>2. hTasks \in [Posts -> 0..1] /\ 1 \in 0..1
      OBVIOUS
    <3> HIDE DEF p
    <3>3. hTasks' \in [Posts -> 0..1]
      BY ONLY <2>3, <3>2
    <3> QED BY <3>1, <3>3
  <2>6. \A r \in Posting : r # q /\ hReq[r].at = "task" => hReq[r].post # p
    BY <2>1
  <2> HIDE DEF p
  <2> QED BY <2>1, <2>2, <2>3, <2>4, <2>5, <2>6 DEF InWindow
<1>6. ASSUME NEW q \in Posting, PostDies(q) PROVE HooksInv'
  <2>1. \A r \in Posting : hReq'[r] = IF r = q THEN NoRequestYet ELSE hReq[r]
    BY <1>6 DEF PostDies
  <2>2. hReq' \in [Posting -> HookRequest] /\ UNCHANGED <<hTime, hNonce, hTasks>>
    BY <1>6 DEF PostDies
  <2> QED BY <2>1, <2>2 DEF InWindow
<1>7. CASE UNCHANGED hVars
  BY <1>7 DEF hVars, InWindow
<1> QED BY <1>1, <1>2, <1>3, <1>4, <1>5, <1>6, <1>7 DEF HooksNext

\* hooks.js:148 "This signature was used before.": for any posts, window and number of requests,
\* a signed post becomes at most one task, before and after its nonce is pruned.
THEOREM OneTaskForAPost == HooksSpec => [](HooksTypeOK /\ PostedOnce)
<1>1. HooksInit => HooksInv
  BY HookNumbers DEF HooksInit, HooksInv, Taken
<1>2. HooksInv => HooksTypeOK /\ PostedOnce
  BY DEF HooksInv, HooksTypeOK, PostedOnce, HookRequest
<1> QED BY <1>1, <1>2, HooksInductive, PTL DEF HooksSpec
-----------------------------------------------------------------------------
(***************************************************************************)
(* Notices: notify.js, notifyRouter.js                                     *)
(***************************************************************************)

\* The channel was told of the event, or of one with the same title.
Told(e, c, tried, log) == <<e, c>> \in tried \/ \E d \in Events : Twin(d, e) /\ <<d, c>> \in log

NoticeTick == [todo : Seq(Events), rule : SUBSET Channels,
               at : {"off", "read", "rules", "begin", "deliver", "record"},
               left : SUBSET Channels, to : SUBSET Channels, quiet : BOOLEAN]

Emitted == nRouted \cup Range(nWaiting)

\* A tick that began outside quiet hours, and has an event, read a rule that names each channel the
\* event is owed to; while it delivers the event, such a channel is still to do or has been told.
TickOK(tick, emitted, owed, tried, log) ==
  /\ \A i \in DOMAIN tick.todo :
       /\ tick.todo[i] \in emitted
       /\ ~tick.quiet /\ tick.at # "rules" => owed[tick.todo[i]] \subseteq tick.rule
  /\ tick.at \in {"rules", "begin", "deliver", "record"} => tick.todo # <<>>
  /\ tick.at \in {"deliver", "record"} /\ ~tick.quiet =>
       \A c \in owed[Head(tick.todo)] : c \in tick.left \/ Told(Head(tick.todo), c, tried, log)
  /\ tick.at = "record" => \A c \in tick.to : <<Head(tick.todo), c>> \in tried

\* An event is owed only to a channel that the rule names and that is connected.
NoticesInv ==
  /\ nWaiting \in Seq(Events) /\ nRouted \subseteq Events
  /\ nLive \subseteq Channels /\ nRule \subseteq Channels /\ nQuiet \in BOOLEAN
  /\ nTick \in [Routers -> NoticeTick] /\ nOwed \in [Events -> SUBSET Channels]
  /\ nTried \subseteq Events \X Channels /\ nLog \subseteq nTried
  /\ \A e \in Events : nOwed[e] \subseteq nLive \cap nRule
  /\ nQuiet => \A e \in Events : nOwed[e] = {}
  /\ \A k \in Routers : TickOK(nTick[k], Emitted, nOwed, nTried, nLog)
  /\ RoutedWasTold

\* What a batch, its rest and the table without one event have of the events.
LEMMA Sequences ==
  ASSUME NEW S, NEW s \in Seq(S)
  PROVE  /\ \A e \in S : Append(s, e) \in Seq(S) /\ Range(s) \subseteq Range(Append(s, e))
         /\ \A n \in 0..Len(s) : /\ SubSeq(s, 1, n) \in Seq(S)
                                 /\ \A i \in DOMAIN SubSeq(s, 1, n) : SubSeq(s, 1, n)[i] \in Range(s)
         /\ s # <<>> => /\ Head(s) \in S /\ 1 \in DOMAIN s /\ Head(s) = s[1] /\ Tail(s) \in Seq(S)
                        /\ \A i \in DOMAIN Tail(s) : i + 1 \in DOMAIN s /\ Tail(s)[i] = s[i + 1]
         /\ \A i \in DOMAIN s : /\ RemoveAt(s, i) \in Seq(S)
                                /\ Range(s) \subseteq Range(RemoveAt(s, i)) \cup {s[i]}
<1>1. ASSUME NEW e \in S PROVE Append(s, e) \in Seq(S) /\ Range(s) \subseteq Range(Append(s, e))
  <2>1. Append(s, e) \in Seq(S) /\ \A i \in DOMAIN s : i \in DOMAIN Append(s, e) /\ Append(s, e)[i] = s[i]
    OBVIOUS
  <2> QED BY <2>1 DEF Range
<1>2. ASSUME NEW n \in 0..Len(s)
      PROVE  SubSeq(s, 1, n) \in Seq(S) /\ \A i \in DOMAIN SubSeq(s, 1, n) : SubSeq(s, 1, n)[i] \in Range(s)
  BY DEF Range
<1>3. ASSUME s # <<>>
      PROVE  /\ Head(s) \in S /\ 1 \in DOMAIN s /\ Head(s) = s[1] /\ Tail(s) \in Seq(S)
             /\ \A i \in DOMAIN Tail(s) : i + 1 \in DOMAIN s /\ Tail(s)[i] = s[i + 1]
  BY <1>3
<1>4. ASSUME NEW i \in DOMAIN s
      PROVE  RemoveAt(s, i) \in Seq(S) /\ Range(s) \subseteq Range(RemoveAt(s, i)) \cup {s[i]}
  <2> DEFINE a == SubSeq(s, 1, i - 1)
             b == SubSeq(s, i + 1, Len(s))
  <2>0. i \in 1..Len(s) /\ Len(s) \in Nat
    OBVIOUS
  <2>1. a \in Seq(S) /\ Len(a) = i - 1 /\ \A j \in 1..(i - 1) : a[j] = s[j]
    BY <2>0
  <2>2. b \in Seq(S) /\ Len(b) = Len(s) - i /\ \A j \in 1..(Len(s) - i) : b[j] = s[i + j]
    BY <2>0
  <2> HIDE DEF a, b
  <2>3. RemoveAt(s, i) = a \o b
    BY DEF RemoveAt, a, b
  <2>4. a \o b \in Seq(S) /\ Len(a \o b) = Len(s) - 1
    BY <2>0, <2>1, <2>2
  <2>5. \A j \in 1..(i - 1) : (a \o b)[j] = s[j]
    BY <2>0, <2>1, <2>2
  <2>6. ASSUME NEW j \in (i + 1)..Len(s) PROVE (a \o b)[j - 1] = s[j]
    <3>1. PICK m \in 1..(Len(s) - i), n \in Nat : m = j - i /\ i + m = j /\ n = j - 1
      BY <2>0
    <3>2. n \in 1..(Len(a) + Len(b)) /\ ~(n <= Len(a)) /\ n - Len(a) = m
      <4>1. PICK x \in Nat, y \in Nat, z \in Nat : x = Len(a) /\ y = Len(b) /\ z = Len(s)
        BY <2>0, <2>1, <2>2
      <4>2. x = i - 1 /\ y = z - i /\ i \in Nat /\ j \in Nat /\ i + 1 <= j /\ j <= z /\ i >= 1
        BY <2>0, <2>1, <2>2, <4>1
      <4>3. n \in 1..(x + y) /\ ~(n <= x) /\ n - x = m
        <5>1. n = j - 1 /\ m = j - i
          BY <3>1
        <5>2. n >= 1
          BY <4>2, <5>1
        <5>3. n <= x + y
          <6>1. x + y = z - 1
            BY <4>2
          <6>2. j - 1 <= z - 1
            BY <4>2
          <6> QED BY <5>1, <6>1, <6>2
        <5>4. ~(n <= x)
          BY <4>2, <5>1
        <5>5. n - x = m
          BY <4>2, <5>1
        <5> QED BY <5>2, <5>3, <5>4, <5>5
      <4> QED BY <4>1, <4>3
    <3>3. (a \o b)[n] = IF n <= Len(a) THEN a[n] ELSE b[n - Len(a)]
      BY <2>1, <2>2, <3>2, ConcatProperties
    <3>4. (a \o b)[n] = b[m]
      BY <2>1, <2>2, <3>2, <3>3
    <3> QED BY <2>2, <3>1, <3>4
  <2>7. ASSUME NEW j \in DOMAIN s, j # i PROVE s[j] \in Range(a \o b)
    <3>1. j \in 1..(i - 1) \/ j \in (i + 1)..Len(s)
      BY <2>0, <2>7
    <3>2. DOMAIN (a \o b) = 1..(Len(s) - 1)
      BY <2>4
    <3>3. CASE j \in 1..(i - 1)
      BY <2>0, <2>5, <3>2, <3>3, SMTT(20) DEF Range
    <3>4. CASE j \in (i + 1)..Len(s)
      <4>1. j - 1 \in 1..(Len(s) - 1)
        BY <2>0, <3>4
      <4> QED BY <2>6, <3>2, <3>4, <4>1 DEF Range
    <3> QED BY <3>1, <3>3, <3>4
  <2> QED BY <2>3, <2>4, <2>7 DEF Range
<1> QED BY <1>1, <1>2, <1>3, <1>4


\* A tick stays in order while events come, deliveries are tried and recorded, and fewer channels
\* are owed the events that are there.
LEMMA OnwardKeepsATick ==
  ASSUME NEW tick \in NoticeTick, NEW em, NEW owed \in [Events -> SUBSET Channels], NEW tried, NEW log,
         NEW em2, NEW owed2 \in [Events -> SUBSET Channels], NEW tried2, NEW log2,
         TickOK(tick, em, owed, tried, log),
         em \subseteq em2, tried \subseteq tried2, log \subseteq log2, \A e \in em : owed2[e] \subseteq owed[e]
  PROVE  TickOK(tick, em2, owed2, tried2, log2)
<1>1. \A i \in DOMAIN tick.todo :
        /\ tick.todo[i] \in em2
        /\ ~tick.quiet /\ tick.at # "rules" => owed2[tick.todo[i]] \subseteq tick.rule
  BY DEF TickOK
<1>2. tick.todo \in Seq(Events)
  BY DEF NoticeTick
<1>3. ASSUME tick.todo # <<>> PROVE Head(tick.todo) \in em
  <2>1. 1 \in DOMAIN tick.todo /\ Head(tick.todo) = tick.todo[1]
    BY <1>2, <1>3
  <2> QED BY <2>1 DEF TickOK
<1>4. \A e, c : Told(e, c, tried, log) => Told(e, c, tried2, log2)
  BY DEF Told
<1>5. tick.at \in {"deliver", "record"} /\ ~tick.quiet =>
        \A c \in owed2[Head(tick.todo)] : c \in tick.left \/ Told(Head(tick.todo), c, tried2, log2)
  BY <1>3, <1>4 DEF TickOK
<1>6. tick.at = "record" => \A c \in tick.to : <<Head(tick.todo), c>> \in tried2
  BY DEF TickOK
<1>7. tick.at \in {"rules", "begin", "deliver", "record"} => tick.todo # <<>>
  BY DEF TickOK
<1> QED BY <1>1, <1>5, <1>6, <1>7 DEF TickOK

\* routeEvents(): a statement of one tick moves that tick only; the others stay in order, and so
\* do the events routed before.
LEMMA OneTickMoves ==
  ASSUME NoticesInv, NEW k \in Routers, NEW t \in NoticeTick,
         nTick' = [nTick EXCEPT ![k] = t], UNCHANGED <<nLive, nRule, nQuiet, nOwed>>,
         nWaiting' \in Seq(Events), nRouted' \subseteq Events, Emitted \subseteq Emitted',
         nTried \subseteq nTried', nTried' \subseteq Events \X Channels,
         nLog \subseteq nLog', nLog' \subseteq nTried',
         TickOK(t, Emitted', nOwed, nTried', nLog'),
         nMuted \subseteq nMuted',
         \A e \in nRouted' \ nRouted, c \in Channels : c \in nOwed[e] /\ e \notin nMuted' => Told(e, c, nTried', nLog')
  PROVE  NoticesInv'
<1> USE DEF NoticesInv
<1>1. nTick' \in [Routers -> NoticeTick]
  OBVIOUS
<1>2. ASSUME NEW j \in Routers PROVE TickOK(nTick'[j], Emitted', nOwed', nTried', nLog')
  <2>1. CASE j = k
    BY <2>1
  <2>2. CASE j # k
    <3>1. nTick'[j] = nTick[j] /\ nTick[j] \in NoticeTick
      BY <2>2
    <3>2. TickOK(nTick[j], Emitted, nOwed, nTried, nLog)
      OBVIOUS
    <3> QED BY <3>1, <3>2, OnwardKeepsATick
  <2> QED BY <2>1, <2>2
<1>3. RoutedWasTold'
  BY DEF RoutedWasTold, Told
<1> QED BY <1>1, <1>2, <1>3

\* notifyRouter.js: every statement of a tick, every event and every edit keeps the ticks in order.
LEMMA NoticesInductive == NoticesInv /\ [NoticesNext]_nVars => NoticesInv'
<1> SUFFICES ASSUME NoticesInv, [NoticesNext]_nVars PROVE NoticesInv'
  OBVIOUS
<1>0. /\ nWaiting \in Seq(Events) /\ nRouted \subseteq Events
      /\ nLive \subseteq Channels /\ nRule \subseteq Channels /\ nQuiet \in BOOLEAN
      /\ nTick \in [Routers -> NoticeTick] /\ nOwed \in [Events -> SUBSET Channels]
      /\ nTried \subseteq Events \X Channels /\ nLog \subseteq nTried
  BY DEF NoticesInv
<1>a. \A k \in Routers : TickOK(nTick[k], Emitted, nOwed, nTried, nLog)
  BY DEF NoticesInv
<1>b. ASSUME NEW k \in Routers
      PROVE  /\ nTick[k] \in NoticeTick /\ nTick[k].todo \in Seq(Events) /\ nTick[k].rule \subseteq Channels
             /\ nTick[k].left \subseteq Channels /\ nTick[k].to \subseteq Channels
  BY <1>0 DEF NoticeTick
<1>c. /\ NoTick \in NoticeTick /\ NoTick.todo = <<>> /\ NoTick.at = "off" /\ NoTick.left = {} /\ NoTick.to = {}
  BY DEF NoTick, NoticeTick
<1>1. ASSUME NEW e \in Events, Emit(e) PROVE NoticesInv'
  <2>1. /\ e \notin Emitted /\ nWaiting' = Append(nWaiting, e)
        /\ nOwed' = [nOwed EXCEPT ![e] = IF nQuiet THEN {} ELSE nRule \cap nLive]
        /\ UNCHANGED <<nRouted, nLive, nRule, nQuiet, nTick, nTried, nLog, nMuted>>
    BY <1>1 DEF Emit, Emitted
  <2>2. nWaiting' \in Seq(Events) /\ Range(nWaiting) \subseteq Range(nWaiting')
    BY <1>0, <2>1, Sequences
  <2>3. Emitted \subseteq Emitted'
    BY <2>1, <2>2 DEF Emitted
  <2>4. /\ nOwed' \in [Events -> SUBSET Channels] /\ \A d \in Events \ {e} : nOwed'[d] = nOwed[d]
        /\ nOwed'[e] \subseteq nLive \cap nRule /\ nQuiet => nOwed'[e] = {}
    BY <1>0, <2>1
  <2>5. \A d \in Emitted : nOwed'[d] \subseteq nOwed[d]
    <3>1. Emitted \subseteq Events
      BY <1>0 DEF Emitted, Range
    <3> QED BY <2>1, <2>4, <3>1
  <2>6. ASSUME NEW k \in Routers PROVE TickOK(nTick[k], Emitted', nOwed', nTried, nLog)
    BY <1>0, <1>a, <1>b, <2>3, <2>4, <2>5, OnwardKeepsATick
  <2>7. RoutedWasTold'
    BY <1>0, <2>1, <2>4 DEF NoticesInv, RoutedWasTold, Emitted
  <2> QED BY <1>0, <2>1, <2>2, <2>4, <2>6, <2>7 DEF NoticesInv
<1>2. ASSUME Edit PROVE NoticesInv'
  <2>1. /\ nOwed' = [e \in Events |-> IF nQuiet' THEN {} ELSE nOwed[e] \cap nRule' \cap nLive']
        /\ UNCHANGED <<nWaiting, nRouted, nTick, nTried, nLog, nMuted>>
    BY <1>2 DEF Edit
  <2>2. nRule' \subseteq Channels /\ nLive' \subseteq Channels /\ nQuiet' \in BOOLEAN
    BY <1>0, <1>2 DEF Edit
  <2>3. /\ nOwed' \in [Events -> SUBSET Channels]
        /\ \A e \in Events : /\ nOwed'[e] \subseteq nOwed[e] /\ nOwed'[e] \subseteq nLive' \cap nRule'
                             /\ nQuiet' => nOwed'[e] = {}
    BY <1>0, <2>1, <2>2
  <2>4. Emitted' = Emitted /\ Emitted \subseteq Events
    BY <1>0, <2>1 DEF Emitted, Range
  <2>5. ASSUME NEW k \in Routers PROVE TickOK(nTick[k], Emitted, nOwed', nTried, nLog)
    BY <1>0, <1>a, <1>b, <2>3, <2>4, OnwardKeepsATick
  <2>6. RoutedWasTold'
    BY <1>0, <2>1, <2>3 DEF NoticesInv, RoutedWasTold
  <2> QED BY <1>0, <2>1, <2>2, <2>3, <2>4, <2>5, <2>6 DEF NoticesInv
<1>d. TickOK(NoTick, Emitted, nOwed, nTried, nLog)
  BY <1>c DEF TickOK
<1>11. ASSUME NEW k \in Routers, BeginTick(k) PROVE NoticesInv'
  <2> DEFINE t == [NoTick EXCEPT !.at = "read", !.quiet = nQuiet]
  <2>1. /\ nTick' = [nTick EXCEPT ![k] = t]
        /\ UNCHANGED <<nWaiting, nRouted, nLive, nRule, nQuiet, nTried, nLog, nOwed, nMuted>>
    BY <1>11 DEF BeginTick
  <2>2. t \in NoticeTick /\ t.todo = <<>> /\ t.at = "read"
    <3>1. t.todo = NoTick.todo /\ t.at = "read"
      BY <1>c DEF NoticeTick
    <3>2. t \in NoticeTick
      BY <1>0, <1>c DEF NoticeTick
    <3> QED BY <1>c, <3>1, <3>2
  <2> HIDE DEF t
  <2>3. TickOK(t, Emitted, nOwed, nTried, nLog)
    BY <2>2 DEF TickOK
  <2>4. Emitted' = Emitted
    BY <2>1 DEF Emitted
  <2> QED BY <1>0, <2>1, <2>2, <2>3, <2>4, OneTickMoves
<1>3. ASSUME NEW k \in Routers, ReadEvents(k) PROVE NoticesInv'
  <2> DEFINE n == IF Len(nWaiting) < RouteBatch THEN Len(nWaiting) ELSE RouteBatch
             s == SubSeq(nWaiting, 1, n)
             t == [nTick[k] EXCEPT !.at = "rules", !.todo = s]
  <2>1. /\ nTick' = [nTick EXCEPT ![k] = IF n = 0 THEN NoTick ELSE t]
        /\ UNCHANGED <<nWaiting, nRouted, nLive, nRule, nQuiet, nTried, nLog, nOwed, nMuted>>
    BY <1>0, <1>3 DEF ReadEvents
  <2>2. n \in 0..Len(nWaiting)
    BY <1>0, NoticesAssumption
  <2>3. /\ s \in Seq(Events) /\ \A i \in DOMAIN s : s[i] \in Range(nWaiting)
        /\ n # 0 => s # <<>>
    <3>1. Len(s) = n
      BY <1>0, <2>2
    <3> QED BY <1>0, <2>2, <3>1, Sequences
  <2> HIDE DEF n, s
  <2>4. t.todo = s /\ t.at = "rules" /\ t \in NoticeTick
    BY <1>b, <2>3 DEF NoticeTick
  <2> HIDE DEF t
  <2>5. n # 0 => TickOK(t, Emitted, nOwed, nTried, nLog)
    BY <2>3, <2>4 DEF TickOK, Emitted
  <2>6. Emitted' = Emitted
    BY <2>1 DEF Emitted
  <2>7. CASE n = 0
    BY <1>0, <1>c, <1>d, <2>1, <2>6, <2>7, OneTickMoves
  <2>8. CASE n # 0
    BY <1>0, <2>1, <2>4, <2>5, <2>6, <2>8, OneTickMoves
  <2> QED BY <2>7, <2>8
<1>12. ASSUME NEW k \in Routers, ReadRules(k) PROVE NoticesInv'
  <2> DEFINE t == [nTick[k] EXCEPT !.at = "begin", !.rule = IF nTick[k].quiet THEN {} ELSE nRule]
  <2>1. /\ nTick' = [nTick EXCEPT ![k] = t] /\ nTick[k].at = "rules"
        /\ UNCHANGED <<nWaiting, nRouted, nLive, nRule, nQuiet, nTried, nLog, nOwed, nMuted>>
    BY <1>0, <1>12 DEF ReadRules, NoticeTick
  <2>2. (IF nTick[k].quiet THEN {} ELSE nRule) \subseteq Channels
    BY <1>0
  <2>3. /\ t \in NoticeTick /\ t.todo = nTick[k].todo /\ t.quiet = nTick[k].quiet /\ t.at = "begin"
        /\ ~t.quiet => t.rule = nRule
    BY <1>b, <2>2 DEF NoticeTick
  <2> HIDE DEF t
  <2>4. /\ \A i \in DOMAIN nTick[k].todo : nTick[k].todo[i] \in Emitted
        /\ nTick[k].todo # <<>> /\ \A e \in Events : nOwed[e] \subseteq nRule
        /\ Emitted \subseteq Events
    BY <1>0, <1>a, <2>1 DEF TickOK, NoticesInv, Emitted, Range
  <2>5. TickOK(t, Emitted, nOwed, nTried, nLog)
    BY <2>3, <2>4 DEF TickOK
  <2>6. Emitted' = Emitted
    BY <2>1 DEF Emitted
  <2> QED BY <1>0, <2>1, <2>3, <2>5, <2>6, OneTickMoves
<1>4. ASSUME NEW k \in Routers, BeginEvent(k) PROVE NoticesInv'
  <2> DEFINE t == [nTick[k] EXCEPT !.at = "deliver", !.left = For(k)]
  <2>1. /\ nTick' = [nTick EXCEPT ![k] = t] /\ nTick[k].todo # <<>> /\ nTick[k].at = "begin"
        /\ UNCHANGED <<nWaiting, nRouted, nLive, nRule, nQuiet, nTried, nLog, nOwed, nMuted>>
    BY <1>0, <1>4, <1>a DEF BeginEvent, NoticeTick, TickOK
  <2>2. /\ t \in NoticeTick /\ t.todo = nTick[k].todo /\ t.rule = nTick[k].rule /\ t.quiet = nTick[k].quiet
        /\ t.at = "deliver" /\ t.left = nTick[k].rule
    BY <1>b DEF NoticeTick, For
  <2> HIDE DEF t
  <2>3. 1 \in DOMAIN t.todo /\ Head(t.todo) = t.todo[1]
    BY <1>b, <2>1, <2>2, Sequences
  <2>4. TickOK(t, Emitted, nOwed, nTried, nLog)
    BY <1>a, <2>1, <2>2, <2>3 DEF TickOK
  <2>5. Emitted' = Emitted
    BY <2>1 DEF Emitted
  <2> QED BY <1>0, <2>1, <2>2, <2>4, <2>5, OneTickMoves
<1>5. ASSUME NEW k \in Routers, NEW c \in Channels, Skip(k, c) PROVE NoticesInv'
  <2> DEFINE t == [nTick[k] EXCEPT !.left = @ \ {c}]
             e == Head(nTick[k].todo)
  <2>1. /\ nTick' = [nTick EXCEPT ![k] = t] /\ nTick[k].at = "deliver"
        /\ c \in nLive => ToldLately(e, c)
        /\ UNCHANGED <<nWaiting, nRouted, nLive, nRule, nQuiet, nTried, nLog, nOwed, nMuted>>
    BY <1>5 DEF Skip
  <2>2. /\ t \in NoticeTick /\ t.todo = nTick[k].todo /\ t.rule = nTick[k].rule /\ t.quiet = nTick[k].quiet
        /\ t.at = "deliver" /\ t.left = nTick[k].left \ {c}
    BY <1>b, <2>1 DEF NoticeTick
  <2> HIDE DEF t
  <2>3. nTick[k].todo # <<>>
    BY <1>a, <2>1 DEF TickOK
  <2>4. e \in Events
    BY <1>b, <2>3, Sequences
  <2>5. c \in nOwed[e] => Told(e, c, nTried, nLog)
    BY <1>0, <2>1, <2>4 DEF NoticesInv, ToldLately, Told
  <2>6. TickOK(t, Emitted, nOwed, nTried, nLog)
    BY <1>a, <2>1, <2>2, <2>3, <2>5 DEF TickOK
  <2>7. Emitted' = Emitted
    BY <2>1 DEF Emitted
  <2> QED BY <1>0, <2>1, <2>2, <2>6, <2>7, OneTickMoves
<1>6. ASSUME NEW k \in Routers, NEW c \in Channels, Deliver(k, c) PROVE NoticesInv'
  <2> DEFINE e == Head(nTick[k].todo)
  <2>1. PICK ok \in BOOLEAN :
          nTick' = [nTick EXCEPT ![k].left = @ \ {c}, ![k].to = IF ok THEN {c} ELSE {}, ![k].at = "record"]
    BY <1>6 DEF Deliver
  <2> DEFINE t == [nTick[k] EXCEPT !.left = @ \ {c}, !.to = IF ok THEN {c} ELSE {}, !.at = "record"]
  <2>2. /\ nTick[k].at = "deliver" /\ nTried' = nTried \cup {<<e, c>>}
        /\ UNCHANGED <<nWaiting, nRouted, nLive, nRule, nQuiet, nLog, nOwed, nMuted>>
    BY <1>6 DEF Deliver
  <2>3. /\ t \in NoticeTick /\ t.todo = nTick[k].todo /\ t.rule = nTick[k].rule /\ t.quiet = nTick[k].quiet
        /\ t.at = "record" /\ t.left = nTick[k].left \ {c} /\ t.to \subseteq {c}
    BY <1>b, <2>2 DEF NoticeTick
  <2>4. nTick' = [nTick EXCEPT ![k] = t]
    BY <1>0, <2>1 DEF NoticeTick
  <2> HIDE DEF t
  <2>5. nTick[k].todo # <<>>
    BY <1>a, <2>2 DEF TickOK
  <2>6. e \in Events
    BY <1>b, <2>5, Sequences
  <2>7. TickOK(nTick[k], Emitted, nOwed, nTried', nLog)
    BY <1>0, <1>a, <1>b, <2>2, OnwardKeepsATick
  <2>8. TickOK(t, Emitted, nOwed, nTried', nLog)
    BY <2>2, <2>3, <2>5, <2>7 DEF TickOK, Told
  <2>9. Emitted' = Emitted /\ nTried' \subseteq Events \X Channels
    BY <1>0, <2>2, <2>6 DEF Emitted
  <2> QED BY <1>0, <2>2, <2>3, <2>4, <2>8, <2>9, OneTickMoves
<1>7. ASSUME NEW k \in Routers, Record(k) PROVE NoticesInv'
  <2> DEFINE e == Head(nTick[k].todo)
             t == [nTick[k] EXCEPT !.at = "deliver", !.to = {}]
  <2>1. /\ nTick' = [nTick EXCEPT ![k] = t] /\ nTick[k].at = "record"
        /\ nLog' = nLog \cup {<<e, c>> : c \in nTick[k].to}
        /\ UNCHANGED <<nWaiting, nRouted, nLive, nRule, nQuiet, nTried, nOwed, nMuted>>
    BY <1>0, <1>7 DEF Record, ToldNow, NoticeTick
  <2>2. /\ t \in NoticeTick /\ t.todo = nTick[k].todo /\ t.rule = nTick[k].rule /\ t.quiet = nTick[k].quiet
        /\ t.at = "deliver" /\ t.left = nTick[k].left
    BY <1>b DEF NoticeTick
  <2> HIDE DEF t
  <2>3. nLog' \subseteq nTried
    BY <1>0, <1>a, <2>1 DEF TickOK
  <2>4. TickOK(nTick[k], Emitted, nOwed, nTried, nLog')
    BY <1>0, <1>a, <1>b, <2>1, OnwardKeepsATick
  <2>5. TickOK(t, Emitted, nOwed, nTried, nLog')
    BY <2>1, <2>2, <2>4 DEF TickOK
  <2>6. Emitted' = Emitted
    BY <2>1 DEF Emitted
  <2> QED BY <1>0, <2>1, <2>2, <2>3, <2>5, <2>6, OneTickMoves
<1>8. ASSUME NEW k \in Routers, MarkRouted(k) PROVE NoticesInv'
  <2> DEFINE e == Head(nTick[k].todo)
             rest == [nTick[k] EXCEPT !.at = "begin", !.todo = Tail(@)]
             t == IF Len(nTick[k].todo) = 1 THEN NoTick ELSE rest
  <2>1. /\ nTick[k].at = "deliver" /\ nTick[k].left = {} /\ nRouted' = nRouted \cup {e}
        /\ nTick' = [nTick EXCEPT ![k] = t] /\ UNCHANGED <<nLive, nRule, nQuiet, nTried, nLog, nOwed>>
        /\ nMuted' = (IF nTick[k].quiet THEN nMuted \cup {e} ELSE nMuted)
    <3>3. nTick' = [nTick EXCEPT ![k] = t]
      BY <1>8 DEF MarkRouted
    <3> HIDE DEF t, rest
    <3> QED BY <1>8, <3>3 DEF MarkRouted, AllTried
  <2>2. nTick[k].todo # <<>>
    BY <1>a, <2>1 DEF TickOK
  <2>3. /\ e \in Events /\ Tail(nTick[k].todo) \in Seq(Events)
        /\ \A i \in DOMAIN Tail(nTick[k].todo) : /\ i + 1 \in DOMAIN nTick[k].todo
                                                 /\ Tail(nTick[k].todo)[i] = nTick[k].todo[i + 1]
    BY <1>b, <2>2, Sequences
  <2>4. nWaiting' \in Seq(Events) /\ Range(nWaiting) \subseteq Range(nWaiting') \cup {e}
    <3>1. CASE nWaiting' = nWaiting
      BY <1>0, <3>1
    <3>2. CASE \E i \in DOMAIN nWaiting : nWaiting[i] = e /\ nWaiting' = RemoveAt(nWaiting, i)
      BY <1>0, <3>2, Sequences
    <3> QED BY <1>8, <3>1, <3>2 DEF MarkRouted
  <2>5. Emitted \subseteq Emitted' /\ nRouted' \subseteq Events
    BY <1>0, <2>1, <2>3, <2>4 DEF Emitted
  <2>6. Len(nTick[k].todo) # 1 => Tail(nTick[k].todo) # <<>>
    <3>1. PICK s \in Seq(Events) : s = nTick[k].todo
      BY <1>b
    <3>2. s # <<>> /\ Len(s) # 1 => Len(Tail(s)) # 0
      BY SMTT(30)
    <3> QED BY <2>2, <3>1, <3>2
  <2>7. /\ rest \in NoticeTick /\ rest.todo = Tail(nTick[k].todo) /\ rest.rule = nTick[k].rule
        /\ rest.at = "begin" /\ rest.quiet = nTick[k].quiet
    BY <1>b, <2>3 DEF NoticeTick
  <2> HIDE DEF rest
  <2>8. t \in NoticeTick
    BY <1>c, <2>7
  <2>9. TickOK(t, Emitted, nOwed, nTried, nLog)
    <3>1. CASE Len(nTick[k].todo) = 1
      BY <1>d, <3>1
    <3>2. CASE Len(nTick[k].todo) # 1
      <4>1. ASSUME NEW i \in DOMAIN rest.todo
            PROVE  rest.todo[i] \in Emitted /\ (~rest.quiet => nOwed[rest.todo[i]] \subseteq rest.rule)
        BY <1>a, <2>1, <2>3, <2>7 DEF TickOK
      <4>2. TickOK(rest, Emitted, nOwed, nTried, nLog)
        BY <2>6, <2>7, <3>2, <4>1 DEF TickOK
      <4> QED BY <3>2, <4>2
    <3> QED BY <3>1, <3>2
  <2> HIDE DEF t
  <2>10. TickOK(t, Emitted', nOwed, nTried, nLog)
    BY <1>0, <2>5, <2>8, <2>9, OnwardKeepsATick
  <2>11. nTick[k].quiet \/ \A c \in nOwed[e] : Told(e, c, nTried, nLog)
    BY <1>a, <2>1 DEF TickOK
  <2> HIDE DEF e
  <2>12. nMuted \subseteq nMuted' /\ nRouted' \ nRouted \subseteq {e}
    BY <2>1
  <2>13. ASSUME NEW d \in nRouted' \ nRouted, NEW c \in Channels, c \in nOwed[d], d \notin nMuted'
         PROVE  Told(d, c, nTried, nLog)
    BY <2>1, <2>11, <2>12, <2>13
  <2> QED BY <1>0, <2>1, <2>4, <2>5, <2>8, <2>10, <2>12, <2>13, OneTickMoves
<1>9. ASSUME NEW k \in Routers, RouterDies(k) PROVE NoticesInv'
  <2>1. nTick' = [nTick EXCEPT ![k] = NoTick]
        /\ UNCHANGED <<nWaiting, nRouted, nLive, nRule, nQuiet, nTried, nLog, nOwed, nMuted>>
    BY <1>9 DEF RouterDies
  <2>2. Emitted' = Emitted
    BY <2>1 DEF Emitted
  <2> QED BY <1>0, <1>c, <1>d, <2>1, <2>2, OneTickMoves
<1>10. CASE UNCHANGED nVars
  BY <1>10 DEF nVars, NoticesInv, RoutedWasTold, Emitted
<1> QED BY <1>1, <1>2, <1>3, <1>4, <1>5, <1>6, <1>7, <1>8, <1>9, <1>10, <1>11, <1>12 DEF NoticesNext

\* notifyRouter.js: for any events, channels and rules, and any number of ticks that overlap or
\* die, an event marked routed was tried on, or told to, each channel the rule has named since;
\* only a tick that began in quiet hours passes one over.
THEOREM RoutedEventsWereTold == NoticesSpec => []RoutedWasTold
<1>1. NoticesInit => NoticesInv
  <2> SUFFICES ASSUME NoticesInit PROVE NoticesInv
    OBVIOUS
  <2>1. NoTick \in NoticeTick /\ TickOK(NoTick, Emitted, nOwed, nTried, nLog)
    BY DEF NoTick, NoticeTick, TickOK
  <2>2. \A k \in Routers : nTick[k] = NoTick
    BY DEF NoticesInit
  <2>3. nTick \in [Routers -> NoticeTick]
    BY <2>1 DEF NoticesInit
  <2>4. nRouted = {} /\ nWaiting \in Seq(Events)
    BY DEF NoticesInit
  <2> QED BY <2>1, <2>2, <2>3, <2>4 DEF NoticesInit, NoticesInv, RoutedWasTold
<1>2. NoticesInv => RoutedWasTold
  BY DEF NoticesInv
<1> QED BY <1>1, <1>2, NoticesInductive, PTL DEF NoticesSpec

(***************************************************************************)
(* Fleet: legacy.js                                                        *)
(***************************************************************************)

\* Rows of the table, whatever is posted, reported or lost.
FleetRows == vRow \in [Vms -> [st : VmStatuses \cup {"absent"}, due : BOOLEAN, old : BOOLEAN]]

\* A tick posts machines only, and every statement leaves rows.
FleetInv == FleetRows /\ vTick \in [VmTicks -> [todo : SUBSET Vms, posted : Vms \cup {NoVm}]]

\* legacy.js: no statement makes a row that is no row, and none makes an old machine young.
LEMMA FleetRowsKept ==
  ASSUME FleetInv, [FleetNext]_vVars
  PROVE  FleetInv' /\ \A v \in Vms : vRow[v].old => vRow'[v].old
<1> USE DEF FleetInv, FleetRows, VmStatuses, Alive
<1>1. ASSUME NEW v \in Vms, Provision(v)
      PROVE  FleetInv' /\ \A u \in Vms : vRow[u].old => vRow'[u].old
  BY <1>1 DEF Provision
<1>2. ASSUME NEW v \in Vms, ReportVm(v)
      PROVE  FleetInv' /\ \A u \in Vms : vRow[u].old => vRow'[u].old
  <2>1. PICK status \in VmStatuses : vRow' = [vRow EXCEPT ![v].st = status, ![v].due = @ /\ status # "live"]
    BY <1>2 DEF ReportVm
  <2>2. PICK r : r = vRow[v]
    OBVIOUS
  <2>3. r \in [st : VmStatuses \cup {"absent"}, due : BOOLEAN, old : BOOLEAN]
    BY <2>2
  <2>4. vRow' = [vRow EXCEPT ![v] = [r EXCEPT !.st = status, !.due = @ /\ status # "live"]]
    BY <2>1, <2>2
  <2>5. PICK q : q = [r EXCEPT !.st = status, !.due = @ /\ status # "live"]
    OBVIOUS
  <2>6. q = [st |-> status, due |-> r.due /\ status # "live", old |-> r.old]
    BY <2>3, <2>5
  <2>7. q \in [st : VmStatuses \cup {"absent"}, due : BOOLEAN, old : BOOLEAN] /\ q.old = r.old
    BY <2>3, <2>6
  <2>8. vRow' = [vRow EXCEPT ![v] = q]
    BY <2>4, <2>5
  <2> QED BY <1>2, <2>2, <2>7, <2>8 DEF ReportVm
<1>3. ASSUME NEW v \in Vms, DeadlinePasses(v) \/ LifetimeEnds(v)
      PROVE  FleetInv' /\ \A u \in Vms : vRow[u].old => vRow'[u].old
  <2>1. UNCHANGED vTick
    BY <1>3 DEF DeadlinePasses, LifetimeEnds
  <2>2. CASE DeadlinePasses(v)
    <3>1. vRow' = [vRow EXCEPT ![v].due = TRUE]
      BY <2>2 DEF DeadlinePasses
    <3> QED BY <2>1, <3>1
  <2>3. CASE LifetimeEnds(v)
    <3>1. vRow' = [vRow EXCEPT ![v].old = TRUE]
      BY <2>3 DEF LifetimeEnds
    <3> QED BY <2>1, <3>1
  <2> QED BY <1>3, <2>2, <2>3
<1>4. ASSUME NEW k \in VmTicks, ReadRequested(k)
      PROVE  FleetInv' /\ UNCHANGED vRow
  <2>1. PICK V \in SUBSET Vms : vTick' = [vTick EXCEPT ![k].todo = V]
    BY <1>4 DEF ReadRequested
  <2> QED BY <1>4, <2>1 DEF ReadRequested
<1>5. ASSUME NEW k \in VmTicks, NEW v \in Vms, PostVm(k, v)
      PROVE  FleetInv' /\ UNCHANGED vRow
  <2>1. \/ \E answered \in BOOLEAN :
             vTick' = [vTick EXCEPT ![k] = [todo |-> @.todo \ {v}, posted |-> IF answered THEN v ELSE NoVm]]
        \/ vTick' = [vTick EXCEPT ![k].todo = @ \ {v}]
    BY <1>5 DEF PostVm
  <2> QED BY <1>5, <2>1 DEF PostVm
<1>6. ASSUME NEW k \in VmTicks, MarkVm(k)
      PROVE  FleetInv' /\ \A u \in Vms : vRow[u].old => vRow'[u].old
  <2>1. PICK v \in Vms : v = vTick[k].posted
    BY <1>6 DEF MarkVm
  <2> QED BY <1>6, <2>1 DEF MarkVm
<1>7. ASSUME NEW k \in VmTicks, VmTickDies(k)
      PROVE  FleetInv' /\ UNCHANGED vRow
  BY <1>7 DEF VmTickDies, VmTickIdle
<1>8. CASE ExpireVms
  BY <1>8 DEF ExpireVms
<1>9. CASE UNCHANGED vVars
  BY <1>9 DEF vVars
<1> QED BY <1>1, <1>2, <1>3, <1>4, <1>5, <1>6, <1>7, <1>8, <1>9 DEF FleetNext

(* legacy.js, expireStaleVms(): whatever the machines report, or never report, and whatever becomes of the
   ticks, no machine stays requested, provisioning or live for ever. *)
THEOREM MachinesSettle == FleetSpec /\ []FleetGuards => VmsSettle
<1> SUFFICES ASSUME NEW u \in Vms
             PROVE  FleetSpec /\ []FleetGuards => VmSettles(u)
  BY DEF VmsSettle
<1> DEFINE Up == vRow[u].st \in Alive
           Old == vRow[u].old
<1>1. FleetInit => FleetInv
  BY DEF FleetInit, FleetInv, FleetRows, NoRequest, VRow, VmTickIdle
<1>2. FleetInv /\ [FleetNext]_vVars => FleetInv' /\ (Old => Old')
  BY FleetRowsKept
<1>3. FleetInv /\ <<LifetimeEnds(u)>>_vVars => Old'
  BY DEF FleetInv, FleetRows, LifetimeEnds
<1>4. FleetInv /\ Old /\ <<ExpireVms>>_vVars => ~Up'
  BY DEF FleetInv, FleetRows, ExpireVms, Expired, Alive
<1>5. FleetInv /\ FleetGuards /\ Up /\ ~Old => MayAge(u)
  BY DEF FleetGuards, NoRequest, VRow, Alive
<1>6. FleetInv /\ FleetGuards /\ Up /\ Old => ENABLED <<ExpireVms>>_vVars
  BY DEF FleetGuards, Expired
<1>7. MachinesAge => MachineAges(u)
  BY DEF MachinesAge
<1>8. (Up <=> vRow[u].st \in Alive) /\ (~Up <=> vRow[u].st \notin Alive)
  OBVIOUS
<1> HIDE DEF Up, Old
<1>9. FleetFairness => MachineAges(u) /\ WF_vVars(ExpireVms)
  BY <1>7, PTL DEF FleetFairness
<1>10. MachineAges(u) => WF_vVars(LifetimeEnds(u))
  BY PTL DEF MachineAges
<1>11. FleetInv /\ FleetGuards /\ Up /\ ~Old => ENABLED <<LifetimeEnds(u)>>_vVars
  BY <1>5 DEF MayAge
<1>12. FleetSpec /\ []FleetGuards => (Up ~> ~Up)
  BY <1>1, <1>2, <1>3, <1>4, <1>6, <1>9, <1>10, <1>11, PTL DEF FleetSpec
<1> QED BY <1>8, <1>12, PTL DEF VmSettles

(***************************************************************************)
(* WorkerTasks: tasks.js                                                   *)
(***************************************************************************)

TaskRows == [st : {"absent", "queued", "done", "failed"} \cup AtWork, begun : BOOLEAN, old : BOOLEAN, cut : BOOLEAN]
TasksInv ==
  /\ tRow \in [Tasks -> TaskRows]
  /\ tTick \in [Ticks -> [todo : SUBSET Tasks, posted : Tasks \cup {Nothing}]]
  /\ tAsk \in [Owners -> {NoAsk} \cup [op : {"cancel", "retry"}, on : Tasks]]

\* A row that is not left as it is becomes one that is not at work, or keeps its age and is dispatched, or is
\* marked old, or has reported that it runs and is young again.
RowStep(r, q) ==
  \/ q = r
  \/ q.st \notin AtWork
  \/ q.st = "dispatched"
  \/ q.st = r.st /\ q.old
  \/ q.st = "running" /\ ~q.old

\* tasks.js: what a statement makes of the rows.
LEMMA TaskRowsKept ==
  ASSUME TasksInv, [TasksNext]_tVars
  PROVE  TasksInv' /\ \A t \in Tasks : RowStep(tRow[t], tRow'[t])
<1> DEFINE Fine == tRow' \in [Tasks -> TaskRows] /\ \A t \in Tasks : RowStep(tRow[t], tRow'[t])
<1>0. /\ tRow \in [Tasks -> TaskRows]
      /\ tTick \in [Ticks -> [todo : SUBSET Tasks, posted : Tasks \cup {Nothing}]]
      /\ tAsk \in [Owners -> {NoAsk} \cup [op : {"cancel", "retry"}, on : Tasks]]
  BY DEF TasksInv
<1>1. ASSUME NEW t \in Tasks, NEW q \in TaskRows, RowStep(tRow[t], q), SetRow(t, q)
      PROVE  Fine
  BY <1>0, <1>1 DEF SetRow, RowStep
<1>2. ASSUME UNCHANGED tRow
      PROVE  Fine
  BY <1>0, <1>2 DEF RowStep
<1>3. Absent \in TaskRows /\ Queued \in TaskRows /\ Absent.st \notin AtWork /\ Queued.st \notin AtWork
  BY DEF Absent, Queued, Row, TaskRows, AtWork
<1>4. ASSUME NEW t \in Tasks, Create(t) \/ Mirror(t)
      PROVE  TasksInv' /\ Fine
  <2>1. SetRow(t, Queued) /\ UNCHANGED <<tTick, tAsk>>
    BY <1>4 DEF Create, Mirror, Enqueue
  <2>2. Fine
    BY <1>1, <1>3, <2>1 DEF RowStep
  <2> QED BY <1>0, <2>1, <2>2 DEF TasksInv
<1>5. ASSUME NEW t \in Tasks, CloseIssue(t) \/ RunNeverStarts(t)
      PROVE  TasksInv' /\ Fine
  <2>1. UNCHANGED <<tRow, tTick, tAsk>>
    BY <1>5 DEF CloseIssue, RunNeverStarts
  <2> QED BY <1>0, <1>2, <2>1 DEF TasksInv
<1>6. ASSUME NEW t \in Tasks, Age(t)
      PROVE  TasksInv' /\ Fine
  <2>1. PICK q : q = [tRow[t] EXCEPT !.old = TRUE]
    OBVIOUS
  <2>2. q \in TaskRows /\ RowStep(tRow[t], q)
    BY <1>0, <2>1 DEF TaskRows, RowStep
  <2>3. SetRow(t, q) /\ UNCHANGED <<tTick, tAsk>>
    BY <1>6, <2>1 DEF Age, SetRow
  <2> QED BY <1>0, <1>1, <2>2, <2>3 DEF TasksInv
<1>7. ASSUME NEW t \in Tasks, RunStarts(t) \/ RunEnds(t)
      PROVE  TasksInv' /\ Fine
  <2>1. ASSUME NEW status \in {"running", "done", "failed"}
        PROVE  Reported(t, status) \in TaskRows /\ RowStep(tRow[t], Reported(t, status))
    <3>1. PICK r \in TaskRows : r = tRow[t]
      BY <1>0
    <3>2. CASE r = Absent
      BY <1>3, <3>1, <3>2 DEF Reported, RowStep
    <3>3. CASE r # Absent /\ status = "running"
      BY <3>1, <3>3 DEF Reported, RowStep, TaskRows, AtWork
    <3>4. CASE r # Absent /\ status # "running"
      BY <3>1, <3>4 DEF Reported, RowStep, TaskRows, AtWork
    <3> QED BY <3>2, <3>3, <3>4
  <2>2. /\ UNCHANGED <<tTick, tAsk>>
        /\ UNCHANGED tRow \/ \E status \in {"running", "done", "failed"} : SetRow(t, Reported(t, status))
    BY <1>7 DEF RunStarts, RunEnds
  <2>3. Fine
    BY <1>1, <1>2, <2>1, <2>2
  <2> QED BY <1>0, <2>2, <2>3 DEF TasksInv
<1>8. ASSUME NEW t \in Tasks, Prune(t)
      PROVE  TasksInv' /\ Fine
  <2>1. SetRow(t, Absent) /\ UNCHANGED <<tTick, tAsk>>
    BY <1>8 DEF Prune
  <2>2. Fine
    BY <1>1, <1>3, <2>1 DEF RowStep
  <2> QED BY <1>0, <2>1, <2>2 DEF TasksInv
<1>9. ASSUME NEW k \in Ticks, Select(k) \/ TickDies(k) \/ \E t \in Tasks : Post(k, t)
      PROVE  TasksInv' /\ Fine
  <2>1. UNCHANGED <<tRow, tAsk>>
    BY <1>9 DEF Select, TickDies, Post
  <2>2. \/ \E T \in SUBSET Tasks : tTick' = [tTick EXCEPT ![k].todo = T]
        \/ tTick' = [tTick EXCEPT ![k] = TickIdle]
        \/ \E t \in Tasks : tTick' = [tTick EXCEPT ![k].posted = t]
    <3>1. CASE Select(k)
      BY <3>1 DEF Select
    <3>2. CASE TickDies(k)
      BY <3>2 DEF TickDies
    <3>3. ASSUME NEW t \in Tasks, Post(k, t)
          PROVE  \/ \E T \in SUBSET Tasks : tTick' = [tTick EXCEPT ![k].todo = T]
                 \/ tTick' = [tTick EXCEPT ![k].posted = t]
      <4>1. tTick[k].todo \ {t} \in SUBSET Tasks
        BY <1>0
      <4> QED BY <3>3, <4>1 DEF Post
    <3> QED BY <1>9, <3>1, <3>2, <3>3
  <2>3. tTick' \in [Ticks -> [todo : SUBSET Tasks, posted : Tasks \cup {Nothing}]]
    BY <1>0, <2>2 DEF TickIdle
  <2> QED BY <1>0, <1>2, <2>1, <2>3 DEF TasksInv
<1>10. ASSUME NEW k \in Ticks, Mark(k)
       PROVE  TasksInv' /\ Fine
  <2>1. PICK t \in Tasks : t = tTick[k].posted
    BY <1>0, <1>10 DEF Mark
  <2>2. PICK q : q = IF tRow[t] = Absent THEN Absent
                     ELSE [tRow[t] EXCEPT !.st = "dispatched", !.old = @ /\ tRow[t].begun]
    OBVIOUS
  <2>3. /\ SetRow(t, q) /\ UNCHANGED tAsk
        /\ tTick' = [tTick EXCEPT ![k] = [todo |-> @.todo \ {t}, posted |-> Nothing]]
    BY <1>10, <2>1, <2>2 DEF Mark
  <2>4. q \in TaskRows /\ (q.st = "dispatched" \/ q.st \notin AtWork)
    <3>1. PICK r \in TaskRows : r = tRow[t]
      BY <1>0
    <3>2. PICK old \in BOOLEAN : old = (r.old /\ r.begun)
      BY <3>1 DEF TaskRows
    <3>3. CASE r = Absent
      BY <1>3, <2>2, <3>1, <3>3
    <3>4. CASE r # Absent
      <4>1. q = [r EXCEPT !.st = "dispatched", !.old = old]
        BY <2>2, <3>1, <3>2, <3>4
      <4> QED BY <3>1, <3>2, <4>1 DEF TaskRows, AtWork
    <3> QED BY <3>3, <3>4
  <2>5. Fine
    BY <1>1, <2>3, <2>4 DEF RowStep
  <2>6. tTick' \in [Ticks -> [todo : SUBSET Tasks, posted : Tasks \cup {Nothing}]]
    BY <1>0, <2>3
  <2> QED BY <1>0, <2>3, <2>5, <2>6 DEF TasksInv
<1>11. ASSUME NEW status \in AtWork, Reap(status)
       PROVE  TasksInv' /\ Fine
  <2>1. ASSUME NEW t \in Tasks
        PROVE  tRow'[t] \in TaskRows /\ RowStep(tRow[t], tRow'[t])
    <3>1. PICK r \in TaskRows : r = tRow[t]
      BY <1>0
    <3>2. tRow'[t] = r \/ tRow'[t] = [r EXCEPT !.st = "failed", !.cut = FALSE]
      BY <1>11, <3>1 DEF Reap
    <3> QED BY <3>1, <3>2 DEF TaskRows, RowStep, AtWork
  <2>2. tRow' = [t \in Tasks |-> tRow'[t]] /\ UNCHANGED <<tTick, tAsk>>
    BY <1>11 DEF Reap
  <2>3. Fine
    BY <2>1, <2>2
  <2> QED BY <1>0, <2>2, <2>3 DEF TasksInv
<1>12. ASSUME NEW o \in Owners, NEW op \in {"cancel", "retry"}, NEW t \in Tasks, Ask(o, op, t)
       PROVE  TasksInv' /\ Fine
  <2>1. UNCHANGED <<tRow, tTick>> /\ tAsk' = [tAsk EXCEPT ![o] = [op |-> op, on |-> t]]
    BY <1>12 DEF Ask
  <2> QED BY <1>0, <1>2, <2>1 DEF TasksInv
<1>13. ASSUME NEW o \in Owners, Cancel(o) \/ Retry(o)
       PROVE  TasksInv' /\ Fine
  <2>1. tAsk[o] # NoAsk /\ tAsk' = [tAsk EXCEPT ![o] = NoAsk] /\ UNCHANGED tTick
    BY <1>13 DEF Cancel, Retry, NoAsk, Nothing
  <2>2. PICK t \in Tasks : t = tAsk[o].on
    BY <1>0, <2>1
  <2>3. PICK q : q = IF tRow[t] = Absent THEN Absent ELSE [tRow[t] EXCEPT !.st = "failed", !.cut = TRUE]
    OBVIOUS
  <2>4. UNCHANGED tRow \/ SetRow(t, q) \/ SetRow(t, Queued)
    BY <1>13, <2>2, <2>3 DEF Cancel, Retry, Enqueue
  <2>5. q \in TaskRows /\ q.st \notin AtWork
    <3>1. PICK r \in TaskRows : r = tRow[t]
      BY <1>0
    <3> QED BY <1>3, <2>3, <3>1 DEF TaskRows, AtWork
  <2>6. Fine
    BY <1>1, <1>2, <1>3, <2>4, <2>5 DEF RowStep
  <2> QED BY <1>0, <2>1, <2>6 DEF TasksInv
<1>14. CASE UNCHANGED tVars
  <2>1. UNCHANGED <<tRow, tTick, tAsk>>
    BY <1>14 DEF tVars
  <2> QED BY <1>0, <1>2, <2>1 DEF TasksInv
<1> QED BY <1>4, <1>5, <1>6, <1>7, <1>8, <1>9, <1>10, <1>11, <1>12, <1>13, <1>14 DEF TasksNext

(* tasks.js, reapStuckTasks(): a task whose clock is set back only so often does not stay dispatched or running,
   whichever of its dispatch, its run, its reports and the ticks are lost. *)
THEOREM SentTasksSettle == TasksSpec /\ []TasksGuards /\ ClocksRun => TasksSettle
<1> SUFFICES ASSUME NEW u \in Tasks
             PROVE  TasksSpec /\ []TasksGuards /\ ClocksRun => Settles(u)
  BY DEF TasksSettle
<1> DEFINE Sent == tRow[u].st = "dispatched"
           Runs == tRow[u].st = "running"
           Old == tRow[u].old
<1>1. TasksInit => TasksInv
  BY DEF TasksInit, TasksInv, Absent, Row, TaskRows, TickIdle
<1>2. TasksInv /\ [TasksNext]_tVars => TasksInv' /\ (Sent /\ Old /\ Old' => ~Runs')
  BY TaskRowsKept DEF RowStep, AtWork
<1>3. TasksInv /\ <<Age(u)>>_tVars => Old'
  BY DEF TasksInv, TaskRows, Age
<1>4. TasksInv /\ Sent /\ Old /\ <<Reap("dispatched")>>_tVars => ~Sent' /\ ~Runs'
  BY DEF TasksInv, TaskRows, Reap, Stuck
<1>5. TasksInv /\ Runs /\ Old /\ <<Reap("running")>>_tVars => ~Sent' /\ ~Runs'
  BY DEF TasksInv, TaskRows, Reap, Stuck
<1>6. TasksInv /\ TasksGuards /\ (Sent \/ Runs) /\ ~Old => MayAgeTask(u)
  BY DEF TasksGuards, AtWork
<1>7. TasksInv /\ TasksGuards /\ Sent /\ Old => ENABLED <<Reap("dispatched")>>_tVars
  BY DEF TasksGuards, Stuck
<1>8. TasksInv /\ TasksGuards /\ Runs /\ Old => ENABLED <<Reap("running")>>_tVars
  BY DEF TasksGuards, Stuck
<1>9. TasksAge => TaskAges(u)
  BY DEF TasksAge
<1>10. TaskAges(u) => WF_tVars(Age(u))
  BY PTL DEF TaskAges
<1>11. (Sent \/ Runs <=> tRow[u].st \in AtWork) /\ (~Sent /\ ~Runs <=> tRow[u].st \notin AtWork)
  BY DEF AtWork
<1>12. [tRow[u].old => tRow'[u].old]_tVars => (Old => Old')
  BY DEF tVars
<1> HIDE DEF Sent, Runs, Old
<1>13. TasksSpec /\ []TasksGuards /\ ClockRuns(u) => ((Sent \/ Runs) ~> (~Sent /\ ~Runs))
  BY <1>1, <1>2, <1>3, <1>4, <1>5, <1>6, <1>7, <1>8, <1>9, <1>10, <1>12,
     PTL DEF TasksSpec, TasksFairness, ClockRuns, MayAgeTask
<1>14. ClocksRun => ClockRuns(u)
  BY DEF ClocksRun
<1> QED BY <1>11, <1>13, <1>14, PTL DEF Settles

(***************************************************************************)
(* CallbackToken: callback.js                                              *)
(***************************************************************************)

TokenJob == [at : {"off", "put", "revoke", "wait", "retire", "activate", "clear"}, tok : Tokens \cup {NoToken}]

\* callback.js: a request that is under way has a token, which is pending until it is activated or revoked.
TokenRows ==
  /\ kStatus \in [Tokens -> {"pending", "active", "grace", "dead"}]
  /\ kSecret \in Tokens \cup {NoToken}
  /\ kJob \in [Callers -> TokenJob]
  /\ kWait \in BOOLEAN /\ kFaults \in Nat
  /\ \A c \in Callers : /\ kJob[c].at = "off" => kJob[c] = NoJob
                        /\ kJob[c].at # "off" => kJob[c].tok \in Tokens
                        /\ kJob[c].at \in {"put", "revoke", "retire", "activate"} => kStatus[kJob[c].tok] = "pending"
  /\ \A c, d \in Callers : c # d /\ kJob[c].at # "off" => kJob[c].tok # kJob[d].tok

\* A step of an issuer, by what it does to the row of its token.
LEMMA TokenRowsKept == TokenRows /\ [TokenNext]_kVars => TokenRows'
<1> SUFFICES ASSUME TokenRows, [TokenNext]_kVars
             PROVE  TokenRows'
  OBVIOUS
<1> USE TokenAssumption
<1>1. ASSUME NEW c \in Callers, Issue(c)
      PROVE  TokenRows'
  <2>1. PICK t \in Unused : /\ kStatus' = [kStatus EXCEPT ![t] = "pending"]
                            /\ kJob' = [kJob EXCEPT ![c] = [at |-> "put", tok |-> t]]
                            /\ UNCHANGED <<kSecret, kWait, kFaults>>
    BY <1>1 DEF Issue
  <2> QED BY <1>1, <2>1 DEF TokenRows, TokenJob, Unused, NoJob
<1>2. ASSUME NEW c \in Callers, Put(c) \/ PutFails(c)
      PROVE  TokenRows'
  <2>1. PICK where \in {"retire", "revoke"} : kJob' = [kJob EXCEPT ![c].at = where]
    BY <1>2 DEF Put, PutFails, Goto
  <2>2. kJob[c].at = "put" /\ kSecret' \in {kSecret, kJob[c].tok} /\ UNCHANGED <<kStatus, kWait>>
    BY <1>2 DEF Put, PutFails
  <2>3. kFaults' \in Nat
    BY <1>2 DEF Put, PutFails, TokenRows
  <2> QED BY <2>1, <2>2, <2>3 DEF TokenRows, TokenJob, NoJob
<1>3. ASSUME NEW c \in Callers, Revoke(c)
      PROVE  TokenRows'
  BY <1>3 DEF Revoke, Goto, TokenRows, TokenJob, NoJob
<1>4. ASSUME NEW c \in Callers, RetryLater(c) \/ Clear(c) \/ IssuerDies(c)
      PROVE  TokenRows'
  <2>1. kJob' = [kJob EXCEPT ![c] = NoJob] /\ UNCHANGED <<kStatus, kSecret>> /\ kWait' \in BOOLEAN
    BY <1>4 DEF RetryLater, Clear, IssuerDies, IssueOver, TokenRows
  <2>2. NoJob \in TokenJob /\ NoJob.at = "off" /\ NoJob.tok \notin Tokens
    BY DEF NoJob, TokenJob
  <2>3. kFaults' \in Nat
    BY <1>4 DEF RetryLater, Clear, IssuerDies, TokenRows
  <2> QED BY <2>1, <2>2, <2>3 DEF TokenRows, TokenJob
<1>5. ASSUME NEW c \in Callers, Retire(c)
      PROVE  TokenRows'
  BY <1>5 DEF Retire, Goto, TokenRows, TokenJob, NoJob
<1>6. ASSUME NEW c \in Callers, Activate(c)
      PROVE  TokenRows'
  BY <1>6 DEF Activate, Goto, TokenRows, TokenJob, NoJob
<1>7. ASSUME NEW t \in Tokens, GraceEnds(t)
      PROVE  TokenRows'
  BY <1>7 DEF GraceEnds, TokenRows, TokenJob, NoJob
<1>8. CASE (\E t \in Tokens : GrowOld(t)) \/ WaitEnds \/ UNCHANGED kVars
  BY <1>8 DEF GrowOld, WaitEnds, kVars, TokenRows
<1> QED BY <1>1, <1>2, <1>3, <1>4, <1>5, <1>6, <1>7, <1>8 DEF TokenNext, IssuerGoes

\* No token is there at first.
LEMMA TokenRowsBegin == TokenInit => TokenRows
<1>1. NoJob \in TokenJob /\ NoJob.at = "off"
  BY DEF NoJob, TokenJob
<1>2. TokenInit => kFaults \in Nat
  BY DEF TokenInit
<1> QED BY <1>1, <1>2 DEF TokenInit, TokenRows

\* tickCallbackToken(): of two active rows one is the newer, so there is one newest.
TokenOrder == \A t, u \in Listed : t # u => <<t, u>> \in kBefore \/ <<u, t>> \in kBefore

\* Rows that stay listed stay in order, and a new one is the newest.
LEMMA TokenOrderKept == TokenRows /\ TokenOrder /\ [TokenNext]_kVars => TokenOrder'
<1> SUFFICES ASSUME TokenRows, TokenOrder, [TokenNext]_kVars
             PROVE  TokenOrder'
  OBVIOUS
<1>1. ASSUME NEW c \in Callers, Issue(c)
      PROVE  TokenOrder'
  <2>1. PICK t \in Unused : kStatus' = [kStatus EXCEPT ![t] = "pending"] /\ kBefore' = kBefore \cup (Listed \X {t})
    BY <1>1 DEF Issue
  <2>2. Listed' = Listed \cup {t} /\ t \in Tokens
    BY <2>1 DEF Listed, Unused, TokenRows
  <2> QED BY <2>1, <2>2 DEF TokenOrder
<1>2. ASSUME NEW c \in Callers, Revoke(c)
      PROVE  TokenOrder'
  <2>1. Listed' = Listed \ {kJob[c].tok} /\ kBefore' = Among(Listed \ {kJob[c].tok})
    BY <1>2 DEF Revoke, Listed, TokenRows
  <2> QED BY <2>1 DEF TokenOrder, Among
<1>3. ASSUME NEW c \in Callers, Retire(c)
      PROVE  TokenOrder'
  <2>1. PICK S : S = {t \in Listed : kStatus[t] = "pending" \/ t = kJob[c].tok}
    OBVIOUS
  <2>2. Listed' \subseteq S /\ S \subseteq Listed /\ kBefore' = Among(S)
    BY <1>3, <2>1 DEF Retire, Listed, TokenRows
  <2> QED BY <2>2 DEF TokenOrder, Among
<1>4. ASSUME NEW c \in Callers, Activate(c)
      PROVE  TokenOrder'
  <2>1. Listed' = Listed /\ kBefore' = kBefore
    BY <1>4 DEF Activate, Listed, TokenRows
  <2> QED BY <2>1 DEF TokenOrder
<1>5. CASE \/ \E c \in Callers : Put(c) \/ PutFails(c) \/ RetryLater(c) \/ Clear(c) \/ IssuerDies(c)
           \/ (\E t \in Tokens : GrowOld(t)) \/ WaitEnds \/ UNCHANGED kVars
  <2>1. UNCHANGED <<kStatus, kBefore>>
    BY <1>5 DEF Put, PutFails, RetryLater, Clear, IssuerDies, GrowOld, WaitEnds, kVars
  <2> QED BY <2>1 DEF TokenOrder, Listed
<1>6. ASSUME NEW t \in Tokens, GraceEnds(t)
      PROVE  TokenOrder'
  <2>1. Listed' = Listed /\ kBefore' = kBefore
    BY <1>6 DEF GraceEnds, Listed, TokenRows
  <2> QED BY <2>1 DEF TokenOrder
<1> QED BY <1>1, <1>2, <1>3, <1>4, <1>5, <1>6 DEF TokenNext, IssuerGoes

\* A rotation that is due, and can be made, stays so.
StillDue == (NeedsToken => NeedsToken') /\ (TokenLeft => TokenLeft')

\* Where nothing fails, nobody dies and the owner asks for nothing, the tick alone moves its issue.
LEMMA TickAlone ==
  ASSUME TokenRows, TokenRows', [TokenNext]_kVars, [kFaults' = kFaults]_kVars,
         kJob["owner"] = NoJob, kJob'["owner"] = NoJob
  PROVE  \/ Issue("tick")
         \/ Put("tick") \/ Revoke("tick") \/ RetryLater("tick") \/ Retire("tick") \/ Activate("tick") \/ Clear("tick")
         \/ UNCHANGED <<kJob, kWait>> /\ StillDue
         \/ UNCHANGED kJob /\ ~kWait' /\ StillDue
<1>1. CASE UNCHANGED kVars
  BY <1>1 DEF kVars, StillDue, NeedsToken, Newest, Active, TokenLeft, Unused
<1>2. ASSUME TokenNext, UNCHANGED kFaults
      PROVE  \/ Issue("tick")
             \/ Put("tick") \/ Revoke("tick") \/ RetryLater("tick") \/ Retire("tick") \/ Activate("tick")
             \/ Clear("tick")
             \/ UNCHANGED <<kJob, kWait>> /\ StillDue
             \/ UNCHANGED kJob /\ ~kWait' /\ StillDue
  <2>1. ASSUME NEW c \in Callers, IssuerDies(c) \/ PutFails(c)
        PROVE  FALSE
    BY <1>2, <2>1 DEF IssuerDies, PutFails, TokenRows
  <2>2. ASSUME IssuerGoes("owner") \/ Issue("owner")
        PROVE  FALSE
    <3>1. "owner" \in Callers /\ kJob \in [Callers -> TokenJob] /\ kJob["owner"].at = "off"
      BY DEF Callers, TokenRows, NoJob
    <3>2. CASE IssuerGoes("owner")
      BY <3>1, <3>2 DEF IssuerGoes, Put, PutFails, Revoke, RetryLater, Retire, Activate, Clear
    <3>3. CASE Issue("owner")
      <4>1. PICK t : kJob' = [kJob EXCEPT !["owner"] = [at |-> "put", tok |-> t]]
        BY <3>3 DEF Issue
      <4>2. kJob'["owner"] = [at |-> "put", tok |-> t]
        BY <3>1, <4>1
      <4> QED BY <4>2 DEF NoJob
    <3> QED BY <2>2, <3>2, <3>3
  <2>3. ASSUME NEW t \in Tokens, GraceEnds(t)
        PROVE  UNCHANGED <<kJob, kWait>> /\ StillDue
    <3>1. Active' = Active /\ UNCHANGED <<kBefore, kOld>>
      BY <2>3 DEF GraceEnds, Active, TokenRows
    <3>2. NeedsToken => NeedsToken'
      BY <3>1 DEF NeedsToken, Newest
    <3>3. Unused \subseteq Unused'
      BY <2>3 DEF GraceEnds, Unused, TokenRows
    <3> QED BY <2>3, <3>2, <3>3 DEF GraceEnds, StillDue, TokenLeft
  <2>4. ASSUME NEW t \in Tokens, GrowOld(t)
        PROVE  UNCHANGED <<kJob, kWait>> /\ StillDue
    BY <2>4 DEF GrowOld, StillDue, NeedsToken, Newest, Active, TokenLeft, Unused
  <2>5. ASSUME WaitEnds
        PROVE  UNCHANGED kJob /\ ~kWait' /\ StillDue
    BY <2>5 DEF WaitEnds, StillDue, NeedsToken, Newest, Active, TokenLeft, Unused
  <2> QED BY <1>2, <2>1, <2>2, <2>3, <2>4, <2>5 DEF TokenNext, IssuerGoes, Callers
<1> QED BY <1>1, <1>2 DEF kVars

\* The newest of the active tokens is the only one, so the rotation is due once it is old.
LEMMA OldEnough ==
  ASSUME TokenRows, TokenOrder, NewestGrowsOld
  PROVE  NeedsToken'
<1>1. PICK t \in Newest : GrowOld(t)
  BY DEF NewestGrowsOld
<1>2. Newest' = Newest /\ kOld' = kOld \cup {t}
  BY <1>1 DEF GrowOld, Newest, Active
<1>3. ASSUME NEW u \in Newest
      PROVE  u = t
  BY <1>1 DEF Newest, Active, Listed, TokenOrder
<1> QED BY <1>2, <1>3 DEF NeedsToken

(* callback.js, tickCallbackToken(): whatever failed, died or overlapped before, the secret that workflow runs
   read comes to be one that the Worker accepts, at the latest when the newest token is 30 days old. *)
THEOREM SecretHeals ==
  TokenSpec /\ TickFairness /\ []TokenGuards /\ []<>TokenLeft /\ QuietInTheEnd => CallbackHeals
<1> USE TokenAssumption
<1> DEFINE At(where) == kJob["tick"].at = where
           Quiet == kJob["owner"] = NoJob
           Good == Accepted
           Needed == NeedsToken
           Spare == TokenLeft
<1>1. TokenInit => TokenRows /\ TokenOrder
  BY TokenRowsBegin DEF TokenInit, TokenOrder, Listed
<1>2. TokenRows /\ TokenOrder /\ [TokenNext]_kVars => TokenRows' /\ TokenOrder'
  BY TokenRowsKept, TokenOrderKept
<1>3. TokenRows => \/ At("off") \/ At("put") \/ At("revoke") \/ At("wait") \/ At("retire") \/ At("activate")
                   \/ At("clear")
  BY DEF TokenRows, TokenJob, Callers
<1> DEFINE Calm == TokenRows /\ TokenRows' /\ [TokenNext]_kVars /\ [kFaults' = kFaults]_kVars /\ Quiet /\ Quiet'
<1>4. Calm => \/ Issue("tick")
              \/ Put("tick") \/ Revoke("tick") \/ RetryLater("tick") \/ Retire("tick") \/ Activate("tick") \/ Clear("tick")
              \/ UNCHANGED <<kJob, kWait>> /\ StillDue
              \/ UNCHANGED kJob /\ ~kWait' /\ StillDue
  BY TickAlone
<1>5. ASSUME TokenRows
      PROVE  /\ Issue("tick") => At("off") /\ ~kWait /\ At("put")'
             /\ Put("tick") => At("put") /\ Good'
             /\ Revoke("tick") => At("revoke") /\ At("wait")'
             /\ RetryLater("tick") => At("wait") /\ At("off")'
             /\ Retire("tick") => At("retire") /\ At("activate")'
             /\ Activate("tick") => At("activate") /\ At("clear")'
             /\ Clear("tick") => At("clear") /\ At("off")'
  <2>0. "tick" \in Callers /\ kJob \in [Callers -> TokenJob]
    BY <1>5 DEF Callers, TokenRows
  <2>1. Issue("tick") => At("off") /\ ~kWait /\ At("put")'
    BY <2>0 DEF Issue, NoJob
  <2>2. Put("tick") => At("put") /\ Good'
    BY <1>5, <2>0 DEF Put, Accepted, Usable, TokenRows
  <2>3. Revoke("tick") => At("revoke") /\ At("wait")'
    BY <2>0 DEF Revoke, Goto, TokenJob
  <2>4. RetryLater("tick") => At("wait") /\ At("off")'
    BY <2>0 DEF RetryLater, IssueOver, NoJob
  <2>5. Retire("tick") => At("retire") /\ At("activate")'
    BY <2>0 DEF Retire, Goto, TokenJob
  <2>6. Activate("tick") => At("activate") /\ At("clear")'
    BY <2>0 DEF Activate, Goto, TokenJob
  <2>7. Clear("tick") => At("clear") /\ At("off")'
    BY <2>0 DEF Clear, IssueOver, NoJob
  <2> QED BY <2>1, <2>2, <2>3, <2>4, <2>5, <2>6, <2>7
<1>6. Calm => /\ At("put") => At("put")' \/ Good'
              /\ At("revoke") => At("revoke")' \/ At("wait")'
              /\ At("wait") => At("wait")' \/ At("off")'
              /\ At("retire") => At("retire")' \/ At("activate")'
              /\ At("activate") => At("activate")' \/ At("clear")'
              /\ At("clear") => At("clear")' \/ At("off")'
              /\ At("off") /\ kWait => At("off")'
              /\ At("off") /\ ~kWait => At("put")' \/ (At("off")' /\ ~kWait' /\ (Needed => Needed') /\ (Spare => Spare'))
  <2> SUFFICES ASSUME Calm
               PROVE  /\ At("put") => At("put")' \/ Good'
                      /\ At("revoke") => At("revoke")' \/ At("wait")'
                      /\ At("wait") => At("wait")' \/ At("off")'
                      /\ At("retire") => At("retire")' \/ At("activate")'
                      /\ At("activate") => At("activate")' \/ At("clear")'
                      /\ At("clear") => At("clear")' \/ At("off")'
                      /\ At("off") /\ kWait => At("off")'
                      /\ At("off") /\ ~kWait => At("put")' \/ (At("off")' /\ ~kWait' /\ (Needed => Needed') /\ (Spare => Spare'))
    OBVIOUS
  <2>1. CASE UNCHANGED kJob /\ (UNCHANGED kWait \/ ~kWait') /\ StillDue
    <3>1. \A where : At(where)' <=> At(where)
      BY <2>1
    <3>2. (Needed => Needed') /\ (Spare => Spare')
      BY <2>1 DEF StillDue
    <3> HIDE DEF At, Needed, Good, Spare
    <3> QED BY <2>1, <3>1, <3>2
  <2>2. CASE \/ Issue("tick") \/ Put("tick") \/ Revoke("tick") \/ RetryLater("tick") \/ Retire("tick")
             \/ Activate("tick") \/ Clear("tick")
    <3> HIDE DEF Needed, Good, Spare
    <3> QED BY <1>5, <2>2
  <2> QED BY <1>4, <2>1, <2>2
<1>7. Calm /\ <<IssuerGoes("tick")>>_kVars =>
        /\ At("put") => Good'
        /\ At("revoke") => At("wait")'
        /\ At("wait") => At("off")'
        /\ At("retire") => At("activate")'
        /\ At("activate") => At("clear")'
        /\ At("clear") => At("off")'
  <2>1. TokenRows /\ [kFaults' = kFaults]_kVars => ~PutFails("tick")
    BY DEF PutFails, TokenRows, kVars
  <2> HIDE DEF Needed, Good, Spare
  <2> QED BY <1>5, <2>1 DEF IssuerGoes
<1>8. TokenRows /\ <<WaitEnds>>_kVars => (At("off") => At("off")') /\ ~kWait'
  BY DEF WaitEnds
<1>9. TokenRows /\ <<Issue("tick")>>_kVars => At("put")'
  BY <1>5
<1>10. TokenRows /\ TokenOrder /\ <<NewestGrowsOld>>_kVars => (At("off") => At("off")') /\ (~kWait => ~kWait') /\ Needed'
  BY OldEnough DEF NewestGrowsOld, GrowOld
<1>11. TokenGuards => /\ At("put") \/ At("revoke") \/ At("wait") \/ At("retire") \/ At("activate") \/ At("clear")
                         => ENABLED <<IssuerGoes("tick")>>_kVars
                      /\ At("off") /\ ~kWait /\ Needed /\ Spare => ENABLED <<Issue("tick")>>_kVars
                      /\ kWait => ENABLED <<WaitEnds>>_kVars
                      /\ ~Needed => ENABLED <<NewestGrowsOld>>_kVars
  BY DEF TokenGuards
<1>12. (Good <=> Accepted) /\ (Spare <=> TokenLeft) /\ (Quiet <=> kJob["owner"] = NoJob)
  OBVIOUS
<1> HIDE DEF At, Quiet, Good, Needed, Spare
<1> QED BY <1>1, <1>2, <1>3, <1>6, <1>7, <1>8, <1>9, <1>10, <1>11, <1>12,
       PTL DEF TokenSpec, TickFairness, QuietInTheEnd, CallbackHeals

(***************************************************************************)
(* PulseKeeper: keeper.js                                                  *)
(***************************************************************************)

KeeperRows ==
  /\ pBeat \in BOOLEAN /\ pSent \in BOOLEAN /\ pFailed \in BOOLEAN /\ pRaw \in BOOLEAN
  /\ pStep \in [Keepers -> {"idle", "look", "fire", "sent", "failed"}]
  /\ pQueued \in Nat /\ pMisses \in Nat

\* keeper.js: the bits and the counts stay bits and counts.
LEMMA KeeperRowsKept == KeeperRows /\ [KeeperNext]_pVars => KeeperRows'
<1> SUFFICES ASSUME KeeperRows, [KeeperNext]_pVars
             PROVE  KeeperRows'
  OBVIOUS
<1>1. MaxPulses \in Nat
  BY KeeperAssumption
<1>2. pQueued' \in Nat /\ pMisses' \in Nat
  <2>1. pQueued \in Nat /\ pMisses \in Nat
    BY DEF KeeperRows
  <2>2. \/ Queue \/ UNCHANGED pQueued
        \/ pQueued > 0 /\ pQueued' = pQueued - 1
    BY DEF KeeperNext, KeeperGoes, ReadSettings, Look, Dispatch, WriteResult, RunPulseNow, DispatchFails, KeeperDies,
           PulseEnds, PulseLost, BeatGetsOld, RawGetsOld, SentGetsOld, FailedGetsOld, pVars
  <2>3. pMisses' \in {pMisses, pMisses + 1}
    BY DEF KeeperNext, KeeperGoes, ReadSettings, Look, Dispatch, WriteResult, RunPulseNow, DispatchFails, KeeperDies,
           PulseEnds, PulseLost, BeatGetsOld, RawGetsOld, SentGetsOld, FailedGetsOld, Miss, pVars
  <2> QED BY <2>1, <2>2, <2>3 DEF Queue
<1>3. pStep' \in [Keepers -> {"idle", "look", "fire", "sent", "failed"}]
  BY DEF KeeperRows, KeeperNext, KeeperGoes, ReadSettings, Look, Dispatch, WriteResult, RunPulseNow, DispatchFails,
         KeeperDies, PulseEnds, PulseLost, BeatGetsOld, RawGetsOld, SentGetsOld, FailedGetsOld, To, pVars
<1>4. pBeat' \in BOOLEAN /\ pSent' \in BOOLEAN /\ pFailed' \in BOOLEAN /\ pRaw' \in BOOLEAN
  <2>1. /\ pBeat' \in {pBeat, TRUE, FALSE} /\ pSent' \in {pSent, TRUE, FALSE}
        /\ pFailed' \in {pFailed, TRUE, FALSE} /\ pRaw' \in {pRaw, TRUE, FALSE}
    BY DEF KeeperNext, KeeperGoes, ReadSettings, Look, Dispatch, WriteResult, RunPulseNow, DispatchFails, KeeperDies,
           PulseEnds, PulseLost, BeatGetsOld, RawGetsOld, SentGetsOld, FailedGetsOld, pVars
  <2> QED BY <2>1 DEF KeeperRows
<1> QED BY <1>2, <1>3, <1>4 DEF KeeperRows

\* While nothing is lost and the others rest, a step that neither finds nor leaves a pulse is one of these.
LEMMA KeeperAlone ==
  ASSUME NEW k \in Keepers, MaxPulses > 0, KeeperRows, [KeeperNext]_pVars, [pMisses' = pMisses]_pVars,
         \A j \in Keepers \ {k} : pStep[j] = "idle", \A j \in Keepers \ {k} : pStep'[j] = "idle",
         ~(pQueued > 0 \/ pRaw), ~(pQueued' > 0 \/ pRaw')
  PROVE  \/ ReadSettings(k) \/ WriteResult(k)
         \/ pStep[k] = "look" /\ pStep'[k] = "fire"
         \/ UNCHANGED pStep /\ (pBeat' => pBeat) /\ (pSent' => pSent) /\ (pFailed' => pFailed)
<1>1. MaxPulses \in Nat /\ pQueued = 0 /\ pMisses \in Nat
  BY KeeperAssumption DEF KeeperRows
<1>2. ~Queue
  BY <1>1 DEF Queue
<1>3. CASE UNCHANGED pVars
  BY <1>3 DEF pVars
<1>4. ASSUME KeeperNext, pMisses' = pMisses
      PROVE  \/ ReadSettings(k) \/ WriteResult(k)
             \/ pStep[k] = "look" /\ pStep'[k] = "fire"
             \/ UNCHANGED pStep /\ (pBeat' => pBeat) /\ (pSent' => pSent) /\ (pFailed' => pFailed)
  <2>1. ~Miss
    BY <1>1, <1>4 DEF Miss
  <2>2. ASSUME NEW j \in Keepers, KeeperGoes(j)
        PROVE  ReadSettings(k) \/ WriteResult(k) \/ (pStep[k] = "look" /\ pStep'[k] = "fire")
    <3>1. CASE j # k
      <4>1. pStep[j] = "idle" /\ pStep'[j] = "idle"
        BY <3>1
      <4>2. ReadSettings(j)
        BY <2>2, <4>1 DEF KeeperGoes, Look, Dispatch, WriteResult
      <4>3. pStep'[j] = "look"
        BY <4>2 DEF ReadSettings, To, KeeperRows
      <4> QED BY <4>1, <4>3
    <3>2. CASE j = k
      <4>1. CASE Look(k)
        BY <2>1, <4>1 DEF Look, To, KeeperRows
      <4>2. ~Dispatch(k)
        BY <1>2 DEF Dispatch
      <4>3. KeeperGoes(k)
        BY <2>2, <3>2
      <4> QED BY <4>1, <4>2, <4>3 DEF KeeperGoes
    <3> QED BY <3>1, <3>2
  <2>3. ASSUME NEW j \in Keepers
        PROVE  ~RunPulseNow(j) /\ ~DispatchFails(j) /\ ~KeeperDies(j)
    BY <1>2, <2>1 DEF RunPulseNow, DispatchFails, KeeperDies
  <2>4. ~PulseEnds /\ ~PulseLost
    BY <1>1 DEF PulseEnds, PulseLost
  <2>5. CASE BeatGetsOld \/ RawGetsOld \/ SentGetsOld \/ FailedGetsOld
    BY <2>5 DEF BeatGetsOld, RawGetsOld, SentGetsOld, FailedGetsOld
  <2> QED BY <1>4, <2>2, <2>3, <2>4, <2>5 DEF KeeperNext
<1> QED BY <1>3, <1>4 DEF pVars

(* keeper.js, tickKeeper(): whatever was lost, cut short or overlapped before, a pulse waits again or has just
   run, by a tick that sees the old heartbeat and is not held up by a dispatch or a failure of long ago. *)
THEOREM PulseComesBack ==
  ASSUME NEW k \in Keepers, MaxPulses > 0
  PROVE  KeeperSpec /\ KeeperFairness(k) /\ []KeeperGuards /\ TicksInTurn(k) => PulseKept
<1> DEFINE At(step) == pStep[k] = step
           Kept == pQueued > 0 \/ pRaw
           Alone == \A j \in Keepers \ {k} : pStep[j] = "idle"
           Beat == pBeat
           Sent == pSent
           Failed == pFailed
<1>1. KeeperInit => KeeperRows
  <2>1. KeeperInit => pBeat \in BOOLEAN /\ pSent \in BOOLEAN /\ pFailed \in BOOLEAN /\ pRaw \in BOOLEAN
    BY Zenon DEF KeeperInit
  <2>2. KeeperInit => /\ pStep \in [Keepers -> {"idle", "look", "fire", "sent", "failed"}]
                      /\ pQueued \in Nat /\ pMisses \in Nat
    BY DEF KeeperInit
  <2> QED BY <2>1, <2>2 DEF KeeperRows
<1>2. KeeperRows /\ [KeeperNext]_pVars => KeeperRows'
  BY KeeperRowsKept
<1>3. KeeperRows => At("idle") \/ At("look") \/ At("fire") \/ At("sent") \/ At("failed")
  BY DEF KeeperRows
<1>4. /\ At("look") => ~At("idle")
      /\ At("fire") => ~At("idle")
      /\ At("sent") => ~At("idle")
      /\ At("failed") => ~At("idle")
  OBVIOUS
<1>5. KeeperRows => /\ ReadSettings(k) => At("idle") /\ At("look")'
                    /\ WriteResult(k) => (At("sent") \/ At("failed")) /\ At("idle")'
  BY DEF KeeperRows, ReadSettings, WriteResult, To
<1>6. KeeperRows /\ [KeeperNext]_pVars /\ [pMisses' = pMisses]_pVars /\ Alone /\ Alone' /\ ~Kept /\ ~Kept' =>
        /\ At("sent") => At("sent")' \/ At("idle")'
        /\ At("failed") => At("failed")' \/ At("idle")'
        /\ At("look") => At("look")' \/ At("fire")'
        /\ At("fire") => At("fire")'
        /\ At("idle") => \/ At("look")'
                         \/ At("idle")' /\ (~Beat => ~Beat') /\ (~Sent => ~Sent') /\ (~Failed => ~Failed')
  <2> SUFFICES ASSUME KeeperRows, [KeeperNext]_pVars, [pMisses' = pMisses]_pVars, Alone, Alone', ~Kept, ~Kept'
               PROVE  /\ At("sent") => At("sent")' \/ At("idle")'
                      /\ At("failed") => At("failed")' \/ At("idle")'
                      /\ At("look") => At("look")' \/ At("fire")'
                      /\ At("fire") => At("fire")'
                      /\ At("idle") => \/ At("look")'
                                       \/ At("idle")' /\ (~Beat => ~Beat') /\ (~Sent => ~Sent') /\ (~Failed => ~Failed')
    OBVIOUS
  <2>1. \/ ReadSettings(k) \/ WriteResult(k)
        \/ At("look") /\ At("fire")'
        \/ UNCHANGED pStep /\ (pBeat' => pBeat) /\ (pSent' => pSent) /\ (pFailed' => pFailed)
    BY KeeperAlone
  <2> QED BY <1>5, <2>1
<1>7. KeeperRows /\ ~Kept /\ ~Kept' /\ [pMisses' = pMisses]_pVars /\ <<KeeperGoes(k)>>_pVars =>
        /\ At("sent") => At("idle")'
        /\ At("failed") => At("idle")'
        /\ At("look") => At("fire")'
        /\ ~At("fire")
        /\ At("idle") => At("look")'
  <2> SUFFICES ASSUME KeeperRows, ~Kept, ~Kept', [pMisses' = pMisses]_pVars, <<KeeperGoes(k)>>_pVars
               PROVE  /\ At("sent") => At("idle")'
                      /\ At("failed") => At("idle")'
                      /\ At("look") => At("fire")'
                      /\ ~At("fire")
                      /\ At("idle") => At("look")'
    OBVIOUS
  <2>1. ~Queue
    BY KeeperAssumption DEF Queue, KeeperRows
  <2>2. ~Miss
    BY DEF Miss, KeeperRows, pVars
  <2>3. ~Dispatch(k)
    BY <2>1 DEF Dispatch
  <2>4. Look(k) => At("look") /\ At("fire")'
    BY <2>2 DEF Look, To, KeeperRows
  <2> QED BY <1>5, <2>3, <2>4 DEF KeeperGoes
<1>8. /\ <<BeatGetsOld>>_pVars => ~Beat'
      /\ <<SentGetsOld>>_pVars => ~Sent'
      /\ <<FailedGetsOld>>_pVars => ~Failed'
  BY DEF BeatGetsOld, SentGetsOld, FailedGetsOld
<1>9. KeeperGuards =>
        /\ ~At("idle") \/ (~Beat /\ ~Sent /\ ~Failed) => ENABLED <<KeeperGoes(k)>>_pVars
        /\ Beat => ENABLED <<BeatGetsOld>>_pVars
        /\ Sent => ENABLED <<SentGetsOld>>_pVars
        /\ Failed => ENABLED <<FailedGetsOld>>_pVars
  BY DEF KeeperGuards, KeeperMayGo, Fire
<1>10. (Kept <=> pQueued > 0 \/ pRaw) /\ (Alone <=> \A j \in Keepers \ {k} : pStep[j] = "idle")
  OBVIOUS
<1> HIDE DEF At, Kept, Alone, Beat, Sent, Failed
<1>11. KeeperSpec /\ KeeperFairness(k) /\ []KeeperGuards /\ <>[][pMisses' = pMisses]_pVars /\ <>[]Alone => []<>Kept
  BY <1>1, <1>2, <1>3, <1>4, <1>6, <1>7, <1>8, <1>9, PTL DEF KeeperSpec, KeeperFairness
<1> QED BY <1>10, <1>11, PTL DEF TicksInTurn, PulseKept
=============================================================================
