----------------------------- MODULE ProviderKeys -----------------------------
(***************************************************************************)
(* The key of one provider and its three homes: the repo secret that the   *)
(* runs read, the encrypted copy for the chat in the vault, the row of     *)
(* provider_keys that the dashboard shows.  Saving, removing, listing and  *)
(* the rotation of the vault, which may overlap, fail or die half way.     *)
(*   src/worker/src/keys.js, src/worker/src/schedules.js                   *)
(*                                                                         *)
(* Keys are compared, never looked into.  Of the self-test of a key and    *)
(* its proof only the dispatch, which changes nothing here, is meant; the  *)
(* format checks and further inputs of a provider are left out.            *)
(***************************************************************************)
EXTENDS Naturals

CONSTANTS
  Values,       \* keys
  Desk,         \* requests that may be under way together
  MaxDesk       \* bound: requests in all, and keys set on GitHub by hand

NoValue == "none"
Unknown == "set outside"
ASSUME KeysAssumption == {NoValue, Unknown} \cap Values = {} /\ MaxDesk \in Nat

VARIABLES
  wSecret,    \* the secret in the repo
  wVault,     \* the copy in the vault
  wRow,       \* the key whose fingerprint the row has
  wReq,       \* the requests: where one is, its key, and whether the chat is to have a copy
  wWritten,   \* (history) the keys that GitHub ever took
  wCount

wVars == <<wSecret, wVault, wRow, wReq, wWritten, wCount>>

NoReq == [at |-> "off", key |-> NoValue, chat |-> FALSE]
MaybeKey == Values \cup {NoValue}

KeysTypeOK ==
  /\ {wSecret, wVault} \subseteq MaybeKey /\ wRow \in MaybeKey \cup {Unknown}
  /\ wReq \in [Desk -> [at : {"off", "check", "write", "vault", "row", "drop vault", "drop row", "reconcile", "rotate"},
                        key : MaybeKey, chat : BOOLEAN]]
  /\ wWritten \subseteq Values /\ wCount \in 0..MaxDesk

KeysInit ==
  /\ wSecret = NoValue /\ wVault = NoValue /\ wRow = NoValue
  /\ wReq = [q \in Desk |-> NoReq] /\ wWritten = {} /\ wCount = 0

Begin(q, req) ==
  /\ wReq[q] = NoReq /\ wCount < MaxDesk /\ wCount' = wCount + 1
  /\ wReq' = [wReq EXCEPT ![q] = req]

KeyStep(q, at) == wReq' = [wReq EXCEPT ![q] = IF at = "off" THEN NoReq ELSE [@ EXCEPT !.at = at]]

SetOutside(v) ==
  /\ wCount < MaxDesk /\ wCount' = wCount + 1
  /\ wSecret' = v /\ wWritten' = wWritten \cup {v}
  /\ UNCHANGED <<wVault, wRow, wReq>>
-----------------------------------------------------------------------------
(* handleSaveKey() *)

SaveKey(q, v, chat) ==
  /\ Begin(q, [at |-> "check", key |-> v, chat |-> chat])
  /\ UNCHANGED <<wSecret, wVault, wRow, wWritten>>

\* verifyProviderKey(): the provider takes the key, or does not say and the owner saves it anyway; or it ends here.
Checked(q) ==
  /\ wReq[q].at = "check" /\ (KeyStep(q, "write") \/ KeyStep(q, "off"))
  /\ UNCHANGED <<wSecret, wVault, wRow, wWritten, wCount>>

\* (A slip: a failed write is a warning.)
GoesOn(ok) == "vault"

AfterWrite(ok) == IF ok THEN "vault" ELSE "off"

\* GitHub takes the secret; its answer may be lost, or it takes nothing.
WriteSecret(q) ==
  /\ wReq[q].at = "write"
  /\ \E taken, ok \in BOOLEAN :
       /\ ok => taken
       /\ IF taken THEN wSecret' = wReq[q].key /\ wWritten' = wWritten \cup {wReq[q].key}
                   ELSE UNCHANGED <<wSecret, wWritten>>
       /\ KeyStep(q, AfterWrite(ok))
  /\ UNCHANGED <<wVault, wRow, wCount>>

\* The copy for the chat, if it is wanted, else none; either may fail without a word.
CopyToVault(q) ==
  /\ wReq[q].at = "vault" /\ KeyStep(q, "row")
  /\ wVault' \in {wVault, IF wReq[q].chat THEN wReq[q].key ELSE NoValue}
  /\ UNCHANGED <<wSecret, wRow, wWritten, wCount>>

\* The metadata; where D1 fails the old row stays, and the answer says so.
WriteRow(q) ==
  /\ wReq[q].at = "row" /\ KeyStep(q, "off")
  /\ wRow' \in {wRow, wReq[q].key}
  /\ UNCHANGED <<wSecret, wVault, wWritten, wCount>>
-----------------------------------------------------------------------------
(* handleRemoveKey() *)

\* Where GitHub fails, everything stays.
RemoveKey(q) ==
  /\ Begin(q, [NoReq EXCEPT !.at = "drop vault"]) /\ wSecret' = NoValue
  /\ UNCHANGED <<wVault, wRow, wWritten>>

DropVault(q) ==
  /\ wReq[q].at = "drop vault" /\ KeyStep(q, "drop row") /\ wVault' \in {wVault, NoValue}
  /\ UNCHANGED <<wSecret, wRow, wWritten, wCount>>

DropRow(q) ==
  /\ wReq[q].at = "drop row" /\ KeyStep(q, "off") /\ wRow' = NoValue
  /\ UNCHANGED <<wSecret, wVault, wWritten, wCount>>

\* handleListKeys(): a secret without a row gets one (INSERT OR IGNORE).
ListKeys(q) ==
  /\ wSecret # NoValue /\ wRow = NoValue /\ Begin(q, [NoReq EXCEPT !.at = "reconcile"])
  /\ UNCHANGED <<wSecret, wVault, wRow, wWritten>>

Reconcile(q) ==
  /\ wReq[q].at = "reconcile" /\ KeyStep(q, "off")
  /\ wRow' = IF wRow = NoValue THEN Unknown ELSE wRow
  /\ UNCHANGED <<wSecret, wVault, wWritten, wCount>>

\* handleVaultRotate(): every record is read, then sealed and written back, if there still is one.
Rotate(q) ==
  /\ wVault # NoValue /\ Begin(q, [NoReq EXCEPT !.at = "rotate", !.key = wVault])
  /\ UNCHANGED <<wSecret, wVault, wRow, wWritten>>

WriteBack(q) ==
  /\ wReq[q].at = "rotate" /\ KeyStep(q, "off")
  /\ wVault' = IF wVault = NoValue THEN NoValue ELSE wReq[q].key
  /\ UNCHANGED <<wSecret, wRow, wWritten, wCount>>

DeskDies(q) ==
  /\ wReq[q] # NoReq /\ KeyStep(q, "off")
  /\ UNCHANGED <<wSecret, wVault, wRow, wWritten, wCount>>

KeysNext ==
  \/ \E v \in Values : SetOutside(v)
  \/ \E q \in Desk :
       \/ \E v \in Values, chat \in BOOLEAN : SaveKey(q, v, chat)
       \/ Checked(q) \/ WriteSecret(q) \/ CopyToVault(q) \/ WriteRow(q) \/ RemoveKey(q) \/ DropVault(q) \/ DropRow(q)
       \/ ListKeys(q) \/ Reconcile(q) \/ Rotate(q) \/ WriteBack(q) \/ DeskDies(q)

KeysSpec == KeysInit /\ [][KeysNext]_wVars
-----------------------------------------------------------------------------
(* keys.js, steps 10 to 12: GitHub first.  However saves, removals, rotations and changes by hand are  *)
(* mixed, and wherever one fails or dies, the chat never works with, and the dashboard never shows, a  *)
(* key that GitHub did not take.                                                                       *)
KeptKeysWereWritten == {wVault, wRow} \subseteq wWritten \cup {NoValue, Unknown}
==============================================================================
