-------------------------------- MODULE Hooks --------------------------------
(***************************************************************************)
(* Inbound hooks: posts with a signature over a time and a body, each of   *)
(* which becomes one task, though a sender may post it again and again.    *)
(*   src/worker/src/connectors/hooks.js, src/worker/src/retention.js       *)
(*                                                                         *)
(* A post is handled by a request: the signature, the nonce, the task.     *)
(* Time is counted in parts of the window of 5 minutes.  The size and the  *)
(* rate limit only refuse; the hook's own row and secret do not change.    *)
(***************************************************************************)
EXTENDS Integers

CONSTANTS
  Posts, SignedAt,       \* the posts of a sender, and the time in each signature
  Posting,               \* requests that may be under way together
  HookWindow,            \* HOOK_WINDOW_SECONDS
  HookEnd                \* bound: the last moment

NoPost == "none"
ASSUME HooksAssumption ==
  /\ NoPost \notin Posts /\ {HookWindow, HookEnd} \subseteq Nat /\ SignedAt \in [Posts -> 0..HookEnd]

VARIABLES
  hTime,
  hNonce,   \* hook_nonces: when the signature of a post was first seen; -1: no row
  hReq,     \* the requests
  hTasks    \* the tasks that a post became

hVars == <<hTime, hNonce, hReq, hTasks>>

NoRequestYet == [at |-> "idle", post |-> NoPost]

HooksTypeOK ==
  /\ hTime \in 0..HookEnd /\ hNonce \in [Posts -> (-1)..HookEnd]
  /\ hReq \in [Posting -> [at : {"idle", "nonce", "task"}, post : Posts \cup {NoPost}]]
  /\ hTasks \in [Posts -> 0..2]

HooksInit ==
  /\ hTime = 0 /\ hNonce = [p \in Posts |-> -1]
  /\ hReq = [q \in Posting |-> NoRequestYet] /\ hTasks = [p \in Posts |-> 0]

\* A request is over before another part of the window has passed.
HookTick ==
  /\ hTime < HookEnd /\ hTime' = hTime + 1 /\ \A q \in Posting : hReq[q].at # "nonce"
  /\ UNCHANGED <<hNonce, hReq, hTasks>>

\* verifyHook(), the mode with a time: neither too old nor too new.
InWindow(p) == hTime - SignedAt[p] <= HookWindow /\ SignedAt[p] - hTime <= HookWindow

\* A first post, a copy of it, or one that the sender repeats because no answer came.
Arrive(q, p) ==
  /\ hReq[q] = NoRequestYet /\ InWindow(p)
  /\ hReq' = [hReq EXCEPT ![q] = [at |-> "nonce", post |-> p]]
  /\ UNCHANGED <<hTime, hNonce, hTasks>>

\* INSERT OR IGNORE: of two copies one is refused as a replay.
TakeNonce(q) ==
  LET p == hReq[q].post IN
  /\ hReq[q].at = "nonce"
  /\ IF hNonce[p] = -1
       THEN hNonce' = [hNonce EXCEPT ![p] = hTime] /\ hReq' = [hReq EXCEPT ![q].at = "task"]
       ELSE hReq' = [hReq EXCEPT ![q] = NoRequestYet] /\ UNCHANGED hNonce
  /\ UNCHANGED <<hTime, hTasks>>

QueueTask(q) ==
  /\ hReq[q].at = "task" /\ hReq' = [hReq EXCEPT ![q] = NoRequestYet]
  /\ hTasks' = [hTasks EXCEPT ![hReq[q].post] = IF @ = 2 THEN 2 ELSE @ + 1]
  /\ UNCHANGED <<hTime, hNonce>>

\* The request dies: the post is lost, and a copy of it refused.
PostDies(q) ==
  /\ hReq[q] # NoRequestYet /\ hReq' = [hReq EXCEPT ![q] = NoRequestYet]
  /\ UNCHANGED <<hTime, hNonce, hTasks>>

\* (A slip: a nonce is kept for one window.)
PastWindow(p) == hNonce[p] < hTime - HookWindow

Outlived(p) == hNonce[p] < hTime - 4 * HookWindow

\* pruneOldRows(), every six hours: 20 minutes are four windows.
PruneNonces ==
  /\ \E p \in Posts : hNonce[p] # -1 /\ Outlived(p)
  /\ hNonce' = [p \in Posts |-> IF Outlived(p) THEN -1 ELSE hNonce[p]]
  /\ UNCHANGED <<hTime, hReq, hTasks>>

HooksNext ==
  \/ HookTick \/ PruneNonces
  \/ \E q \in Posting : TakeNonce(q) \/ QueueTask(q) \/ PostDies(q) \/ \E p \in Posts : Arrive(q, p)

HooksSpec == HooksInit /\ [][HooksNext]_hVars
-----------------------------------------------------------------------------
(* hooks.js:148 "This signature was used before.": whenever a signed post arrives, in how many copies, *)
(* at once or one after the other, up to the last moment at which its signature counts, and whatever   *)
(* the pruning of nonces does meanwhile, it becomes at most one task.                                  *)
PostedOnce == \A p \in Posts : hTasks[p] <= 1
==============================================================================
