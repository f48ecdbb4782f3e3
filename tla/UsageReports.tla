----------------------------- MODULE UsageReports -----------------------------
(*******************************************************************************)
(* ops/usageReporter.js and POST /ops/usage of the Worker (ops.js): a pulse    *)
(* counts its calls by provider, model and status, and at its end posts them   *)
(* in one batch, a second time if the first try has no good answer in time.    *)
(* The Worker judges each record by itself, inserts the good ones, ignoring    *)
(* what it has, and then notes the limits that the records it inserted report, *)
(* one statement at a time.  Its answer is a good one if one record was good,  *)
(* and then the reporter takes the whole batch for sent.  A try that the       *)
(* reporter has given up may still be on its way or under way there.           *)
(*                                                                             *)
(* The Worker tells two records apart by a key of all their fields; here that  *)
(* is the pulse and the kind of the call, since both tries send one body.      *)
(*******************************************************************************)
EXTENDS Naturals, FiniteSets

CONSTANTS
  Reporters,  \* the pulses that report
  Kinds,      \* a provider, a model and a status
  Limited,    \* the kinds whose status is rate_limited
  MaxBatch,   \* records of one batch (200 in the code)
  NoReport

ASSUME UsageAssumption == Limited \subseteq Kinds /\ MaxBatch \in Nat /\ NoReport \notin Reporters

Posted == {1, 2}    \* the two tries

VARIABLES
  uPending,  \* the kinds of call a pulse has counted
  uBatch,    \* the batch it posts
  uStage,    \* its reporter: counting, waiting for an answer, then told sent or dropped, or killed
  uAsked,    \* the last try it made
  uPost,     \* each try: away, arrived at the Worker, inserted, answered, or cut short there
  uGood,     \* the records of a try that the Worker found valid
  uNew,      \* the records that a try inserted and whose limits it has yet to note
  uRows,     \* usage_log: the rows of each record
  uLimit     \* quota_state: whose report holds the model of a kind, or NoReport

uVars == <<uPending, uBatch, uStage, uAsked, uPost, uGood, uNew, uRows, uLimit>>
worker == <<uPost, uGood, uNew, uRows, uLimit>>

UsageTypeOK ==
  /\ uPending \in [Reporters -> SUBSET Kinds] /\ uBatch \in [Reporters -> SUBSET Kinds]
  /\ uStage \in [Reporters -> {"counting", "waiting", "sent", "dropped", "killed"}]
  /\ uAsked \in [Reporters -> {0} \union Posted]
  /\ uPost \in [Reporters \X Posted -> {"away", "arrived", "inserted", "answered", "cut"}]
  /\ uGood \in [Reporters \X Posted -> SUBSET Kinds]
  /\ uNew \in [Reporters \X Posted -> SUBSET Kinds]
  /\ uRows \in [Reporters -> [Kinds -> 0..2]]
  /\ uLimit \in [Kinds -> Reporters \union {NoReport}]

UsageInit ==
  /\ uPending = [r \in Reporters |-> {}] /\ uBatch = [r \in Reporters |-> {}]
  /\ uStage = [r \in Reporters |-> "counting"] /\ uAsked = [r \in Reporters |-> 0]
  /\ uPost = [t \in Reporters \X Posted |-> "away"]
  /\ uGood = [t \in Reporters \X Posted |-> {}] /\ uNew = [t \in Reporters \X Posted |-> {}]
  /\ uRows = [r \in Reporters |-> [k \in Kinds |-> 0]]
  /\ uLimit = [k \in Kinds |-> NoReport]

-------------------------------------------------------------------------------
\* record(): the first call of its kind opens a record, a later one adds to it.
RecordUsage(r, k) ==
  /\ uStage[r] = "counting"
  /\ uPending' = [uPending EXCEPT ![r] = @ \union {k}]
  /\ UNCHANGED <<uBatch, uStage, uAsked, worker>>

\* batch(): what goes beyond the limit stays behind, and flush() clears it with the rest.
FirstOf(kinds) == IF Cardinality(kinds) <= MaxBatch THEN {kinds}
                  ELSE {S \in SUBSET kinds : Cardinality(S) = MaxBatch}

Flush(r) ==
  /\ uStage[r] = "counting" /\ uPending[r] # {}
  /\ \E batch \in FirstOf(uPending[r]) : uBatch' = [uBatch EXCEPT ![r] = batch]
  /\ uStage' = [uStage EXCEPT ![r] = "waiting"] /\ uAsked' = [uAsked EXCEPT ![r] = 1]
  /\ UNCHANGED <<uPending, worker>>

GoodAnswer(r) ==
  /\ uStage[r] = "waiting" /\ uPost[<<r, uAsked[r]>>] = "answered"
  /\ uStage' = [uStage EXCEPT ![r] = "sent"]
  /\ uPending' = [uPending EXCEPT ![r] = {}]
  /\ UNCHANGED <<uBatch, uAsked, worker>>

\* No answer in six seconds, or a 5xx: once more, and then the batch is dropped.
NoAnswer(r) ==
  /\ uStage[r] = "waiting"
  /\ IF uAsked[r] < 2
     THEN uAsked' = [uAsked EXCEPT ![r] = 2] /\ UNCHANGED <<uPending, uStage>>
     ELSE /\ uStage' = [uStage EXCEPT ![r] = "dropped"]
          /\ uPending' = [uPending EXCEPT ![r] = {}]
          /\ UNCHANGED uAsked
  /\ UNCHANGED <<uBatch, worker>>

\* A 4xx (the Worker takes nothing of the try: no record of it is valid, or the post is
\* not) drops the batch at once.
RefusedAnswer(r) ==
  /\ uStage[r] = "waiting" /\ uPost[<<r, uAsked[r]>>] \in {"away", "arrived"}
  /\ uPost' = [uPost EXCEPT ![<<r, uAsked[r]>>] = "cut"]
  /\ uStage' = [uStage EXCEPT ![r] = "dropped"]
  /\ uPending' = [uPending EXCEPT ![r] = {}]
  /\ UNCHANGED <<uBatch, uAsked, uGood, uNew, uRows, uLimit>>

ReporterKilled(r) ==
  /\ uStage[r] \in {"counting", "waiting"}
  /\ uStage' = [uStage EXCEPT ![r] = "killed"] /\ uPending' = [uPending EXCEPT ![r] = {}]
  /\ UNCHANGED <<uBatch, uAsked, worker>>

-------------------------------------------------------------------------------
Arrived(r, n) ==
  /\ n <= uAsked[r] /\ uPost[<<r, n>>] = "away"
  /\ uPost' = [uPost EXCEPT ![<<r, n>>] = "arrived"]
  /\ UNCHANGED <<uPending, uBatch, uStage, uAsked, uGood, uNew, uRows, uLimit>>

\* A record that breaks the schema, or whose time is an hour ahead or forty days back by
\* the Worker's clock at this try, is rejected; INSERT OR IGNORE of the others, in one
\* transaction.
AllOfThem(r, good) == good
Missing(r, good) == {k \in good : uRows[r][k] = 0}

InsertBatch(r, n, good) ==
  /\ uPost[<<r, n>>] = "arrived"
  /\ good \subseteq uBatch[r] /\ good # {}
  /\ uRows' = [uRows EXCEPT ![r] =
       [k \in Kinds |-> IF k \in Missing(r, good) THEN uRows[r][k] + 1 ELSE uRows[r][k]]]
  /\ uGood' = [uGood EXCEPT ![<<r, n>>] = good]
  /\ uNew' = [uNew EXCEPT ![<<r, n>>] = Missing(r, good) \intersect Limited]
  /\ uPost' = [uPost EXCEPT ![<<r, n>>] = "inserted"]
  /\ UNCHANGED <<uPending, uBatch, uStage, uAsked, uLimit>>

\* A 429 holds the model until its reset, whatever report held it before.
NoteLimit(r, n, k) ==
  /\ k \in uNew[<<r, n>>]
  /\ uLimit' = [uLimit EXCEPT ![k] = r]
  /\ uNew' = [uNew EXCEPT ![<<r, n>>] = @ \ {k}]
  /\ UNCHANGED <<uPending, uBatch, uStage, uAsked, uPost, uGood, uRows>>

AnswerPost(r, n) ==
  /\ uPost[<<r, n>>] = "inserted" /\ uNew[<<r, n>>] = {}
  /\ uPost' = [uPost EXCEPT ![<<r, n>>] = "answered"]
  /\ UNCHANGED <<uPending, uBatch, uStage, uAsked, uGood, uNew, uRows, uLimit>>

\* The request is cut short at the Worker between two statements.
CutShort(r, n) ==
  /\ uPost[<<r, n>>] \in {"arrived", "inserted"}
  /\ uPost' = [uPost EXCEPT ![<<r, n>>] = "cut"] /\ uNew' = [uNew EXCEPT ![<<r, n>>] = {}]
  /\ UNCHANGED <<uPending, uBatch, uStage, uAsked, uGood, uRows, uLimit>>

UsageNext ==
  \E r \in Reporters :
    \/ Flush(r) \/ GoodAnswer(r) \/ NoAnswer(r) \/ RefusedAnswer(r) \/ ReporterKilled(r)
    \/ \E k \in Kinds : RecordUsage(r, k)
    \/ \E n \in Posted : \/ Arrived(r, n) \/ AnswerPost(r, n) \/ CutShort(r, n)
                         \/ \E good \in SUBSET Kinds : InsertBatch(r, n, good)
                         \/ \E k \in Kinds : NoteLimit(r, n, k)

UsageSpec == UsageInit /\ [][UsageNext]_uVars

-------------------------------------------------------------------------------
\* However the two tries of a batch are delayed, overtake one another or are cut short,
\* the ledger never has a record twice, and none that was rejected; and of a batch that
\* the reporter believes sent it has every record that was not rejected in the answer.
CountedOnce ==
  \A r \in Reporters :
    /\ \A k \in Kinds : /\ uRows[r][k] <= 1
                        /\ uRows[r][k] = 1 => \E n \in Posted : k \in uGood[<<r, n>>]
    /\ uStage[r] = "sent" => \A k \in uGood[<<r, uAsked[r]>>] : uRows[r][k] = 1

\* "sent: batch.length" (usageReporter.js:88): a batch that was sent is in the ledger.  It
\* is not: one valid record is enough for a good answer, and the rejected ones are counted.
SentIsCounted ==
  \A r \in Reporters : uStage[r] = "sent" => \A k \in uBatch[r] : uRows[r][k] = 1

\* "a 429 holds the model until the reset" (ops.js:211): once no try is under way, the
\* limits of the records that a good answer took are noted.  They are not: the second try
\* finds the rows that the first inserted before it was cut short, and notes nothing.
LimitsNoted ==
  \A r \in Reporters :
    uStage[r] = "sent" /\ (\A n \in Posted : uPost[<<r, n>>] \in {"away", "answered", "cut"})
      => \A k \in uGood[<<r, uAsked[r]>>] \intersect Limited : uLimit[k] # NoReport
===============================================================================
