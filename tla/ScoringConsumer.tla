-------------------------- MODULE ScoringConsumer --------------------------
(***************************************************************************)
(* The Kafka scoring consumer (services/kafka_consumer/                    *)
(* scoring_consumer.py): one consumer of the group, one partition, a fixed *)
(* input log.  A message is scored and its row committed to the database,  *)
(* its result is handed to the producer's local queue, and only then is    *)
(* its offset committed; the three are separate steps, any of them may     *)
(* fail, and the process may die between them.  docker-compose restarts it *)
(* (restart: unless-stopped) at the committed offset.                      *)
(***************************************************************************)
EXTENDS Naturals

CONSTANTS
    Length,     \* messages in the input log, at offsets 1..Length
    Invalid,    \* the offsets that are not a valid credit application
    MaxFailures \* bound: crashes, stops and fatal commit errors per behaviour

Offsets == 1..Length

ASSUME ConsumerAssumption ==
    /\ Length \in Nat
    /\ Invalid \subseteq Offsets
    /\ MaxFailures \in Nat

VARIABLES
    step,       \* what the process does next
    current,    \* the message in hand, 0 if none
    position,   \* the next offset poll() returns
    committed,  \* the group's committed offset: where a restart resumes
    rows,       \* rows[o]: scoring logs in the database for message o
    queue,      \* results in the producer's local queue
    published,  \* messages whose result reached the output topic
    dropped,    \* messages the generic except branch passed over without a row
    misjudged,  \* valid messages whose scoring raised ValueError before a row
    failures    \* crashes, stops and fatal commit errors so far

consumerVars == <<step, current, position, committed, rows, queue, published, dropped, misjudged, failures>>

ProcessSteps == {"down", "poll", "score", "produce", "commit", "reject", "flush"}

TypeOK ==
    /\ step \in ProcessSteps
    /\ current \in Offsets \cup {0}
    /\ position \in 1..(Length + 1)
    /\ committed \in 1..(Length + 1)
    /\ rows \in [Offsets -> 0..(MaxFailures + 1)]
    /\ queue \subseteq Offsets
    /\ published \subseteq Offsets
    /\ dropped \subseteq Offsets
    /\ misjudged \subseteq Offsets
    /\ failures \in 0..MaxFailures

Init ==
    /\ step = "down"
    /\ current = 0
    /\ position = 1
    /\ committed = 1
    /\ rows = [o \in Offsets |-> 0]
    /\ queue = {}
    /\ published = {}
    /\ dropped = {}
    /\ misjudged = {}
    /\ failures = 0

----------------------------------------------------------------------------
(* A definition named Slip... is a plausible mistake in the definition      *)
(* after it; it is used only to see that a property notices the mistake.   *)

SlipStartFromEarliest ==
    /\ step = "down"
    /\ step' = "poll"
    /\ position' = 1
    /\ UNCHANGED <<current, committed, rows, queue, published, dropped, misjudged, failures>>

(* main: create the clients, subscribe, resume at the committed offset. *)
Start ==
    /\ step = "down"
    /\ step' = "poll"
    /\ position' = committed
    /\ UNCHANGED <<current, committed, rows, queue, published, dropped, misjudged, failures>>

(* poll() returns a message. *)
Poll ==
    /\ step = "poll"
    /\ position <= Length
    /\ current' = position
    /\ position' = position + 1
    /\ step' = IF position \in Invalid THEN "reject" ELSE "score"
    /\ UNCHANGED <<committed, rows, queue, published, dropped, misjudged, failures>>

(* poll() returns nothing, a partition EOF or an error: the loop goes on. *)
PollNothing == step = "poll" /\ UNCHANGED consumerVars

(* Back to the loop of main. *)
Done == step' = "poll" /\ current' = 0

SlipScoreWithoutRow ==
    /\ step = "score"
    /\ step' = "produce"
    /\ UNCHANGED <<current, position, committed, rows, queue, published, dropped, misjudged, failures>>

(* score_application: predict, and save_scoring_log commits the row. *)
Score ==
    /\ step = "score"
    /\ rows' = [rows EXCEPT ![current] = @ + 1]
    /\ step' = "produce"
    /\ UNCHANGED <<current, position, committed, queue, published, dropped, misjudged, failures>>

(* The model, the database or the refresh after the row's commit fails:    *)
(* the generic except branch prints and returns, committing nothing.       *)
ScoreFails ==
    /\ step = "score"
    /\ \/ /\ rows' = [rows EXCEPT ![current] = @ + 1]
          /\ UNCHANGED dropped
       \/ /\ dropped' = IF rows[current] = 0 THEN dropped \cup {current} ELSE dropped
          /\ UNCHANGED rows
    /\ Done
    /\ UNCHANGED <<position, committed, queue, published, misjudged, failures>>

(* A ValueError out of the model or the features of a valid message is     *)
(* taken for an invalid message, whose offset is committed for good.       *)
ScoreValueError ==
    /\ step = "score"
    /\ misjudged' = IF rows[current] = 0 THEN misjudged \cup {current} ELSE misjudged
    /\ step' = "reject"
    /\ UNCHANGED <<current, position, committed, rows, queue, published, dropped, failures>>

(* producer.produce puts the result into the local queue; poll(0) only     *)
(* serves callbacks.  A full queue raises into the generic except branch.  *)
Produce ==
    /\ step = "produce"
    /\ \/ /\ queue' = queue \cup {current}
          /\ step' = "commit"
          /\ UNCHANGED current
       \/ Done /\ UNCHANGED queue
    /\ UNCHANGED <<position, committed, rows, published, dropped, misjudged, failures>>

SlipCommitTooFar == committed' = current + 2

(* commit(message) moves the group's offset behind the message in hand,    *)
(* whatever became of the messages before it.                              *)
CommitOffset == committed' = current + 1

SlipCommitScoresAgain ==
    /\ step = "commit"
    /\ \/ CommitOffset /\ Done
       \/ step' = "score" /\ UNCHANGED <<committed, current>>
    /\ UNCHANGED <<position, rows, queue, published, dropped, misjudged, failures>>

(* The commit of a scored message; when it raises, the generic except      *)
(* branch swallows it, and the broker may have taken it all the same.      *)
Commit ==
    /\ step = "commit"
    /\ CommitOffset \/ UNCHANGED committed
    /\ Done
    /\ UNCHANGED <<position, rows, queue, published, dropped, misjudged, failures>>

SlipRejectSeeksBack ==
    /\ step = "reject"
    /\ position' = current
    /\ Done
    /\ UNCHANGED <<committed, rows, queue, published, dropped, misjudged, failures>>

(* The commit of an invalid message. *)
Reject ==
    /\ step = "reject"
    /\ CommitOffset
    /\ Done
    /\ UNCHANGED <<position, rows, queue, published, dropped, misjudged, failures>>

(* A message without a value is no text to decode: the AttributeError goes *)
(* to the generic except branch, which commits nothing.                    *)
PassEmpty ==
    /\ step = "reject"
    /\ current \in Invalid
    /\ Done
    /\ UNCHANGED <<position, committed, rows, queue, published, dropped, misjudged, failures>>

(* When that commit raises, inside the except branch, nothing catches it:  *)
(* main runs its finally block and the process ends.                       *)
RejectFails ==
    /\ step = "reject"
    /\ failures < MaxFailures
    /\ failures' = failures + 1
    /\ CommitOffset \/ UNCHANGED committed
    /\ step' = "flush"
    /\ current' = 0
    /\ UNCHANGED <<position, rows, queue, published, dropped, misjudged>>

(* KeyboardInterrupt, anywhere in the loop. *)
Interrupt ==
    /\ step \notin {"down", "flush"}
    /\ failures < MaxFailures
    /\ failures' = failures + 1
    /\ step' = "flush"
    /\ current' = 0
    /\ UNCHANGED <<position, committed, rows, queue, published, dropped, misjudged>>

(* flush(10) waits for the queue but not for ever; close; exit. *)
Exit ==
    /\ step = "flush"
    /\ step' = "down"
    /\ queue' = {}
    /\ UNCHANGED <<current, position, committed, rows, published, dropped, misjudged, failures>>

(* The process is killed; its local queue dies with it. *)
Crash ==
    /\ step # "down"
    /\ failures < MaxFailures
    /\ failures' = failures + 1
    /\ step' = "down"
    /\ current' = 0
    /\ queue' = {}
    /\ UNCHANGED <<position, committed, rows, published, dropped, misjudged>>

(* The producer's thread delivers a queued result, or gives up on it after *)
(* its retries: delivery_report then only prints.                          *)
Deliver(o) ==
    /\ o \in queue
    /\ queue' = queue \ {o}
    /\ published' = published \cup {o} \/ UNCHANGED published
    /\ UNCHANGED <<step, current, position, committed, rows, dropped, misjudged, failures>>

Proceed ==
    \/ Start
    \/ Poll
    \/ Score
    \/ ScoreFails
    \/ ScoreValueError
    \/ Produce
    \/ Commit
    \/ Reject
    \/ PassEmpty
    \/ RejectFails
    \/ Exit

Next ==
    \/ Proceed
    \/ PollNothing
    \/ Interrupt
    \/ Crash
    \/ \E o \in Offsets : Deliver(o)

Spec == Init /\ [][Next]_consumerVars

(* The process is scheduled, and docker-compose restarts it. *)
FairSpec == Spec /\ WF_consumerVars(Proceed)

----------------------------------------------------------------------------
(* Properties *)

(* Nothing is lost but by a failed scoring: a message behind the committed *)
(* offset is invalid, has its row, or its scoring raised                   *)
(* (process_message commits what it has scored, and what it rejects).      *)
CommittedIsAccountedFor ==
    \A o \in Offsets : o < committed => o \in Invalid \/ rows[o] > 0 \/ o \in dropped \cup misjudged

(* A result that left, or is about to leave, has its row in the database.  *)
PublishedIsPersisted == \A o \in published \cup queue : rows[o] > 0

(* Each duplicate row needs a restart: in one life of the process a        *)
(* message is scored at most once.                                         *)
DuplicatesNeedRestart == \A o \in Offsets : rows[o] <= failures + 1

(* What the readers of the database and of the topics are promised         *)
(* (ScoringLedger): over crashes, failed commits and lost deliveries the   *)
(* committed offset only moves forward, never past a message without its   *)
(* row unless its scoring failed, and results follow their rows.           *)
Ledger ==
    INSTANCE ScoringLedger
    WITH recorded  <- {o \in Offsets : rows[o] > 0},
         excused   <- dropped \cup misjudged,
         announced <- published,
         resume    <- committed

ImplementsLedger == Ledger!Spec

(* Every valid message is scored in the end or was passed over by a        *)
(* failure: no commit error, crash or invalid message before it stops the  *)
(* consumer for good.                                                      *)
ValidMessagesAreScored ==
    \A o \in Offsets : o \notin Invalid => <>(rows[o] > 0 \/ o \in dropped \cup misjudged)

(* "On a temporary failure of the database, MLflow or MinIO the offset is  *)
(* not committed; after a restart the consumer can process the message     *)
(* again" (the comment that ends process_message): a restart resumes at or *)
(* before every message that such a failure left without a row.            *)
FailedCanBeReprocessed ==
    \A o \in dropped : rows[o] = 0 => committed <= o
============================================================================
