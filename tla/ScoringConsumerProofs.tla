----------------------- MODULE ScoringConsumerProofs -----------------------
(***************************************************************************)
(* Proofs about ScoringConsumer, for input logs of any length, any set of  *)
(* invalid messages and any bound on failures.                             *)
(***************************************************************************)
EXTENDS ScoringConsumer, TLAPS

Running == step \notin {"down", "flush"}
InHand  == step \in {"score", "produce", "commit", "reject"}

(* The message in hand is the last one polled, a message to be scored is   *)
(* valid, and one on its way to the producer or to its commit has its row. *)
HandOK ==
    /\ InHand => current \in Offsets /\ position = current + 1
    /\ ~InHand => current = 0
    /\ step = "score" => current \notin Invalid
    /\ step \in {"produce", "commit"} => rows[current] > 0
    /\ step = "reject" => current \in Invalid \/ rows[current] > 0 \/ current \in dropped \cup misjudged
    /\ Running => committed <= position
    /\ InHand => committed <= current

(* A message that a running process has left behind is accounted for, as   *)
(* CommittedIsAccountedFor says of the committed ones.                     *)
LeftBehindOK ==
    \A o \in Offsets :
        o < committed \/ (Running /\ o < position /\ o # current)
            => o \in Invalid \/ rows[o] > 0 \/ o \in dropped \cup misjudged

(* In one life a message gains at most one row: those still ahead, and all *)
(* of them once the process has stopped, have no more than one per failure. *)
RowsOK ==
    \A o \in Offsets :
        /\ rows[o] <= failures + 1
        /\ ~Running \/ o >= position \/ (step = "score" /\ o = current) => rows[o] <= failures

ConsumerInv == TypeOK /\ HandOK /\ LeftBehindOK /\ RowsOK /\ PublishedIsPersisted

(* The invariant holds at the start. *)
LEMMA ConsumerInit == Init => ConsumerInv
BY ConsumerAssumption
DEF Init, ConsumerInv, TypeOK, HandOK, LeftBehindOK, RowsOK, PublishedIsPersisted, Running,
    InHand, ProcessSteps, Offsets

(* Every step keeps it. *)
LEMMA ConsumerStep == ConsumerInv /\ [Next]_consumerVars => ConsumerInv'
<1> SUFFICES ASSUME ConsumerInv, [Next]_consumerVars
             PROVE  ConsumerInv'
  OBVIOUS
<1>. USE ConsumerAssumption DEF ConsumerInv, TypeOK, HandOK, LeftBehindOK, RowsOK,
         PublishedIsPersisted, Running, InHand, ProcessSteps, Offsets
<1>1. CASE Start
  BY <1>1 DEF Start
<1>2. CASE Poll
  BY <1>2 DEF Poll
<1>3. CASE Score
  BY <1>3 DEF Score
<1>4. CASE ScoreFails
  <2>1. /\ step = "score" /\ current \in Offsets /\ rows[current] <= failures
        /\ rows' \in {rows, [rows EXCEPT ![current] = @ + 1]}
        /\ dropped' \in {dropped, dropped \cup {current}}
        /\ step' = "poll" /\ current' = 0
        /\ UNCHANGED <<position, committed, queue, published, misjudged, failures>>
    BY <1>4 DEF ScoreFails, Done
  <2>2. TypeOK'
    <3>1. rows[current] + 1 \in 0..(MaxFailures + 1)
      BY <2>1
    <3>2. rows' \in [Offsets -> 0..(MaxFailures + 1)]
      BY <2>1, <3>1
    <3>. QED
      BY <2>1, <3>2
  <2>3. HandOK'
    BY <2>1
  <2>4. RowsOK'
    BY <2>1
  <2>5. PublishedIsPersisted'
    BY <2>1
  <2>6. rows'[current] > 0 \/ current \in dropped'
    BY <1>4, <2>1 DEF ScoreFails
  <2>7. LeftBehindOK'
    BY <2>1, <2>6
  <2>. QED
    BY <2>2, <2>3, <2>4, <2>5, <2>7
<1>5. CASE Produce
  BY <1>5 DEF Produce, Done
<1>6. CASE Commit
  BY <1>6 DEF Commit, CommitOffset, Done
<1>7. CASE Reject
  BY <1>7 DEF Reject, CommitOffset, Done
<1>8. CASE RejectFails
  BY <1>8 DEF RejectFails, CommitOffset
<1>9. CASE Exit
  BY <1>9 DEF Exit
<1>10. CASE Interrupt
  BY <1>10 DEF Interrupt
<1>11. CASE Crash
  BY <1>11 DEF Crash
<1>12. ASSUME NEW o \in Offsets, Deliver(o)
       PROVE  ConsumerInv'
  BY <1>12 DEF Deliver
<1>13. CASE PollNothing \/ UNCHANGED consumerVars
  BY <1>13 DEF PollNothing, consumerVars
<1>14. CASE ScoreValueError
  BY <1>14 DEF ScoreValueError
<1>15. CASE PassEmpty
  BY <1>15 DEF PassEmpty, Done
<1>. QED
  BY <1>1, <1>2, <1>3, <1>4, <1>5, <1>6, <1>7, <1>8, <1>9, <1>10, <1>11, <1>12, <1>13, <1>14, <1>15
  DEF Next, Proceed

LEMMA ConsumerCorrect == Spec => []ConsumerInv
BY ConsumerInit, ConsumerStep, PTL DEF Spec

(* Types, for every log and every number of failures. *)
THEOREM TypeCorrect == Spec => []TypeOK
<1>1. ConsumerInv => TypeOK
  BY DEF ConsumerInv
<1>. QED
  BY <1>1, ConsumerCorrect, PTL

(* No message disappears behind the committed offset except by a failed    *)
(* scoring.                                                                *)
THEOREM NothingElseIsLost == Spec => []CommittedIsAccountedFor
<1>1. ConsumerInv => CommittedIsAccountedFor
  BY DEF ConsumerInv, LeftBehindOK, CommittedIsAccountedFor
<1>. QED
  BY <1>1, ConsumerCorrect, PTL

(* A published result has its row. *)
THEOREM PublishedHasRow == Spec => []PublishedIsPersisted
<1>1. ConsumerInv => PublishedIsPersisted
  BY DEF ConsumerInv
<1>. QED
  BY <1>1, ConsumerCorrect, PTL

(* A message gets at most one row more than the process has failed. *)
THEOREM RowsAreBounded == Spec => []DuplicatesNeedRestart
<1>1. ConsumerInv => DuplicatesNeedRestart
  BY DEF ConsumerInv, RowsOK, DuplicatesNeedRestart
<1>. QED
  BY <1>1, ConsumerCorrect, PTL

(* What a step of the consumer may do to the ledger's variables; Start,    *)
(* Poll, Produce, PassEmpty, Exit, Interrupt and Crash leave them alone.   *)
LEMMA LedgerStep == ConsumerInv /\ [Next]_consumerVars => [Ledger!Next]_(Ledger!ledgerVars)
<1> DEFINE Recorded == {o \in Offsets : rows[o] > 0}
<1> SUFFICES ASSUME ConsumerInv, [Next]_consumerVars
             PROVE  Ledger!Next \/ UNCHANGED <<Recorded, dropped \cup misjudged, published, committed>>
  BY DEF Ledger!ledgerVars
<1>. USE ConsumerAssumption
<1>1. CASE step = "score" /\ (Score \/ ScoreFails \/ ScoreValueError)
  <2>1. current \in Offsets \ Invalid
    BY <1>1 DEF ConsumerInv, HandOK, InHand
  <2>2. current \in Ledger!Valid
    BY <2>1 DEF Ledger!Valid, Offsets
  <2>3. rows[current] \in Nat /\ rows \in [Offsets -> Nat]
    BY <2>1 DEF ConsumerInv, TypeOK
  <2>4. (rows' = [rows EXCEPT ![current] = @ + 1] /\ UNCHANGED <<committed, published, dropped, misjudged>>)
            => Ledger!Record(current)
    <3> HAVE rows' = [rows EXCEPT ![current] = @ + 1] /\ UNCHANGED <<committed, published, dropped, misjudged>>
    <3>1. Recorded' = Recorded \cup {current}
      BY <2>1, <2>3
    <3>. QED
      BY <3>1 DEF Ledger!Record
  <2>5. ASSUME UNCHANGED <<rows, committed, published>>, rows[current] = 0,
               (dropped \cup misjudged)' = (dropped \cup misjudged) \cup {current}
        PROVE  Ledger!Excuse(current)
    <3>1. current \notin Recorded /\ UNCHANGED Recorded
      BY <2>5
    <3>. QED
      BY <2>5, <3>1 DEF Ledger!Excuse
  <2>6. CASE Score
    <3>1. Ledger!Record(current)
      BY <2>4, <2>6 DEF Score
    <3>. QED
      BY <2>2, <3>1 DEF Ledger!Next, Ledger!Record
  <2>7. CASE ScoreFails
    <3>1. CASE rows' = [rows EXCEPT ![current] = @ + 1] /\ UNCHANGED dropped
      <4>1. Ledger!Record(current)
        BY <2>4, <2>7, <3>1 DEF ScoreFails
      <4>. QED
        BY <2>2, <4>1 DEF Ledger!Next, Ledger!Record
    <3>2. CASE UNCHANGED rows /\ rows[current] = 0 /\ dropped' = dropped \cup {current}
      BY <2>2, <2>5, <2>7, <3>2 DEF ScoreFails, Ledger!Next
    <3>3. CASE UNCHANGED <<rows, dropped>>
      BY <2>7, <3>3 DEF ScoreFails
    <3>. QED
      BY <2>7, <3>1, <3>2, <3>3 DEF ScoreFails
  <2>8. CASE ScoreValueError
    <3>1. CASE rows[current] = 0 /\ misjudged' = misjudged \cup {current}
      BY <2>2, <2>5, <2>8, <3>1 DEF ScoreValueError, Ledger!Next
    <3>2. CASE UNCHANGED misjudged
      BY <2>8, <3>2 DEF ScoreValueError
    <3>. QED
      BY <2>8, <3>1, <3>2 DEF ScoreValueError
  <2>. QED
    BY <1>1, <2>6, <2>7, <2>8
<1>2. CASE step \in {"commit", "reject"} /\ (Commit \/ Reject \/ RejectFails)
  <2>1. /\ current \in Offsets /\ committed \in 1..(Length + 1) /\ committed <= current
        /\ position = current + 1
    BY <1>2 DEF ConsumerInv, TypeOK, HandOK, InHand
  <2>2. UNCHANGED <<rows, dropped, misjudged, published>>
    BY <1>2 DEF Commit, Reject, RejectFails
  <2>3. CASE committed' = current + 1
    <3>1. \A o \in committed..current : o \in Invalid \/ rows[o] > 0 \/ o \in dropped \cup misjudged
      <4> SUFFICES ASSUME NEW o \in committed..current
                   PROVE  o \in Invalid \/ rows[o] > 0 \/ o \in dropped \cup misjudged
        OBVIOUS
      <4>1. o \in Offsets /\ (o = current \/ o < current)
        BY <2>1 DEF Offsets
      <4>2. CASE o = current
        BY <1>2, <4>2 DEF ConsumerInv, HandOK
      <4>3. CASE o < current
        <5>1. Running /\ o < position /\ o # current
          BY <1>2, <2>1, <4>1, <4>3 DEF Running, Offsets
        <5>. QED
          BY <4>1, <5>1 DEF ConsumerInv, LeftBehindOK
      <4>. QED
        BY <4>1, <4>2, <4>3
    <3>2. committed..((current + 1) - 1) \subseteq Invalid \cup Recorded \cup (dropped \cup misjudged)
      <4>1. (current + 1) - 1 = current /\ committed..current \subseteq Offsets
        BY <2>1 DEF Offsets
      <4>. QED
        BY <3>1, <4>1
    <3>3. committed < current + 1 /\ current + 1 \in 2..(Length + 1)
      BY <2>1 DEF Offsets
    <3>4. Ledger!Advance(current + 1)
      BY <2>2, <2>3, <3>2, <3>3 DEF Ledger!Advance, Ledger!Accounted
    <3>. QED
      BY <3>3, <3>4 DEF Ledger!Next
  <2>4. CASE UNCHANGED committed
    BY <2>2, <2>4
  <2>. QED
    BY <1>2, <2>3, <2>4 DEF Commit, Reject, RejectFails, CommitOffset
<1>3. ASSUME NEW o \in Offsets, Deliver(o)
      PROVE  Ledger!Next \/ UNCHANGED <<Recorded, dropped \cup misjudged, published, committed>>
  <2>1. rows[o] > 0 /\ UNCHANGED <<rows, dropped, misjudged, committed>>
    BY <1>3 DEF Deliver, ConsumerInv, PublishedIsPersisted
  <2>2. CASE published' = published \cup {o}
    <3>1. Ledger!Announce(o)
      BY <2>1, <2>2 DEF Ledger!Announce
    <3>. QED
      BY <3>1 DEF Ledger!Next, Offsets
  <2>3. CASE UNCHANGED published
    BY <2>1, <2>3
  <2>. QED
    BY <1>3, <2>2, <2>3 DEF Deliver
<1>4. CASE \/ Start \/ Poll \/ Produce \/ PassEmpty \/ Exit \/ PollNothing \/ Interrupt \/ Crash
           \/ UNCHANGED consumerVars
  BY <1>4 DEF Start, Poll, Produce, PassEmpty, Exit, PollNothing, Interrupt, Crash, consumerVars
<1>. QED
  BY <1>1, <1>2, <1>3, <1>4 DEF Next, Proceed, Score, ScoreFails, ScoreValueError, Commit, Reject, RejectFails

(* The consumer implements the ledger, for every log and however often it  *)
(* fails.                                                                  *)
THEOREM LedgerIsImplemented == Spec => ImplementsLedger
<1>1. Init => Ledger!Init
  BY ConsumerAssumption DEF Init, Ledger!Init, Offsets
<1>. QED
  BY <1>1, LedgerStep, ConsumerCorrect, PTL DEF Spec, ImplementsLedger, Ledger!Spec

(* So the committed offset never moves back, over crashes and failed       *)
(* commits.                                                                *)
THEOREM OffsetsAdvance == Spec => [][committed' >= committed]_consumerVars
<1>1. ConsumerInv /\ [Next]_consumerVars => [committed' >= committed]_consumerVars
  <2> SUFFICES ASSUME ConsumerInv, [Next]_consumerVars
               PROVE  committed' >= committed
    OBVIOUS
  <2>1. committed \in Nat
    BY ConsumerAssumption DEF ConsumerInv, TypeOK
  <2>2. committed' = committed \/ \E to \in 2..(Length + 1) : committed < to /\ committed' = to
    BY LedgerStep
    DEF Ledger!Next, Ledger!ledgerVars, Ledger!Record, Ledger!Excuse, Ledger!Announce, Ledger!Advance
  <2>. QED
    BY <2>1, <2>2, ConsumerAssumption
<1>. QED
  BY <1>1, ConsumerCorrect, PTL DEF Spec

----------------------------------------------------------------------------
(* The safety half of ValidMessagesAreScored.                              *)

(* The most steps that the present life of the process still takes: five   *)
(* for a message ahead, what is left of the one in hand, and the restart.  *)
LifeLeftAt(place, n) ==
    CASE place = "flush"   -> 5 * Length + 2
      [] place = "down"    -> 5 * Length + 1
      [] place = "score"   -> 5 * n + 4
      [] place = "produce" -> 5 * n + 3
      [] place = "commit"  -> 5 * n + 2
      [] place = "reject"  -> 5 * n + 1
      [] OTHER             -> 5 * n

LifeLeft == LifeLeftAt(step, Length + 1 - position)

LEMMA LifeLeftIs ==
  ASSUME NEW n
  PROVE  /\ LifeLeftAt("flush", n) = 5 * Length + 2
         /\ LifeLeftAt("down", n) = 5 * Length + 1
         /\ LifeLeftAt("score", n) = 5 * n + 4
         /\ LifeLeftAt("produce", n) = 5 * n + 3
         /\ LifeLeftAt("commit", n) = 5 * n + 2
         /\ LifeLeftAt("reject", n) = 5 * n + 1
         /\ LifeLeftAt("poll", n) = 5 * n
BY DEF LifeLeftAt

(* What is ahead is part of the log, and less than the whole of it once a  *)
(* message is in hand.                                                     *)
LEMMA LifeLeftBounds ==
  ASSUME ConsumerInv
  PROVE  /\ Length + 1 - position \in 0..Length
         /\ InHand => Length + 1 - position < Length
         /\ step \in ProcessSteps
         /\ LifeLeft \in 0..(5 * Length + 2)
         /\ LifeLeft = 0 => step = "poll" /\ position = Length + 1
<1>. DEFINE n == Length + 1 - position
<1>1. n \in 0..Length /\ (n = 0 => position = Length + 1) /\ step \in ProcessSteps
  BY ConsumerAssumption DEF ConsumerInv, TypeOK
<1>2. InHand => n < Length
  BY ConsumerAssumption DEF ConsumerInv, TypeOK, HandOK, Offsets
<1>3. LifeLeft = LifeLeftAt(step, n)
  BY DEF LifeLeft
<1>. HIDE DEF n
<1>4. LifeLeft \in 0..(5 * Length + 2) /\ (LifeLeft = 0 => step = "poll" /\ n = 0)
  BY <1>1, <1>2, <1>3, LifeLeftIs, ConsumerAssumption DEF ProcessSteps, InHand
<1>. QED
  BY <1>1, <1>2, <1>4 DEF n

(* Going on shortens the life, unless it ends it.                          *)
LEMMA LifeShortens ==
  ASSUME ConsumerInv, Proceed
  PROVE  \/ failures' = failures + 1
         \/ failures' = failures /\ LifeLeft' < LifeLeft
<1>. DEFINE n == Length + 1 - position
            m == Length + 1 - position'
<1>1. n \in 0..Length
  BY LifeLeftBounds
<1>2. LifeLeft = LifeLeftAt(step, n) /\ LifeLeft' = LifeLeftAt(step', m)
  BY DEF LifeLeft
<1>3. position' = position => m = n
  OBVIOUS
<1>4. position' = position + 1 => m = n - 1
  BY ConsumerAssumption DEF ConsumerInv, TypeOK
<1>5. position' = committed => m \in 0..Length
  BY ConsumerAssumption DEF ConsumerInv, TypeOK
<1>. HIDE DEF n, m
<1>. USE LifeLeftIs, ConsumerAssumption
<1>6. CASE RejectFails
  BY <1>6 DEF RejectFails
<1>7. CASE Start
  BY <1>2, <1>5, <1>7 DEF Start
<1>8. CASE Poll
  BY <1>1, <1>2, <1>4, <1>8 DEF Poll
<1>9. CASE Exit
  BY <1>2, <1>9 DEF Exit
<1>10. CASE Score \/ ScoreFails \/ ScoreValueError \/ Produce \/ Commit \/ Reject \/ PassEmpty
  BY <1>1, <1>2, <1>3, <1>10
  DEF Score, ScoreFails, ScoreValueError, Produce, Commit, Reject, PassEmpty, Done
<1>. QED
  BY <1>6, <1>7, <1>8, <1>9, <1>10 DEF Proceed

(* A step of the process either is one of its failures, or it brings the   *)
(* present life closer to the end of the log: no answer of the broker, the *)
(* database or the model makes main go round and round with a message.     *)
THEOREM LivesAreFinite ==
    Spec => [][/\ LifeLeft \in 0..(5 * Length + 2)
               /\ Proceed => \/ failures' = failures + 1
                             \/ failures' = failures /\ LifeLeft' < LifeLeft]_consumerVars
<1>1. ConsumerInv =>
        [/\ LifeLeft \in 0..(5 * Length + 2)
         /\ Proceed => \/ failures' = failures + 1
                       \/ failures' = failures /\ LifeLeft' < LifeLeft]_consumerVars
  BY LifeLeftBounds, LifeShortens
<1>. QED
  BY <1>1, ConsumerCorrect, PTL DEF Spec

(* And at the end of the log every valid message has its row or was passed *)
(* over by a failed scoring, whatever failed on the way there and from     *)
(* whichever offset the lives before were resumed.                         *)
THEOREM EndOfLogIsScored ==
    Spec => [](LifeLeft = 0 => \A o \in Offsets \ Invalid : rows[o] > 0 \/ o \in dropped \cup misjudged)
<1>1. ConsumerInv /\ LifeLeft = 0 => step = "poll" /\ position = Length + 1
  BY LifeLeftBounds
<1>2. ConsumerInv /\ step = "poll" /\ position = Length + 1
        => \A o \in Offsets \ Invalid : rows[o] > 0 \/ o \in dropped \cup misjudged
  BY ConsumerAssumption DEF ConsumerInv, TypeOK, HandOK, LeftBehindOK, Running, InHand, Offsets
<1>3. ConsumerInv =>
        (LifeLeft = 0 => \A o \in Offsets \ Invalid : rows[o] > 0 \/ o \in dropped \cup misjudged)
  BY <1>1, <1>2
<1>. QED
  BY <1>3, ConsumerCorrect, PTL
=============================================================================
