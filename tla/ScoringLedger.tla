--------------------------- MODULE ScoringLedger ---------------------------
(***************************************************************************)
(* What the scoring of the application log promises to its readers, the    *)
(* operators of the topic and of the database: a message is recorded or    *)
(* excused before the point of resumption passes it, the point only        *)
(* advances, and a result is announced only for a recorded message.        *)
(*                                                                         *)
(* The module knows nothing of processes, polls, queues or failures.       *)
(* ScoringConsumer implements it.                                          *)
(***************************************************************************)
EXTENDS Naturals

CONSTANTS
    Length,     \* messages in the log, at offsets 1..Length
    Invalid     \* the offsets that are not a valid application

VARIABLES
    recorded,   \* the messages that have their score in the database
    excused,    \* the valid messages whose scoring failed before a record
    announced,  \* the messages whose result was published
    resume      \* the offset from which the log is still to be read

ledgerVars == <<recorded, excused, announced, resume>>

Valid == (1..Length) \ Invalid

(* What the point of resumption may pass. *)
Accounted == Invalid \cup recorded \cup excused

Init ==
    /\ recorded = {}
    /\ excused = {}
    /\ announced = {}
    /\ resume = 1

(* The score of message o is in the database. *)
Record(o) ==
    /\ recorded' = recorded \cup {o}
    /\ UNCHANGED <<excused, announced, resume>>

(* The scoring of message o has failed before it had a record. *)
Excuse(o) ==
    /\ o \notin recorded
    /\ excused' = excused \cup {o}
    /\ UNCHANGED <<recorded, announced, resume>>

(* The result of message o is on the output topic. *)
Announce(o) ==
    /\ o \in recorded
    /\ announced' = announced \cup {o}
    /\ UNCHANGED <<recorded, excused, resume>>

(* Everything before offset `to' is done with. *)
Advance(to) ==
    /\ resume < to
    /\ resume..(to - 1) \subseteq Accounted
    /\ resume' = to
    /\ UNCHANGED <<recorded, excused, announced>>

Next ==
    \/ \E o \in Valid : Record(o) \/ Excuse(o)
    \/ \E o \in 1..Length : Announce(o)
    \/ \E to \in 2..(Length + 1) : Advance(to)

Spec == Init /\ [][Next]_ledgerVars
============================================================================
