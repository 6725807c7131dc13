------------------------------ MODULE JobQueue ------------------------------
(***************************************************************************)
(* Background jobs over RabbitMQ (_QueueJobBroker of message_broker.py, its *)
(* producers in scheduler.py): the cleanup of the database and the daily    *)
(* lesson counter.  A job that fails is published again with its attempt    *)
(* number raised, then the old message is acknowledged.  The channel has a  *)
(* prefetch of one; a lost connection gives the message back to the queue   *)
(* while its handler goes on, a crash ends the handler too.                 *)
(***************************************************************************)
EXTENDS Naturals, Sequences, SequencesExt, FiniteSets, FiniteSetsExt

CONSTANTS
    JobIds,         \* jobs
    Falling,        \* those that run in place when they cannot be published (cleanup)
    MaxAttempts,    \* max_attempts
    Consumers,      \* handlers at a time, those of lost messages included
    MaxBreaks       \* bound: connections lost, crashes

VARIABLES
    queue,          \* messages RabbitMQ keeps, each a job and an attempt
    hand,           \* consumer -> its message, step and whether RabbitMQ has it back
    job,            \* "new", "published", "finished", "gave up", "not queued"
    failures,       \* how often a job has failed, at most MaxAttempts
    breaks

vars == <<queue, hand, job, failures, breaks>>

Free == [step |-> "free"]
Message(j, n) == [job |-> j, attempt |-> n]

Init ==
    /\ queue = <<>> /\ hand = [c \in Consumers |-> Free]
    /\ job = [j \in JobIds |-> "new"] /\ failures = [j \in JobIds |-> 0] /\ breaks = 0

At(c, step) == hand[c].step = step
Goes(c, step) == hand' = [hand EXCEPT ![c].step = step]
Ends(c) == hand' = [hand EXCEPT ![c] = Free]
Unanswered == {c \in Consumers : ~At(c, "free") /\ ~hand[c].lost}

Publish(j) ==
    /\ job[j] = "new"
    /\ queue' = Append(queue, Message(j, 1)) /\ job' = [job EXCEPT ![j] = "published"]
    /\ UNCHANGED <<hand, failures, breaks>>

\* Without a broker the cleanup runs in place, once; the counter waits for its next hour.
NotPublished(j) ==
    /\ job[j] = "new"
    /\ \E end \in (IF j \in Falling THEN {"finished"} ELSE {}) \cup {"not queued"} :
          job' = [job EXCEPT ![j] = end]
    /\ UNCHANGED <<queue, hand, failures, breaks>>

Consume(c) ==
    /\ queue # <<>> /\ At(c, "free") /\ Unanswered = {}
    /\ hand' = [hand EXCEPT ![c] = [step |-> "running", msg |-> Head(queue), lost |-> FALSE]]
    /\ queue' = Tail(queue)
    /\ UNCHANGED <<job, failures, breaks>>

Finishes(c) ==
    /\ At(c, "running") /\ Goes(c, "settled")
    /\ job' = [job EXCEPT ![hand[c].msg.job] = "finished"]
    /\ UNCHANGED <<queue, failures, breaks>>

Fails(c) ==
    /\ At(c, "running") /\ Goes(c, "failed")
    /\ failures' = [failures EXCEPT ![hand[c].msg.job] = Min({@ + 1, MaxAttempts})]
    /\ UNCHANGED <<queue, job, breaks>>

Again(c) ==
    /\ At(c, "failed") /\ hand[c].msg.attempt < MaxAttempts
    /\ queue' = Append(queue, Message(hand[c].msg.job, hand[c].msg.attempt + 1))

\* Mutant: the old message is acknowledged first.
AcknowledgeFirst(c) ==
    \/ /\ At(c, "failed") /\ hand[c].msg.attempt < MaxAttempts /\ ~hand[c].lost
       /\ hand' = [hand EXCEPT ![c].lost = TRUE]
       /\ UNCHANGED queue
    \/ Again(c) /\ hand[c].lost /\ Goes(c, "settled")

Republish(c) == Again(c) /\ Goes(c, "settled")

Retry(c) == Republish(c) /\ UNCHANGED <<job, failures, breaks>>

\* Mutant: one attempt less.
GivesUpEarly(c) == At(c, "failed") /\ hand[c].msg.attempt + 1 >= MaxAttempts

Exhausted(c) == At(c, "failed") /\ hand[c].msg.attempt >= MaxAttempts

\* It could not be published: the message goes back as it is.
Nack(c) ==
    /\ At(c, "failed") /\ hand[c].msg.attempt < MaxAttempts
    /\ queue' = IF hand[c].lost THEN queue ELSE <<hand[c].msg>> \o queue
    /\ Ends(c) /\ UNCHANGED <<job, failures, breaks>>

Reject(c) ==
    /\ Exhausted(c)
    /\ job' = [job EXCEPT ![hand[c].msg.job] = IF @ = "finished" THEN @ ELSE "gave up"]
    /\ Ends(c) /\ UNCHANGED <<queue, failures, breaks>>

\* For a message that is lost the answer goes nowhere.
Ack(c) ==
    /\ At(c, "settled") /\ Ends(c)
    /\ UNCHANGED <<queue, job, failures, breaks>>

Returned == SetToSeq({hand[c].msg : c \in Unanswered})

ConnectionLost ==
    /\ breaks < MaxBreaks /\ breaks' = breaks + 1
    /\ queue' = Returned \o queue
    /\ hand' = [c \in Consumers |-> IF c \in Unanswered THEN [hand[c] EXCEPT !.lost = TRUE] ELSE hand[c]]
    /\ UNCHANGED <<job, failures>>

Crash ==
    /\ breaks < MaxBreaks /\ breaks' = breaks + 1
    /\ queue' = Returned \o queue
    /\ hand' = [c \in Consumers |-> Free]
    /\ UNCHANGED <<job, failures>>

Next ==
    \/ \E j \in JobIds : Publish(j) \/ NotPublished(j)
    \/ \E c \in Consumers :
          Consume(c) \/ Finishes(c) \/ Fails(c) \/ Retry(c) \/ Nack(c) \/ Reject(c) \/ Ack(c)
    \/ ConnectionLost \/ Crash

Spec == Init /\ [][Next]_vars

-----------------------------------------------------------------------------
Waiting(j) ==
    \/ \E i \in DOMAIN queue : queue[i].job = j
    \/ \E c \in Unanswered : hand[c].msg.job = j

\* A job that was published is run until it succeeds or has used up its attempts:
\* whatever is lost between the failure, the new message and the acknowledgement.
JobKept == \A j \in JobIds : job[j] = "published" => Waiting(j)

\* "Failed after n attempts" is said of a job that did fail n times, duplicates or not.
GaveUpHonestly == \A j \in JobIds : job[j] = "gave up" => failures[j] >= MaxAttempts
=============================================================================
