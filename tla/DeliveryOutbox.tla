--------------------------- MODULE DeliveryOutbox ---------------------------
(***************************************************************************)
(* The delivery service of src/src/delivery_outbox.py: the pump _run, the  *)
(* handlers process/_process with their lease heartbeats, the RabbitMQ     *)
(* queues of src/src/message_broker.py (OutboxBroker), shutdown, crash and *)
(* restart, over the table of OutboxStore.                                 *)
(*                                                                         *)
(* One step is what the code does between two awaits, or one SQLite        *)
(* transaction.  The messenger's API is the environment: a call that is    *)
(* open may be accepted, refused, rate limited or broken, and the answer   *)
(* of an accepted call may be lost.                                        *)
(***************************************************************************)
EXTENDS OutboxStore, FiniteSets

CONSTANTS
  Batches,           \* what callers pass to enqueue_many: sequences of deliveries
  CallTimeout,       \* [Deliveries -> Nat]: 90 s, or 600 s for a document
  Beat,              \* pause between two lease renewals: 30 s
  RetryDelays,       \* delays of a transient error: 10, 30, 60 or 300 s
  FloodDelays,       \* delays a TelegramRetryAfter may ask for
  BlockCap,          \* longest pause of a platform after an error: 30 s
  Concurrency,       \* the semaphore of a platform: 20
  HeartbeatReliable, \* FALSE: a renewal may raise, which ends the heartbeat
  \* Bounds of the model.
  MaxTime,           \* the clock stops here
  EnqueueUntil,      \* callers enqueue up to this time
  FaultsUntil,       \* crashes, stops, store and API failures up to this time
  MaxFaults,         \* how many of them
  MaxCopies          \* copies of one ID waiting in a RabbitMQ queue

ASSUME OutboxAssumption ==
  /\ "none" \notin Deliveries
  /\ CallTimeout \in [Deliveries -> Nat \ {0}]
  /\ Beat \in Nat \ {0} /\ Beat < Lease
  /\ RetryDelays \subseteq Nat /\ FloodDelays \subseteq Nat
  /\ BlockCap \in Nat
  /\ Concurrency \in Nat \ {0}
  /\ HeartbeatReliable \in BOOLEAN
  /\ {MaxTime, EnqueueUntil, FaultsUntil, MaxFaults, MaxCopies} \subseteq Nat
  /\ \A b \in Batches : b \in Seq(Deliveries)

(***************************************************************************)
(* What makes a lease outlive the call it covers: an ordinary call (90 s)  *)
(* is shorter than the lease (120 s); a document (600 s) is not, and       *)
(* depends on its heartbeat.                                               *)
(***************************************************************************)
LeaseCoversCall == HeartbeatReliable \/ \A d \in Deliveries : CallTimeout[d] < Lease

VARIABLES
  process,   \* "up", "stopping" or "down": the bot's process
  batch,     \* IDs reserve_due returned and the pump has not dispatched yet
  blocked,   \* _blocked_until
  queue,     \* copies of each ID waiting in the RabbitMQ queues
  workers,   \* the invocations of process
  disabled,  \* dialogues whose user mark_delivery_auto_disabled switched off
  accepted,  \* history: how often the API accepted a delivery: 0, 1 or 2 (more)
  lost,      \* history: deliveries with an accepted call nobody recorded
  faults     \* faults so far

vars == <<now, rows, lastId, process, batch, blocked, queue, workers,
          disabled, accepted, lost, faults>>

storeVars == <<now, rows, lastId>>
historyVars == <<accepted, lost>>

Platforms == {Platform[d] : d \in Deliveries}
PeerOf(d) == <<Platform[d], Peer[d]>>
Dialogues == {PeerOf(d) : d \in Deliveries}

(***************************************************************************)
(* An invocation of process.                                               *)
(*   admitted    passed the checks of _process, waits for the semaphore    *)
(*   sending     holds a lease, the API call is open                       *)
(*   taken       the API accepted the call, the answer is on its way       *)
(*   ended       the call is over with `outcome`, finish is next           *)
(*   recording   finish was written, _record is next                       *)
(* via: "queue" has an unacknowledged message, "lost" had one that RabbitMQ*)
(* took back, "local" was spawned by the pump.  beatAt is the time of the  *)
(* next renewal while `beating`.                                           *)
(***************************************************************************)
Outcomes == {"none", "ok", "refused", "flooded", "broken"}

IdleWorker ==
  [pc |-> "idle", job |-> "none", via |-> "local", outcome |-> "none",
   deadline |-> 0, delay |-> 0, beating |-> FALSE, beatAt |-> 0]

Worker ==
  [pc : {"idle", "admitted", "sending", "taken", "ended", "recording"},
   job : Deliveries \union {"none"}, via : {"queue", "lost", "local"},
   outcome : Outcomes, deadline : Nat, delay : Nat, beating : BOOLEAN, beatAt : Nat]

Idle(w) == workers[w].pc = "idle"
Calling(w) == workers[w].pc \in {"sending", "taken"}
InSemaphore(w) == workers[w].pc \in {"sending", "taken", "ended", "recording"}

(* The holders of a platform's semaphore. *)
Running(p) == {w \in Workers : InSemaphore(w) /\ Platform[workers[w].job] = p}

Least(a, b) == IF a <= b THEN a ELSE b
Greatest(a, b) == IF a >= b THEN a ELSE b

CanFail == now <= FaultsUntil /\ faults < MaxFaults
Fault == CanFail /\ faults' = faults + 1
NoFault == UNCHANGED faults

Init ==
  /\ now = 0
  /\ rows = [d \in Deliveries |-> NoRow]
  /\ lastId = 0
  /\ process = "up"
  /\ batch = {}
  /\ blocked = [p \in Platforms |-> 0]
  /\ queue = [d \in Deliveries |-> 0]
  /\ workers = [w \in Workers |-> IdleWorker]
  /\ disabled = {}
  /\ accepted = [d \in Deliveries |-> 0]
  /\ lost = {}
  /\ faults = 0

-----------------------------------------------------------------------------
(* Producers *)

(***************************************************************************)
(* A handler, a broadcast or the web configurator (a process of its own)   *)
(* enqueues a batch.  Repeating a batch with the IDs of delivery_context   *)
(* inserts what is missing and changes nothing else.                       *)
(***************************************************************************)
Enqueue(b) ==
  /\ now <= EnqueueUntil
  /\ Inserted(b) # {}
  /\ rows' = EnqueueMany(b)
  /\ lastId' = lastId + Len(b)
  /\ UNCHANGED <<now, process, batch, blocked, queue, workers,
                 disabled, historyVars, faults>>

-----------------------------------------------------------------------------
(* The pump: _run *)

(* reserve_due for one platform that is not paused. *)
PumpReserve(p) ==
  /\ process = "up"
  /\ batch = {}
  /\ blocked[p] <= now
  /\ batch' = Due(p)
  /\ rows' = Reserved(p)
  /\ UNCHANGED <<now, lastId, process, blocked, queue, workers, disabled, historyVars, faults>>

(* _process up to the semaphore: nothing happens during a stop, for a job
   without a row or on a paused platform, and the message that carried the ID
   is acknowledged. *)
Admissible(d) ==
  process = "up" /\ rows[d].status # "absent" /\ blocked[Platform[d]] <= now

Admit(w, d, via) == [workers EXCEPT ![w] = [IdleWorker EXCEPT !.pc = "admitted",
                                                             !.job = d,
                                                             !.via = via]]

(* _spawn: one local task per ID. *)
SpawnedAlready(d) ==
  \E w \in Workers : ~Idle(w) /\ workers[w].job = d /\ workers[w].via = "local"

Spawn(d) ==
  IF SpawnedAlready(d) \/ ~Admissible(d)
    THEN UNCHANGED workers
    ELSE \E w \in Workers : Idle(w) /\ workers' = Admit(w, d, "local")

Enqueued(d) == [queue EXCEPT ![d] = Least(@ + 1, MaxCopies)]

(* Whether RabbitMQ can be reached (_broker_ok) is the environment's choice at
   each dispatch.  Publication confirmed: *)
PumpPublish(d) ==
  /\ process # "down"
  /\ d \in batch
  /\ batch' = batch \ {d}
  /\ queue' = Enqueued(d)
  /\ UNCHANGED <<storeVars, process, blocked, workers, disabled, historyVars, faults>>

(* Publication failed or was not confirmed in 2 s: the message may be in the
   queue all the same, and the ID is also spawned. *)
PumpPublishFails(d) ==
  /\ process # "down"
  /\ d \in batch
  /\ Fault
  /\ batch' = batch \ {d}
  /\ queue' \in {queue, Enqueued(d)}
  /\ Spawn(d)
  /\ UNCHANGED <<storeVars, process, blocked, disabled, historyVars>>

(* No connection to RabbitMQ, or none configured. *)
PumpSpawn(d) ==
  /\ process # "down"
  /\ d \in batch
  /\ batch' = batch \ {d}
  /\ Spawn(d)
  /\ UNCHANGED <<storeVars, process, blocked, queue, disabled, historyVars, faults>>

(* cleanup: rows older than three months; a purged row loses its history. *)
PumpPurge ==
  /\ process = "up"
  /\ batch = {}
  /\ Purgeable # {}
  /\ rows' = Purged
  /\ accepted' = [d \in Deliveries |-> IF d \in Purgeable THEN 0 ELSE accepted[d]]
  /\ lost' = lost \ Purgeable
  /\ UNCHANGED <<now, lastId, process, batch, blocked, queue, workers, disabled, faults>>

-----------------------------------------------------------------------------
(* RabbitMQ *)

Consume(w, d) ==
  /\ queue[d] > 0
  /\ Admissible(d)
  /\ Idle(w)
  /\ workers' = Admit(w, d, "queue")
  /\ queue' = [queue EXCEPT ![d] = @ - 1]
  /\ UNCHANGED <<storeVars, process, batch, blocked, disabled, historyVars, faults>>

(* The callback returns without a claim and the message is acknowledged. *)
Discard(d) ==
  /\ queue[d] > 0
  /\ process # "down"
  /\ ~Admissible(d)
  /\ queue' = [queue EXCEPT ![d] = @ - 1]
  /\ UNCHANGED <<storeVars, process, batch, blocked, workers, disabled, historyVars, faults>>

(* IDs whose message would be put back when the workers ws go away. *)
Requeued(ws) ==
  [d \in Deliveries |->
     IF \E w \in ws : workers[w].via = "queue" /\ workers[w].job = d
       THEN Least(queue[d] + 1, MaxCopies)
       ELSE queue[d]]

(* The connection drops: RabbitMQ puts every unacknowledged message back while
   the handlers go on. *)
ConnectionLost ==
  /\ Fault
  /\ \E w \in Workers : workers[w].via = "queue"
  /\ queue' = Requeued(Workers)
  /\ workers' = [w \in Workers |->
                   IF workers[w].via = "queue" THEN [workers[w] EXCEPT !.via = "lost"]
                                               ELSE workers[w]]
  /\ UNCHANGED <<storeVars, process, batch, blocked, disabled, historyVars>>

-----------------------------------------------------------------------------
(* A handler: _process *)

(* The semaphore, then claim.  The pause of the platform is not looked at
   again.  Without a claim the handler returns. *)
Claim(w) ==
  LET d == workers[w].job IN
  /\ workers[w].pc = "admitted"
  /\ process # "down"
  /\ Cardinality(Running(Platform[d])) < Concurrency
  /\ rows' = Claimed(w, d)
  /\ workers' =
       [workers EXCEPT ![w] =
          IF CanClaim(d)
            THEN [@ EXCEPT !.pc = "sending",
                           !.deadline = now + Least(CallTimeout[d], rows[d].expires - now),
                           !.beating = TRUE,
                           !.beatAt = now + Beat]
            ELSE IdleWorker]
  /\ UNCHANGED <<now, lastId, process, batch, blocked, queue, disabled, historyVars, faults>>

(* heartbeat: a renewal that finds another owner ends it. *)
Heartbeat(w) ==
  LET d == workers[w].job IN
  /\ workers[w].beating
  /\ now = workers[w].beatAt
  /\ rows' = Renewed(w, d)
  /\ workers' = [workers EXCEPT ![w] =
                   IF Holds(w, d) THEN [@ EXCEPT !.beatAt = now + Beat]
                                  ELSE [@ EXCEPT !.beating = FALSE, !.beatAt = 0]]
  /\ UNCHANGED <<now, lastId, process, batch, blocked, queue, disabled, historyVars, faults>>

(* renew raises (SQLite is locked): nothing catches it, the heartbeat is over. *)
HeartbeatDies(w) ==
  /\ ~HeartbeatReliable
  /\ Fault
  /\ workers[w].beating
  /\ now = workers[w].beatAt
  /\ workers' = [workers EXCEPT ![w] = [@ EXCEPT !.beating = FALSE, !.beatAt = 0]]
  /\ UNCHANGED <<storeVars, process, batch, blocked, queue, disabled, historyVars>>

(* The API does what the call asks for. *)
ApiAccepts(w) ==
  LET d == workers[w].job IN
  /\ workers[w].pc = "sending"
  /\ workers' = [workers EXCEPT ![w].pc = "taken"]
  /\ accepted' = [accepted EXCEPT ![d] = Least(@ + 1, 2)]
  /\ UNCHANGED <<storeVars, process, batch, blocked, queue, disabled, lost, faults>>

CallEnds(w, outcome, delay) ==
  [workers EXCEPT ![w] = [@ EXCEPT !.pc = "ended", !.outcome = outcome,
                                   !.delay = delay, !.deadline = 0]]

ApiAnswers(w) ==
  /\ workers[w].pc = "taken"
  /\ workers' = CallEnds(w, "ok", 0)
  /\ UNCHANGED <<storeVars, process, batch, blocked, queue, disabled, historyVars, faults>>

(* A permanent error (retry_delay is None), or a TelegramRetryAfter, which is
   waited for without pausing the platform. *)
ApiRefuses(w) ==
  /\ workers[w].pc = "sending"
  /\ \/ NoFault /\ workers' = CallEnds(w, "refused", 0)
     \/ Fault /\ \E delay \in FloodDelays : workers' = CallEnds(w, "flooded", delay)
  /\ UNCHANGED <<storeVars, process, batch, blocked, queue, disabled, historyVars>>

(* A network error, a server error, an unreadable answer or asyncio.timeout:
   the call may have been accepted, and the platform is paused. *)
CallBreaks(w) ==
  LET d == workers[w].job IN
  /\ Calling(w)
  /\ IF now = workers[w].deadline THEN NoFault ELSE Fault
  /\ \E delay \in RetryDelays :
       /\ workers' = CallEnds(w, "broken", delay)
       /\ blocked' = [blocked EXCEPT ![Platform[d]] =
                        Greatest(@, now + Least(delay, BlockCap))]
  /\ lost' = IF workers[w].pc = "taken" THEN lost \union {d} ELSE lost
  /\ UNCHANGED <<storeVars, process, batch, queue, disabled, accepted>>

(* Mutants: a refusal is taken for success; a retry gets a status of its own. *)
FinalStatusWithoutError(outcome) ==
  IF outcome \in {"ok", "refused"} THEN "sent" ELSE "pending"
FinalStatusOfRetry(outcome) ==
  CASE outcome = "ok" -> "sent" [] outcome = "refused" -> "failed" [] OTHER -> "retry"

FinalStatus(outcome) ==
  CASE outcome = "ok" -> "sent"
    [] outcome = "refused" -> "failed"
    [] OTHER -> "pending"

(* A handler knows, or is about to learn, of an accepted call that no finish
   has written yet; its end leaves the delivery without its result. *)
AnswerUnrecorded(w) ==
  \/ workers[w].pc = "taken"
  \/ workers[w].pc = "ended" /\ workers[w].outcome = "ok"

LostWith(w) == IF AnswerUnrecorded(w) THEN lost \union {workers[w].job} ELSE lost

(* Mutant: _record runs whether or not finish wrote. *)
FinishUnchecked(w) ==
  LET d == workers[w].job  o == workers[w].outcome IN
  /\ workers[w].pc = "ended"
  /\ rows' = Finished(w, d, FinalStatus(o), workers[w].delay)
  /\ workers' = [workers EXCEPT ![w] = [@ EXCEPT !.pc = "recording", !.beating = FALSE,
                                                 !.beatAt = 0]]
  /\ lost' = IF Holds(w, d) THEN lost ELSE LostWith(w)
  /\ UNCHANGED <<now, lastId, process, batch, blocked, queue, disabled, accepted, faults>>

(* finish, which writes nothing for a handler that lost its lease; then _record
   if it wrote, otherwise the handler returns. *)
Finish(w) ==
  LET d == workers[w].job  o == workers[w].outcome IN
  /\ workers[w].pc = "ended"
  /\ rows' = Finished(w, d, FinalStatus(o), workers[w].delay)
  /\ workers' = [workers EXCEPT ![w] =
                   IF Holds(w, d) THEN [@ EXCEPT !.pc = "recording", !.beating = FALSE,
                                                 !.beatAt = 0]
                                  ELSE IdleWorker]
  /\ lost' = IF Holds(w, d) THEN lost ELSE LostWith(w)
  /\ UNCHANGED <<now, lastId, process, batch, blocked, queue, disabled, accepted, faults>>

(* SQLite refuses the write: the exception leaves _process, the message is put
   back and the lease stays. *)
FinishFails(w) ==
  /\ workers[w].pc = "ended"
  /\ Fault
  /\ workers' = [workers EXCEPT ![w] = IdleWorker]
  /\ queue' = Requeued({w})
  /\ lost' = LostWith(w)
  /\ UNCHANGED <<storeVars, process, batch, blocked, disabled, accepted>>

(* _record: a permanent error that says the user cannot be reached switches
   the user's notifications off.  A cancellation waits for it to end, and then
   puts the message back. *)
Record(w) ==
  /\ workers[w].pc = "recording"
  /\ \/ /\ workers[w].outcome = "refused"
        /\ disabled' = disabled \union {PeerOf(workers[w].job)}
     \/ UNCHANGED disabled
  /\ \/ UNCHANGED queue
     \/ process = "stopping" /\ queue' = Requeued({w})
  /\ workers' = [workers EXCEPT ![w] = IdleWorker]
  /\ UNCHANGED <<storeVars, process, batch, blocked, historyVars, faults>>

-----------------------------------------------------------------------------
(* The process *)

(* stop: no new work; the pump may end its pass before it is cancelled, and the
   tasks are cancelled one by one below. *)
Stop ==
  /\ process = "up"
  /\ Fault
  /\ process' = "stopping"
  /\ UNCHANGED <<storeVars, batch, blocked, queue, workers, disabled, historyVars>>

(* A handler is cancelled: its lease is released (shielded), unless SQLite
   fails.  One cancelled inside claim may have committed it without ever
   reaching the try block that releases it; one cancelled inside finish may
   have committed that, and _record is skipped. *)
Cancel(w) ==
  LET d == workers[w].job IN
  /\ process = "stopping"
  /\ workers[w].pc \in {"admitted", "sending", "taken", "ended"}
  /\ workers' = [workers EXCEPT ![w] = IdleWorker]
  /\ queue' = Requeued({w})
  /\ \/ /\ NoFault
        /\ rows' = IF workers[w].pc = "admitted" THEN rows ELSE Released(w, d)
        /\ lost' = LostWith(w)
     \/ /\ Fault
        /\ rows' = IF workers[w].pc = "admitted" THEN Claimed(w, d) ELSE rows
        /\ lost' = LostWith(w)
     \/ /\ NoFault
        /\ workers[w].pc = "ended"
        /\ rows' = Finished(w, d, FinalStatus(workers[w].outcome), workers[w].delay)
        /\ lost' = IF Holds(w, d) THEN lost ELSE LostWith(w)
  /\ UNCHANGED <<now, lastId, process, batch, blocked, disabled, accepted>>

NoProcess ==
  /\ process' = "down"
  /\ batch' = {}
  /\ blocked' = [p \in Platforms |-> 0]
  /\ UNCHANGED <<storeVars, disabled, accepted>>

Stopped ==
  /\ process = "stopping"
  /\ \A w \in Workers : Idle(w)
  /\ NoProcess
  /\ UNCHANGED <<queue, workers, lost, faults>>

Crash ==
  /\ process # "down"
  /\ Fault
  /\ NoProcess
  /\ workers' = [w \in Workers |-> IdleWorker]
  /\ queue' = Requeued(Workers)
  /\ lost' = lost \union {workers[w].job : w \in {v \in Workers : AnswerUnrecorded(v)}}

Start ==
  /\ process = "down"
  /\ process' = "up"
  /\ UNCHANGED <<storeVars, batch, blocked, queue, workers, disabled, historyVars, faults>>

(***************************************************************************)
(* The clock.  asyncio fires a timer that is due before time goes on: the  *)
(* call's timeout and the heartbeat.  Once faults are over the API answers *)
(* and SQLite writes within a tick.                                        *)
(***************************************************************************)
Tick ==
  /\ now < MaxTime
  /\ \A w \in Workers : /\ Calling(w) => now < workers[w].deadline
                        /\ workers[w].beating => now < workers[w].beatAt
                        /\ InSemaphore(w) => now <= FaultsUntil
  /\ now' = now + 1
  /\ UNCHANGED <<rows, lastId, process, batch, blocked, queue, workers,
                 disabled, historyVars, faults>>

-----------------------------------------------------------------------------
Pump ==
  \/ \E p \in Platforms : PumpReserve(p)
  \/ \E d \in Deliveries : PumpPublish(d) \/ PumpPublishFails(d) \/ PumpSpawn(d)
  \/ PumpPurge

Broker ==
  \/ \E w \in Workers, d \in Deliveries : Consume(w, d)
  \/ \E d \in Deliveries : Discard(d)
  \/ ConnectionLost

Handler(w) ==
  \/ Claim(w) \/ Heartbeat(w) \/ HeartbeatDies(w)
  \/ ApiAccepts(w) \/ ApiAnswers(w) \/ ApiRefuses(w) \/ CallBreaks(w)
  \/ Finish(w) \/ FinishFails(w) \/ Record(w) \/ Cancel(w)

Next ==
  \/ \E b \in Batches : Enqueue(b)
  \/ Pump
  \/ Broker
  \/ \E w \in Workers : Handler(w)
  \/ Stop \/ Stopped \/ Crash \/ Start
  \/ Tick

(***************************************************************************)
(* Fairness: asyncio runs every ready task, a supervised process is        *)
(* started again, RabbitMQ delivers what it stores, time goes on.  Faults, *)
(* refusals and the producers owe nothing.                                 *)
(***************************************************************************)
PumpWorks ==
  \/ \E p \in Platforms : PumpReserve(p)
  \/ \E d \in Deliveries : PumpPublish(d) \/ PumpSpawn(d)

(* A handler is one coroutine: one of its steps is next. *)
HandlerWorks(w) ==
  \/ Claim(w) \/ Heartbeat(w) \/ ApiAccepts(w) \/ ApiRefuses(w) \/ ApiAnswers(w)
  \/ Finish(w) \/ Record(w) \/ Cancel(w)

Fairness ==
  /\ WF_vars(PumpWorks)
  /\ WF_vars(\E w \in Workers, d \in Deliveries : Consume(w, d))
  /\ \A w \in Workers : WF_vars(HandlerWorks(w))
  /\ WF_vars(Stopped \/ Start)
  /\ WF_vars(Tick)

Spec == Init /\ [][Next]_vars
FairSpec == Spec /\ Fairness
-----------------------------------------------------------------------------
(* Properties *)

\* The variables have their types (delivery_outbox.py, outbox_store.py).
TypeOK ==
  /\ now \in Nat
  /\ rows \in [Deliveries -> Row]
  /\ lastId \in Nat
  /\ process \in {"up", "stopping", "down"}
  /\ batch \subseteq Deliveries
  /\ blocked \in [Platforms -> Nat]
  /\ queue \in [Deliveries -> Nat]
  /\ workers \in [Workers -> Worker]
  /\ \A w \in Workers : Idle(w) <=> workers[w].job = "none"
  /\ disabled \subseteq Dialogues
  /\ accepted \in [Deliveries -> 0..2]
  /\ lost \subseteq Deliveries
  /\ faults \in Nat

\* README.md:277: a failure before the acknowledgement, a redelivered ID or a
\* fallback beside the broker never has two API calls open for one delivery.
OneActiveHandler ==
  \A v, w \in Workers :
    Calling(v) /\ Calling(w) /\ workers[v].job = workers[w].job => v = w

\* While a call is open every earlier message of the dialogue is settled, and
\* once the API took a message nothing that precedes it is sent any more: the
\* NOT EXISTS of claim keeps a dialogue in order across retries and crashes.
DialogueInOrder ==
  \A d \in Deliveries :
    accepted[d] > 0 \/ (\E w \in Workers : Calling(w) /\ workers[w].job = d)
      => \A e \in Before(rows, d) : ~Active(e)

\* finish: "sent" is only written after the API took the message.
SentWasAccepted ==
  \A d \in Deliveries : rows[d].status = "sent" => accepted[d] > 0

\* A message is delivered twice only when the outcome of an accepted call was
\* lost: a broken answer, a store error, a cancellation, a crash, or a handler
\* that still has to find out that its lease is gone.
DuplicateOnlyAfterLoss ==
  \A d \in Deliveries :
    accepted[d] = 2 =>
      \/ d \in lost
      \/ \E w \in Workers : /\ workers[w].pc = "ended"
                            /\ workers[w].outcome = "ok"
                            /\ workers[w].job = d
                            /\ ~Holds(w, d)

\* A settled job stays as it is until it is purged, and the API never gets it
\* again, whatever stale handlers, queued copies and restarts do.
SettledIsFinal ==
  [][\A d \in Deliveries : Settled(d) =>
       \/ rows'[d].status = rows[d].status /\ accepted'[d] = accepted[d]
       \/ rows'[d].status = "absent"]_vars

\* _record: notifications are switched off only by a handler whose own delivery is
\* recorded as failed (or was purged since), never by one whose result was discarded.
DisabledByFailure ==
  [][\A p \in disabled' \ disabled :
       \E w \in Workers :
         /\ workers[w].pc = "recording" /\ PeerOf(workers[w].job) = p
         /\ rows[workers[w].job].status \in {"failed", "absent"}]_vars

(* A row as its producer sees it: who holds it does not matter. *)
Promised(d) ==
  CASE rows[d].status = "absent" -> "none"
    [] Active(d) -> "waiting"
    [] OTHER -> rows[d].status

Promise == INSTANCE DeliveryPromise WITH
  Dialogue <- [d \in Deliveries |-> PeerOf(d)],
  state <- [d \in Deliveries |-> Promised(d)],
  place <- [d \in Deliveries |-> rows[d].id],
  taken <- accepted

\* The service keeps the promise of DeliveryPromise: whatever is retried,
\* redelivered or restarted, a dialogue looks to its producers like a queue
\* whose messages are taken in turn (README.md:260-285).
PromiseKept == Promise!PromiseSpec

\* Every job ends as sent, failed or expired (or is purged): no copy of an ID,
\* lease, pause or restart leaves it, or the dialogue behind it, waiting.
EventuallySettled ==
  \A d \in Deliveries : Active(d) ~> ~Active(d)

\* A job whose time does not run out is in the end sent or refused: losing
\* messages, publications, leases and processes only delays it.
EventuallyDelivered ==
  \A d \in Deliveries :
    Active(d) /\ rows[d].expires > MaxTime ~> rows[d].status \in {"sent", "failed"}
=============================================================================
