------------------------ MODULE DeliveryOutbox_proofs ------------------------
(***************************************************************************)
(* Theorems about DeliveryOutbox for any deliveries, dialogues, workers,   *)
(* times and bounds: the types of its state; one handler per delivery, the *)
(* order of a dialogue and what is settled; what the recorded results say  *)
(* about the calls the API accepted; and that it implements                *)
(* DeliveryPromise, step by step: what pump, broker, handlers, crashes and *)
(* restarts do to a dialogue is one of the promise's steps or nothing its  *)
(* producers can see.                                                      *)
(*                                                                         *)
(* RowSteps says once what a step may do to a row; the invariants only     *)
(* look at those cases.                                                    *)
(***************************************************************************)
EXTENDS DeliveryOutbox, TLAPS

-----------------------------------------------------------------------------
(* The table's operations *)

(* Every transaction leaves a table. *)
LEMMA EnqueueType ==
  ASSUME TypeOK, NEW b \in Batches
  PROVE  /\ EnqueueMany(b) \in [Deliveries -> Row]
         /\ Len(b) \in Nat
         /\ \A d \in Inserted(b) : Position(b, d) \in DOMAIN b /\ b[Position(b, d)] = d
<1>1. b \in Seq(Deliveries)
  BY OutboxAssumption
<1>2. Len(b) \in Nat /\ DOMAIN b = 1..Len(b)
  BY <1>1
<1>3. ASSUME NEW d \in Inserted(b)
      PROVE  Position(b, d) \in DOMAIN b /\ b[Position(b, d)] = d
  <2>1. PICK i \in DOMAIN b : b[i] = d
    BY <1>3 DEF Inserted
  <2>2. QED BY <2>1 DEF Position
<1>4. ASSUME NEW d \in Deliveries
      PROVE  EnqueueMany(b)[d] \in Row
  <2>1. CASE d \in Inserted(b)
    <3>1. lastId + Position(b, d) \in Nat
      BY <2>1, <1>2, <1>3 DEF TypeOK
    <3>2. now + Ttl[d] \in Nat
      BY StoreAssumption DEF TypeOK
    <3>3. QED BY <2>1, <3>1, <3>2 DEF EnqueueMany, NoRow, Row, ActiveStatus, TypeOK
  <2>2. CASE d \notin Inserted(b)
    BY <2>2 DEF EnqueueMany, TypeOK
  <2>3. QED BY <2>1, <2>2
<1>5. EnqueueMany(b) \in [Deliveries -> Row]
  BY <1>4 DEF EnqueueMany
<1>6. QED BY <1>2, <1>3, <1>5

LEMMA ExpiredType == TypeOK => Expired \in [Deliveries -> Row]
<1>. SUFFICES ASSUME TypeOK PROVE Expired \in [Deliveries -> Row]
  OBVIOUS
<1>1. ASSUME NEW r \in Row
      PROVE  [r EXCEPT !.status = "expired", !.token = NoWorker, !.leaseUntil = 0] \in Row
  BY DEF Row, TerminalStatus
<1>2. rows \in [Deliveries -> Row]
  BY DEF TypeOK
<1>3. QED BY <1>1, <1>2 DEF Expired

LEMMA ReservedType ==
  ASSUME TypeOK, NEW p \in Platforms
  PROVE  Reserved(p) \in [Deliveries -> Row]
<1>1. Expired \in [Deliveries -> Row] /\ now + RepublishAfter \in Nat
  BY ExpiredType, StoreAssumption DEF TypeOK
<1>2. ASSUME NEW d \in Deliveries
      PROVE  [Expired[d] EXCEPT !.nextPublish = now + RepublishAfter] \in Row
  BY <1>1 DEF Row
<1>3. QED BY <1>1, <1>2 DEF Reserved

LEMMA ClaimedType ==
  ASSUME TypeOK, NEW w \in Workers, NEW d \in Deliveries
  PROVE  Claimed(w, d) \in [Deliveries -> Row]
<1>1. Expired \in [Deliveries -> Row] /\ now + Lease \in Nat
  BY ExpiredType, StoreAssumption DEF TypeOK
<1>2. [Expired[d] EXCEPT !.status = "processing", !.token = w,
                         !.leaseUntil = now + Lease] \in Row
  BY <1>1 DEF Row, ActiveStatus
<1>3. QED BY <1>1, <1>2 DEF Claimed

LEMMA RenewedType ==
  ASSUME TypeOK, NEW w \in Workers, NEW d \in Deliveries
  PROVE  Renewed(w, d) \in [Deliveries -> Row]
<1>1. rows \in [Deliveries -> Row] /\ now + Lease \in Nat
  BY StoreAssumption DEF TypeOK
<1>2. [rows[d] EXCEPT !.leaseUntil = now + Lease] \in Row
  BY <1>1 DEF Row
<1>3. QED BY <1>1, <1>2 DEF Renewed

LEMMA FinishedType ==
  ASSUME TypeOK, NEW w \in Workers, NEW d \in Deliveries,
         NEW status \in ActiveStatus \union TerminalStatus, NEW delay \in Nat
  PROVE  Finished(w, d, status, delay) \in [Deliveries -> Row]
<1>1. rows \in [Deliveries -> Row] /\ now + delay \in Nat
  BY DEF TypeOK
<1>2. [rows[d] EXCEPT !.status = status, !.nextAttempt = now + delay, !.nextPublish = 0,
                      !.token = NoWorker, !.leaseUntil = 0] \in Row
  BY <1>1 DEF Row
<1>3. QED BY <1>1, <1>2 DEF Finished

LEMMA ReleasedType ==
  ASSUME TypeOK, NEW w \in Workers, NEW d \in Deliveries
  PROVE  Released(w, d) \in [Deliveries -> Row]
<1>1. rows \in [Deliveries -> Row]
  BY DEF TypeOK
<1>2. [rows[d] EXCEPT !.status = "pending", !.nextPublish = 0,
                      !.token = NoWorker, !.leaseUntil = 0] \in Row
  BY <1>1 DEF Row, ActiveStatus
<1>3. QED BY <1>1, <1>2 DEF Released

LEMMA PurgedType == TypeOK => Purged \in [Deliveries -> Row]
  BY DEF TypeOK, Purged, Row, NoRow

-----------------------------------------------------------------------------
(* Types *)

WorkersOK ==
  /\ workers \in [Workers -> Worker]
  /\ \A w \in Workers : Idle(w) <=> workers[w].job = "none"

LEMMA IdleWorkerType == IdleWorker \in Worker
  BY DEF IdleWorker, Worker, Outcomes

(* A busy invocation has a job. *)
LEMMA JobType ==
  ASSUME TypeOK, NEW w \in Workers
  PROVE  /\ workers[w] \in Worker
         /\ ~Idle(w) => /\ workers[w].job \in Deliveries
                        /\ Platform[workers[w].job] \in Platforms
<1>1. workers[w] \in Worker /\ (~Idle(w) => workers[w].job # "none")
  BY DEF TypeOK
<1>2. ~Idle(w) => workers[w].job \in Deliveries
  BY <1>1 DEF Worker
<1>3. QED BY <1>1, <1>2 DEF Platforms

LEMMA SetWorker ==
  ASSUME TypeOK, NEW w \in Workers, NEW r \in Worker,
         r.pc = "idle" <=> r.job = "none",
         workers' = [workers EXCEPT ![w] = r]
  PROVE  WorkersOK'
<1>1. workers \in [Workers -> Worker]
  BY DEF TypeOK
<1>2. workers' \in [Workers -> Worker]
  BY <1>1
<1>3. ASSUME NEW v \in Workers
      PROVE  Idle(v)' <=> workers'[v].job = "none"
  BY <1>1 DEF TypeOK, Idle
<1>4. QED BY <1>2, <1>3 DEF WorkersOK

(* What a spawned or consumed ID does to the invocations. *)
LEMMA AdmitType ==
  ASSUME TypeOK, NEW w \in Workers, NEW d \in Deliveries,
         NEW via \in {"queue", "lost", "local"}, workers' = Admit(w, d, via)
  PROVE  WorkersOK'
<1>. DEFINE r == [IdleWorker EXCEPT !.pc = "admitted", !.job = d, !.via = via]
<1>1. r \in Worker
  BY IdleWorkerType DEF Worker
<1>2. r.pc = "admitted" /\ r.job = d
  BY IdleWorkerType DEF Worker
<1>3. r.job # "none"
  BY <1>2, OutboxAssumption
<1>4. workers' = [workers EXCEPT ![w] = r]
  BY DEF Admit
<1>. HIDE DEF r
<1>5. QED BY <1>1, <1>2, <1>3, <1>4, SetWorker

LEMMA SpawnType ==
  ASSUME TypeOK, NEW d \in Deliveries, Spawn(d)
  PROVE  WorkersOK'
<1>1. CASE UNCHANGED workers
  BY <1>1 DEF TypeOK, WorkersOK, Idle
<1>2. CASE \E w \in Workers : workers' = Admit(w, d, "local")
  BY <1>2, AdmitType
<1>3. QED BY <1>1, <1>2 DEF Spawn

LEMMA EnqueuedType ==
  ASSUME TypeOK, NEW d \in Deliveries
  PROVE  Enqueued(d) \in [Deliveries -> Nat]
<1>1. MaxCopies \in Nat
  BY OutboxAssumption
<1>2. QED BY <1>1 DEF TypeOK, Enqueued, Least

LEMMA RequeuedType ==
  ASSUME TypeOK, NEW ws \in SUBSET Workers
  PROVE  Requeued(ws) \in [Deliveries -> Nat]
<1>1. MaxCopies \in Nat
  BY OutboxAssumption
<1>2. QED BY <1>1 DEF TypeOK, Requeued, Least

LEMMA CallEndsType ==
  ASSUME TypeOK, NEW w \in Workers, ~Idle(w),
         NEW outcome \in Outcomes, NEW delay \in Nat,
         workers' = CallEnds(w, outcome, delay)
  PROVE  WorkersOK'
<1>. DEFINE r == [workers[w] EXCEPT !.pc = "ended", !.outcome = outcome,
                                    !.delay = delay, !.deadline = 0]
<1>1. workers[w] \in Worker /\ workers[w].job # "none"
  BY DEF TypeOK
<1>2. r \in Worker /\ r.pc = "ended" /\ r.job = workers[w].job
  BY <1>1 DEF Worker
<1>3. workers' = [workers EXCEPT ![w] = r]
  BY DEF CallEnds, TypeOK
<1>. HIDE DEF r
<1>4. QED BY <1>1, <1>2, <1>3, SetWorker

LEMMA LostWithType ==
  ASSUME TypeOK, NEW w \in Workers, ~Idle(w)
  PROVE  LostWith(w) \subseteq Deliveries
  BY JobType DEF TypeOK, LostWith

LEMMA TypeInit == Init => TypeOK
<1>. SUFFICES ASSUME Init PROVE TypeOK
  OBVIOUS
<1>1. rows \in [Deliveries -> Row]
  BY DEF Init, NoRow, Row
<1>2. workers \in [Workers -> Worker]
  BY IdleWorkerType DEF Init
<1>3. \A w \in Workers : Idle(w) <=> workers[w].job = "none"
  BY DEF Init, IdleWorker, Idle
<1>4. QED BY <1>1, <1>2, <1>3 DEF Init, TypeOK

LEMMA TypePump ==
  ASSUME TypeOK, Pump PROVE TypeOK'
<1>1. ASSUME NEW p \in Platforms, PumpReserve(p) PROVE TypeOK'
  <2>1. rows' \in [Deliveries -> Row] /\ batch' \subseteq Deliveries
    BY <1>1, ReservedType DEF PumpReserve, Due
  <2>2. QED BY <1>1, <2>1 DEF PumpReserve, TypeOK, Idle, historyVars
<1>2. ASSUME NEW d \in Deliveries, PumpPublish(d) PROVE TypeOK'
  <2>1. queue' \in [Deliveries -> Nat]
    BY <1>2, EnqueuedType DEF PumpPublish
  <2>2. QED BY <1>2, <2>1 DEF PumpPublish, TypeOK, Idle, historyVars, storeVars
<1>3. ASSUME NEW d \in Deliveries, PumpPublishFails(d) PROVE TypeOK'
  <2>1. queue' \in [Deliveries -> Nat]
    BY <1>3, EnqueuedType DEF PumpPublishFails, TypeOK
  <2>2. WorkersOK'
    BY <1>3, SpawnType DEF PumpPublishFails
  <2>3. QED BY <1>3, <2>1, <2>2 DEF PumpPublishFails, TypeOK, WorkersOK, Idle, historyVars, storeVars, Fault
<1>4. ASSUME NEW d \in Deliveries, PumpSpawn(d) PROVE TypeOK'
  <2>1. WorkersOK'
    BY <1>4, SpawnType DEF PumpSpawn
  <2>2. QED BY <1>4, <2>1 DEF PumpSpawn, TypeOK, WorkersOK, Idle, historyVars, storeVars
<1>5. ASSUME PumpPurge PROVE TypeOK'
  <2>1. rows' \in [Deliveries -> Row]
    BY <1>5, PurgedType DEF PumpPurge
  <2>2. QED BY <1>5, <2>1 DEF PumpPurge, TypeOK, Idle
<1>6. QED BY <1>1, <1>2, <1>3, <1>4, <1>5 DEF Pump

LEMMA TypeBroker ==
  ASSUME TypeOK, Broker PROVE TypeOK'
<1>1. ASSUME NEW w \in Workers, NEW d \in Deliveries, Consume(w, d) PROVE TypeOK'
  <2>1. WorkersOK'
    BY <1>1, AdmitType DEF Consume
  <2>2. queue' \in [Deliveries -> Nat]
    BY <1>1 DEF Consume, TypeOK
  <2>3. QED BY <1>1, <2>1, <2>2 DEF Consume, TypeOK, WorkersOK, Idle, historyVars, storeVars
<1>2. ASSUME NEW d \in Deliveries, Discard(d) PROVE TypeOK'
  <2>1. queue' \in [Deliveries -> Nat]
    BY <1>2 DEF Discard, TypeOK
  <2>2. QED BY <1>2, <2>1 DEF Discard, TypeOK, Idle, historyVars, storeVars
<1>3. ASSUME ConnectionLost PROVE TypeOK'
  <2>1. queue' \in [Deliveries -> Nat]
    BY <1>3, RequeuedType DEF ConnectionLost
  <2>2. ASSUME NEW w \in Workers
        PROVE  /\ workers'[w] \in Worker
               /\ workers'[w].pc = workers[w].pc
               /\ workers'[w].job = workers[w].job
    <3>1. workers[w] \in Worker
      BY DEF TypeOK
    <3>2. [workers[w] EXCEPT !.via = "lost"] \in Worker
      BY <3>1 DEF Worker
    <3>3. QED BY <1>3, <3>1, <3>2 DEF ConnectionLost, Worker
  <2>3. WorkersOK'
    BY <1>3, <2>2 DEF ConnectionLost, WorkersOK, TypeOK, Idle
  <2>4. QED BY <1>3, <2>1, <2>3 DEF ConnectionLost, TypeOK, WorkersOK, Idle, historyVars, storeVars, Fault
<1>4. QED BY <1>1, <1>2, <1>3 DEF Broker

(* A handler goes away. *)
LEMMA RetireType ==
  ASSUME TypeOK, NEW w \in Workers, workers' = [workers EXCEPT ![w] = IdleWorker]
  PROVE  WorkersOK'
<1>1. IdleWorker.pc = "idle" /\ IdleWorker.job = "none"
  BY DEF IdleWorker
<1>2. QED BY <1>1, IdleWorkerType, SetWorker

LEMMA TypeCall ==
  ASSUME TypeOK, NEW w \in Workers,
         Claim(w) \/ Heartbeat(w) \/ HeartbeatDies(w) \/ ApiAccepts(w) \/ ApiAnswers(w)
  PROVE  TypeOK'
<1>. DEFINE d == workers[w].job
<1>1. CASE Claim(w)
  <2>1. d \in Deliveries
    BY <1>1, JobType DEF Claim, Idle
  <2>2. rows' \in [Deliveries -> Row]
    BY <1>1, <2>1, ClaimedType DEF Claim
  <2>. DEFINE r == [workers[w] EXCEPT !.pc = "sending",
                       !.deadline = now + Least(CallTimeout[d], rows[d].expires - now),
                       !.beating = TRUE, !.beatAt = now + Beat]
  <2>3. WorkersOK'
    <3>1. CASE CanClaim(d)
      <4>1. rows[d].expires \in Nat /\ Expired[d].expires = rows[d].expires
        BY <2>1 DEF TypeOK, Row, Expired
      <4>2. rows[d].expires > now
        BY <3>1, <4>1 DEF CanClaim, Claimable
      <4>3. now + Least(CallTimeout[d], rows[d].expires - now) \in Nat
        <5>1. CallTimeout[d] \in Nat /\ now \in Nat
          BY <2>1, OutboxAssumption DEF TypeOK
        <5>2. Least(CallTimeout[d], rows[d].expires - now) \in Nat
          BY <4>1, <4>2, <5>1 DEF Least
        <5>3. QED BY <5>1, <5>2
      <4>4. now + Beat \in Nat
        BY OutboxAssumption DEF TypeOK
      <4>5. workers[w] \in Worker
        BY JobType
      <4>6. r \in Worker /\ r.pc = "sending" /\ r.job = d
        BY <4>3, <4>4, <4>5 DEF Worker
      <4>7. workers' = [workers EXCEPT ![w] = r]
        BY <1>1, <3>1 DEF Claim, TypeOK
      <4>8. d # "none"
        BY <2>1, OutboxAssumption
      <4>. HIDE DEF r
      <4>9. QED BY <4>6, <4>7, <4>8, SetWorker
    <3>2. CASE ~CanClaim(d)
      BY <1>1, <3>2, RetireType DEF Claim, TypeOK
    <3>3. QED BY <3>1, <3>2
  <2>4. QED BY <1>1, <2>2, <2>3 DEF Claim, TypeOK, WorkersOK, Idle, historyVars
<1>2. CASE Heartbeat(w)
  <2>1. d \in Deliveries \/ rows' = rows
    BY <1>2, JobType DEF Heartbeat, Idle, TypeOK, Holds, Renewed, Row
  <2>2. rows' \in [Deliveries -> Row]
    BY <1>2, <2>1, RenewedType DEF Heartbeat, TypeOK
  <2>3. workers[w] \in Worker /\ now + Beat \in Nat
    BY JobType, OutboxAssumption DEF TypeOK
  <2>4. PICK b \in BOOLEAN, t \in Nat :
               workers' = [workers EXCEPT ![w] = [workers[w] EXCEPT !.beating = b, !.beatAt = t]]
    <3>1. CASE Holds(w, d)
      <4>1. [workers[w] EXCEPT !.beatAt = now + Beat]
              = [workers[w] EXCEPT !.beating = TRUE, !.beatAt = now + Beat]
        BY <1>2, <2>3 DEF Heartbeat, Worker
      <4>2. QED BY <1>2, <2>3, <3>1, <4>1 DEF Heartbeat, TypeOK
    <3>2. CASE ~Holds(w, d)
      BY <1>2, <3>2 DEF Heartbeat, TypeOK
    <3>3. QED BY <3>1, <3>2
  <2>. DEFINE r == [workers[w] EXCEPT !.beating = b, !.beatAt = t]
  <2>5. r \in Worker /\ r.pc = workers[w].pc /\ r.job = workers[w].job
    BY <2>3 DEF Worker
  <2>6. r.pc = "idle" <=> r.job = "none"
    BY <2>5 DEF TypeOK, Idle
  <2>7. WorkersOK'
    <3>. HIDE DEF r
    <3>1. workers' = [workers EXCEPT ![w] = r]
      BY <2>4 DEF r
    <3>2. QED BY <2>5, <2>6, <3>1, SetWorker
  <2>8. QED BY <1>2, <2>2, <2>7 DEF Heartbeat, TypeOK, WorkersOK, Idle, historyVars
<1>3. CASE HeartbeatDies(w)
  <2>. DEFINE r == [workers[w] EXCEPT !.beating = FALSE, !.beatAt = 0]
  <2>1. r \in Worker /\ r.pc = workers[w].pc /\ r.job = workers[w].job
    BY JobType DEF Worker
  <2>2. r.pc = "idle" <=> r.job = "none"
    BY <2>1 DEF TypeOK, Idle
  <2>3. workers' = [workers EXCEPT ![w] = r]
    BY <1>3 DEF HeartbeatDies, TypeOK
  <2>4. WorkersOK'
    <3>. HIDE DEF r
    <3>1. QED BY <2>1, <2>2, <2>3, SetWorker
  <2>5. QED BY <1>3, <2>4 DEF HeartbeatDies, TypeOK, WorkersOK, Idle, historyVars, storeVars, Fault
<1>4. CASE ApiAccepts(w)
  <2>. DEFINE r == [workers[w] EXCEPT !.pc = "taken"]
  <2>1. d \in Deliveries /\ d # "none"
    BY <1>4, JobType, OutboxAssumption DEF ApiAccepts, Idle
  <2>2. r \in Worker /\ r.pc = "taken" /\ r.job = d
    BY JobType DEF Worker
  <2>3. workers' = [workers EXCEPT ![w] = r]
    BY <1>4 DEF ApiAccepts, TypeOK
  <2>4. WorkersOK'
    <3>. HIDE DEF r
    <3>1. QED BY <2>1, <2>2, <2>3, SetWorker
  <2>5. accepted' \in [Deliveries -> 0..2]
    BY <1>4, <2>1 DEF ApiAccepts, TypeOK, Least
  <2>6. QED BY <1>4, <2>4, <2>5 DEF ApiAccepts, TypeOK, WorkersOK, Idle, storeVars
<1>5. CASE ApiAnswers(w)
  <2>1. WorkersOK'
    BY <1>5, CallEndsType DEF ApiAnswers, Idle, Outcomes
  <2>2. QED BY <1>5, <2>1 DEF ApiAnswers, TypeOK, WorkersOK, Idle, historyVars, storeVars
<1>6. QED BY <1>1, <1>2, <1>3, <1>4, <1>5

LEMMA FinalStatusType ==
  ASSUME NEW o \in Outcomes
  PROVE  FinalStatus(o) \in ActiveStatus \union TerminalStatus
  BY DEF FinalStatus, ActiveStatus, TerminalStatus, Outcomes

LEMMA TypeEnd ==
  ASSUME TypeOK, NEW w \in Workers,
         \/ ApiRefuses(w) \/ CallBreaks(w) \/ Finish(w) \/ FinishFails(w)
         \/ Record(w) \/ Cancel(w)
  PROVE  TypeOK'
<1>. DEFINE d == workers[w].job
<1>1. CASE ApiRefuses(w)
  <2>1. PICK o \in {"refused", "flooded"}, delay \in Nat : workers' = CallEnds(w, o, delay)
    BY <1>1, OutboxAssumption DEF ApiRefuses
  <2>2. WorkersOK'
    BY <1>1, <2>1, CallEndsType DEF ApiRefuses, Idle, Outcomes
  <2>3. faults' \in Nat
    BY <1>1 DEF ApiRefuses, Fault, NoFault, TypeOK
  <2>4. QED BY <1>1, <2>2, <2>3 DEF ApiRefuses, TypeOK, WorkersOK, Idle, historyVars, storeVars
<1>2. CASE CallBreaks(w)
  <2>1. ~Idle(w) /\ d \in Deliveries /\ Platform[d] \in Platforms
    BY <1>2, JobType DEF CallBreaks, Calling, Idle
  <2>2. PICK delay \in RetryDelays :
          /\ workers' = CallEnds(w, "broken", delay)
          /\ blocked' = [blocked EXCEPT ![Platform[d]] =
                           Greatest(@, now + Least(delay, BlockCap))]
    BY <1>2 DEF CallBreaks
  <2>3. delay \in Nat /\ BlockCap \in Nat
    BY <2>2, OutboxAssumption
  <2>4. WorkersOK'
    BY <2>1, <2>2, <2>3, CallEndsType DEF Outcomes
  <2>5. now + Least(delay, BlockCap) \in Nat
    BY <2>3 DEF TypeOK, Least
  <2>6. blocked' \in [Platforms -> Nat]
    BY <2>1, <2>2, <2>5 DEF TypeOK, Greatest
  <2>7. lost' \subseteq Deliveries /\ faults' \in Nat
    BY <1>2, <2>1 DEF CallBreaks, TypeOK, Fault, NoFault
  <2>8. QED BY <1>2, <2>4, <2>6, <2>7 DEF CallBreaks, TypeOK, WorkersOK, Idle, storeVars
<1>3. CASE Finish(w)
  <2>1. ~Idle(w) /\ d \in Deliveries /\ d # "none" /\ workers[w] \in Worker
    BY <1>3, JobType, OutboxAssumption DEF Finish, Idle
  <2>2. workers[w].outcome \in Outcomes /\ workers[w].delay \in Nat
    BY <2>1 DEF Worker
  <2>3. rows' \in [Deliveries -> Row]
    BY <1>3, <2>1, <2>2, FinishedType, FinalStatusType DEF Finish
  <2>. DEFINE r == [workers[w] EXCEPT !.pc = "recording", !.beating = FALSE, !.beatAt = 0]
  <2>4. r \in Worker /\ r.pc = "recording" /\ r.job = d
    BY <2>1 DEF Worker
  <2>5. CASE Holds(w, d)
    <3>1. workers' = [workers EXCEPT ![w] = r]
      BY <1>3, <2>5 DEF Finish, TypeOK
    <3>2. WorkersOK'
      <4>. HIDE DEF r
      <4>1. QED BY <2>1, <2>4, <3>1, SetWorker
    <3>3. QED BY <1>3, <2>3, <2>5, <3>2 DEF Finish, TypeOK, WorkersOK, Idle
  <2>6. CASE ~Holds(w, d)
    <3>1. WorkersOK'
      BY <1>3, <2>6, RetireType DEF Finish, TypeOK
    <3>2. lost' \subseteq Deliveries
      BY <1>3, <2>1, <2>6, LostWithType DEF Finish
    <3>3. QED BY <1>3, <2>3, <3>1, <3>2 DEF Finish, TypeOK, WorkersOK, Idle
  <2>7. QED BY <2>5, <2>6
<1>4. CASE FinishFails(w)
  <2>1. ~Idle(w)
    BY <1>4 DEF FinishFails, Idle
  <2>2. WorkersOK'
    BY <1>4, RetireType DEF FinishFails
  <2>3. queue' \in [Deliveries -> Nat]
    BY <1>4, RequeuedType DEF FinishFails
  <2>4. lost' \subseteq Deliveries
    BY <1>4, <2>1, LostWithType DEF FinishFails
  <2>5. faults' \in Nat
    BY <1>4 DEF FinishFails, Fault, TypeOK
  <2>6. QED BY <1>4, <2>2, <2>3, <2>4, <2>5 DEF FinishFails, TypeOK, WorkersOK, Idle, storeVars
<1>5. CASE Record(w)
  <2>1. d \in Deliveries
    BY <1>5, JobType DEF Record, Idle
  <2>2. WorkersOK'
    BY <1>5, RetireType DEF Record
  <2>3. disabled' \subseteq Dialogues
    BY <1>5, <2>1 DEF Record, TypeOK, Dialogues
  <2>4. queue' \in [Deliveries -> Nat]
    BY <1>5, RequeuedType DEF Record, TypeOK
  <2>5. QED BY <1>5, <2>2, <2>3, <2>4 DEF Record, TypeOK, WorkersOK, Idle, historyVars, storeVars
<1>6. CASE Cancel(w)
  <2>1. ~Idle(w) /\ d \in Deliveries /\ workers[w] \in Worker
    BY <1>6, JobType DEF Cancel, Idle
  <2>2. WorkersOK'
    BY <1>6, RetireType DEF Cancel
  <2>3. queue' \in [Deliveries -> Nat]
    BY <1>6, RequeuedType DEF Cancel
  <2>4. lost' \subseteq Deliveries
    <3>1. LostWith(w) \subseteq Deliveries /\ lost \subseteq Deliveries
      BY <2>1, LostWithType DEF TypeOK
    <3>2. lost' = LostWith(w) \/ lost' = lost
      BY <1>6 DEF Cancel
    <3>3. QED BY <3>1, <3>2
  <2>5. rows' \in [Deliveries -> Row]
    <3>1. workers[w].outcome \in Outcomes /\ workers[w].delay \in Nat
      BY <2>1 DEF Worker
    <3>2. /\ rows \in [Deliveries -> Row]
          /\ Released(w, d) \in [Deliveries -> Row]
          /\ Claimed(w, d) \in [Deliveries -> Row]
          /\ Finished(w, d, FinalStatus(workers[w].outcome), workers[w].delay)
               \in [Deliveries -> Row]
      BY <2>1, <3>1, ReleasedType, ClaimedType, FinishedType, FinalStatusType DEF TypeOK
    <3>3. QED BY <1>6, <3>2 DEF Cancel
  <2>6. faults' \in Nat
    BY <1>6 DEF Cancel, Fault, NoFault, TypeOK
  <2>7. QED BY <1>6, <2>2, <2>3, <2>4, <2>5, <2>6 DEF Cancel, TypeOK, WorkersOK, Idle
<1>7. QED BY <1>1, <1>2, <1>3, <1>4, <1>5, <1>6

LEMMA TypeProcess ==
  ASSUME TypeOK, Stop \/ Stopped \/ Crash \/ Start \/ Tick
  PROVE  TypeOK'
<1>1. CASE Stop
  BY <1>1 DEF Stop, TypeOK, Idle, historyVars, storeVars, Fault
<1>2. CASE Stopped
  BY <1>2 DEF Stopped, NoProcess, TypeOK, Idle, storeVars
<1>3. CASE Crash
  <2>1. queue' \in [Deliveries -> Nat]
    BY <1>3, RequeuedType DEF Crash
  <2>2. lost' \subseteq Deliveries
    <3>. DEFINE ws == {v \in Workers : AnswerUnrecorded(v)}
    <3>1. \A v \in ws : workers[v].job \in Deliveries
      BY JobType DEF AnswerUnrecorded, Idle
    <3>2. lost' = lost \union {workers[v].job : v \in ws}
      BY <1>3 DEF Crash
    <3>. HIDE DEF ws
    <3>3. QED BY <3>1, <3>2 DEF TypeOK
  <2>3. WorkersOK'
    <3>1. workers' \in [Workers -> Worker]
      BY <1>3, IdleWorkerType DEF Crash
    <3>2. \A w \in Workers : workers'[w].pc = "idle" /\ workers'[w].job = "none"
      BY <1>3 DEF Crash, IdleWorker
    <3>3. QED BY <3>1, <3>2 DEF WorkersOK, Idle
  <2>4. QED BY <1>3, <2>1, <2>2, <2>3 DEF Crash, NoProcess, Fault, TypeOK, WorkersOK, Idle, storeVars
<1>4. CASE Start
  BY <1>4 DEF Start, TypeOK, Idle, historyVars, storeVars
<1>5. CASE Tick
  BY <1>5 DEF Tick, TypeOK, Idle, historyVars
<1>6. QED BY <1>1, <1>2, <1>3, <1>4, <1>5

LEMMA TypeStep == TypeOK /\ [Next]_vars => TypeOK'
<1>. SUFFICES ASSUME TypeOK, [Next]_vars PROVE TypeOK'
  OBVIOUS
<1>1. ASSUME NEW b \in Batches, Enqueue(b) PROVE TypeOK'
  <2>1. rows' \in [Deliveries -> Row] /\ lastId' \in Nat
    BY <1>1, EnqueueType DEF Enqueue, TypeOK
  <2>2. QED BY <1>1, <2>1 DEF Enqueue, TypeOK, Idle, historyVars
<1>2. CASE Pump
  BY <1>2, TypePump
<1>3. CASE Broker
  BY <1>3, TypeBroker
<1>4. ASSUME NEW w \in Workers, Handler(w) PROVE TypeOK'
  BY <1>4, TypeCall, TypeEnd DEF Handler
<1>5. CASE Stop \/ Stopped \/ Crash \/ Start \/ Tick
  BY <1>5, TypeProcess
<1>6. CASE UNCHANGED vars
  BY <1>6 DEF vars, TypeOK, Idle
<1>7. QED BY <1>1, <1>2, <1>3, <1>4, <1>5, <1>6 DEF Next

\* The variables keep their types, whatever the parameters (delivery_outbox.py,
\* outbox_store.py).
THEOREM TypeCorrect == Spec => []TypeOK
  BY TypeInit, TypeStep, PTL DEF Spec

-----------------------------------------------------------------------------
(* What a step does to one row *)

SameIdentity(d) ==
  rows'[d].id = rows[d].id /\ rows'[d].expires = rows[d].expires

RowKept(d) ==
  /\ SameIdentity(d)
  /\ rows'[d].status = rows[d].status
  /\ rows'[d].token = rows[d].token
  /\ rows'[d].leaseUntil = rows[d].leaseUntil

RowInserted(d) ==
  /\ now <= EnqueueUntil
  /\ rows[d].status = "absent"
  /\ rows'[d].status = "pending"
  /\ lastId < rows'[d].id /\ rows'[d].id <= lastId'
  /\ rows'[d].leaseUntil = 0
  /\ UNCHANGED <<workers, accepted>>

RowExpired(d) ==
  /\ SameIdentity(d)
  /\ Active(d) /\ rows[d].leaseUntil <= now
  /\ rows'[d].status = "expired"
  /\ rows'[d].leaseUntil = 0

(* No row that came before d in its dialogue is active, in a table t. *)
AtHead(t, d) == \A e \in Before(t, d) : t[e].status \notin ActiveStatus

RowClaimed(d) ==
  /\ SameIdentity(d)
  /\ AtHead(rows', d)
  /\ Active(d) /\ rows[d].leaseUntil <= now
  /\ rows'[d].status = "processing"
  /\ rows'[d].leaseUntil = now + Lease
  /\ \E w \in Workers : /\ workers[w].pc = "admitted"
                        /\ workers[w].job = d
                        /\ rows'[d].token = w

RowRenewed(d) ==
  /\ SameIdentity(d)
  /\ rows[d].status = "processing" /\ rows'[d].status = "processing"
  /\ rows'[d].token = rows[d].token
  /\ rows'[d].leaseUntil = now + Lease

(* The holder of the lease gives it up. *)
RowLeft(d) ==
  /\ SameIdentity(d)
  /\ rows'[d].leaseUntil = 0
  /\ \E w \in Workers :
       /\ Holds(w, d)
       /\ workers[w].job = d
       /\ workers'[w].pc \in {"idle", "recording"}
       /\ \/ rows'[d].status = "pending"
          \/ /\ workers[w].pc = "ended"
             /\ rows'[d].status = FinalStatus(workers[w].outcome)
  /\ UNCHANGED accepted

RowPurged(d) ==
  /\ Retention < now
  /\ rows[d].leaseUntil <= now
  /\ rows'[d].status = "absent"
  /\ rows'[d].id = 0
  /\ rows'[d].leaseUntil = 0
  /\ accepted'[d] = 0
  /\ UNCHANGED workers

RowStep(d) ==
  \/ RowKept(d) \/ RowInserted(d) \/ RowExpired(d) \/ RowClaimed(d)
  \/ RowRenewed(d) \/ RowLeft(d) \/ RowPurged(d)

(* The prelude of reserve_due and claim. *)
LEMMA ExpiredRow ==
  ASSUME TypeOK, NEW d \in Deliveries
  PROVE  /\ Expired[d] \in Row
         /\ Expired[d].id = rows[d].id
         /\ Expired[d].expires = rows[d].expires
         /\ Expired[d].nextAttempt = rows[d].nextAttempt
         /\ \/ Expired[d] = rows[d]
            \/ /\ Active(d) /\ rows[d].leaseUntil <= now
               /\ Expired[d].status = "expired"
               /\ Expired[d].leaseUntil = 0
<1>1. rows[d] \in Row /\ Expired[d] \in Row
  BY ExpiredType DEF TypeOK
<1>2. CASE Active(d) /\ rows[d].expires <= now /\ rows[d].leaseUntil <= now
  BY <1>1, <1>2 DEF Expired, Row
<1>3. CASE ~(Active(d) /\ rows[d].expires <= now /\ rows[d].leaseUntil <= now)
  BY <1>1, <1>3 DEF Expired
<1>4. QED BY <1>2, <1>3

(* claim's NOT EXISTS, seen from the table it leaves. *)
LEMMA ClaimedAtHead ==
  ASSUME TypeOK, NEW w \in Workers, NEW d \in Deliveries, CanClaim(d), rows' = Claimed(w, d)
  PROVE  AtHead(rows', d)
<1>1. Expired \in [Deliveries -> Row]
  BY ExpiredType
<1>2. rows'[d].id = Expired[d].id /\ Expired[d].id \in Nat
  BY <1>1 DEF Claimed, Row
<1>3. ASSUME NEW e \in Before(rows', d) PROVE rows'[e].status \notin ActiveStatus
  <2>1. e \in Deliveries /\ rows'[e].id < rows'[d].id /\ SamePeer(d, e) /\ rows'[e].status # "absent"
    BY <1>3 DEF Before
  <2>2. rows'[e] = Expired[e]
    BY <1>1, <1>2, <2>1 DEF Claimed
  <2>3. e \in Before(Expired, d)
    BY <1>2, <2>1, <2>2 DEF Before
  <2>4. QED BY <2>2, <2>3 DEF CanClaim, Claimable
<1>4. QED BY <1>3 DEF AtHead

LEMMA ClaimedRow ==
  ASSUME TypeOK, NEW w \in Workers, NEW e \in Deliveries, NEW d \in Deliveries,
         workers[w].pc = "admitted", workers[w].job = e,
         rows' = Claimed(w, e)
  PROVE  RowStep(d)
<1>1. Expired \in [Deliveries -> Row] /\ rows[d] \in Row
  BY ExpiredType DEF TypeOK
<1>2. CASE d = e /\ CanClaim(e)
  <2>1. rows'[d] = [Expired[d] EXCEPT !.status = "processing", !.token = w,
                                      !.leaseUntil = now + Lease]
    BY <1>1, <1>2 DEF Claimed
  <2>2. Expired[d] = rows[d]
    BY <1>2, ExpiredRow DEF CanClaim, Claimable, ActiveStatus
  <2>3. Active(d) /\ rows[d].leaseUntil <= now
    BY <1>2, <2>2 DEF CanClaim, Claimable, Active
  <2>4. AtHead(rows', d)
    BY <1>2, ClaimedAtHead
  <2>5. RowClaimed(d)
    BY <1>1, <1>2, <2>1, <2>2, <2>3, <2>4 DEF RowClaimed, SameIdentity, Row
  <2>6. QED BY <2>5 DEF RowStep
<1>3. CASE ~(d = e /\ CanClaim(e))
  <2>1. rows'[d] = Expired[d]
    BY <1>1, <1>3 DEF Claimed
  <2>2. QED BY <2>1, ExpiredRow DEF RowStep, RowKept, RowExpired, SameIdentity
<1>4. QED BY <1>2, <1>3

LEMMA EnqueueRow ==
  ASSUME TypeOK, NEW b \in Batches, Enqueue(b), NEW d \in Deliveries
  PROVE  RowStep(d)
<1>1. b \in Seq(Deliveries) /\ Len(b) \in Nat /\ DOMAIN b = 1..Len(b)
  BY OutboxAssumption
<1>2. rows' = EnqueueMany(b) /\ lastId' = lastId + Len(b) /\ UNCHANGED <<workers, accepted>>
  BY DEF Enqueue, historyVars
<1>3. CASE d \in Inserted(b)
  <2>1. Position(b, d) \in 1..Len(b)
    BY <1>1, <1>3, EnqueueType
  <2>2. /\ rows[d].status = "absent"
        /\ rows'[d].status = "pending"
        /\ rows'[d].id = lastId + Position(b, d)
        /\ rows'[d].leaseUntil = 0
    BY <1>2, <1>3 DEF EnqueueMany, NoRow, Inserted
  <2>3. QED BY <1>1, <1>2, <2>1, <2>2 DEF RowStep, RowInserted, TypeOK, Enqueue
<1>4. CASE d \notin Inserted(b)
  BY <1>2, <1>4 DEF EnqueueMany, RowStep, RowKept, SameIdentity
<1>5. QED BY <1>3, <1>4

LEMMA PurgedRow ==
  ASSUME TypeOK, PumpPurge, NEW d \in Purgeable
  PROVE  RowPurged(d)
<1>1. /\ d \in Deliveries /\ rows[d].created + Retention < now
      /\ now \in Nat /\ Retention \in Nat /\ rows[d].created \in Nat
  BY StoreAssumption DEF Purgeable, TypeOK, Row
<1>2. Retention < now
  BY <1>1
<1>3. QED BY <1>1, <1>2 DEF PumpPurge, Purged, Purgeable, NoRow, RowPurged

LEMMA PumpRow ==
  ASSUME TypeOK, Pump, NEW d \in Deliveries
  PROVE  RowStep(d)
<1>1. ASSUME NEW p \in Platforms, PumpReserve(p) PROVE RowStep(d)
  <2>1. /\ rows'[d].id = Expired[d].id
        /\ rows'[d].expires = Expired[d].expires
        /\ rows'[d].status = Expired[d].status
        /\ rows'[d].token = Expired[d].token
        /\ rows'[d].leaseUntil = Expired[d].leaseUntil
    BY <1>1, ExpiredRow DEF PumpReserve, Reserved, Row
  <2>2. QED BY <2>1, ExpiredRow DEF RowStep, RowKept, RowExpired, SameIdentity
<1>2. ASSUME NEW e \in Deliveries, PumpPublish(e) \/ PumpPublishFails(e) \/ PumpSpawn(e)
      PROVE  RowStep(d)
  BY <1>2 DEF PumpPublish, PumpPublishFails, PumpSpawn, storeVars, RowStep, RowKept, SameIdentity
<1>3. ASSUME PumpPurge PROVE RowStep(d)
  <2>1. CASE d \in Purgeable
    BY <1>3, <2>1, PurgedRow DEF RowStep
  <2>2. CASE d \notin Purgeable
    BY <1>3, <2>2 DEF PumpPurge, Purged, RowStep, RowKept, SameIdentity
  <2>3. QED BY <2>1, <2>2
<1>4. QED BY <1>1, <1>2, <1>3 DEF Pump

LEMMA FinishedRow ==
  ASSUME TypeOK, NEW w \in Workers, NEW d \in Deliveries, workers[w].pc = "ended",
         rows' = Finished(w, workers[w].job, FinalStatus(workers[w].outcome), workers[w].delay),
         workers'[w].pc \in {"idle", "recording"} \/ ~Holds(w, workers[w].job),
         UNCHANGED accepted
  PROVE  RowStep(d)
<1>1. rows \in [Deliveries -> Row]
  BY DEF TypeOK
<1>2. CASE d = workers[w].job /\ Holds(w, d)
  <2>1. rows'[d] = [rows[d] EXCEPT !.status = FinalStatus(workers[w].outcome),
                      !.nextAttempt = now + workers[w].delay, !.nextPublish = 0,
                      !.token = NoWorker, !.leaseUntil = 0]
    BY <1>1, <1>2 DEF Finished
  <2>2. QED BY <1>1, <1>2, <2>1 DEF RowStep, RowLeft, SameIdentity, Row
<1>3. CASE ~(d = workers[w].job /\ Holds(w, d))
  <2>1. rows'[d] = rows[d]
    BY <1>1, <1>3 DEF Finished
  <2>2. QED BY <2>1 DEF RowStep, RowKept, SameIdentity
<1>4. QED BY <1>2, <1>3

LEMMA HandlerRow ==
  ASSUME TypeOK, NEW w \in Workers, Handler(w), NEW d \in Deliveries
  PROVE  RowStep(d)
<1>. DEFINE e == workers[w].job
<1>0. rows \in [Deliveries -> Row] /\ workers \in [Workers -> Worker]
  BY DEF TypeOK
<1>1. CASE Claim(w)
  <2>1. e \in Deliveries
    BY <1>1, JobType DEF Claim, Idle
  <2>2. QED BY <1>1, <2>1, ClaimedRow DEF Claim
<1>2. CASE Heartbeat(w)
  <2>1. CASE d = e /\ Holds(w, d)
    <3>1. rows'[d] = [rows[d] EXCEPT !.leaseUntil = now + Lease]
      BY <1>0, <1>2, <2>1 DEF Heartbeat, Renewed
    <3>2. QED BY <1>0, <2>1, <3>1 DEF RowStep, RowRenewed, SameIdentity, Row, Holds
  <2>2. CASE ~(d = e /\ Holds(w, d))
    <3>1. rows'[d] = rows[d]
      BY <1>0, <1>2, <2>2 DEF Heartbeat, Renewed
    <3>2. QED BY <3>1 DEF RowStep, RowKept, SameIdentity
  <2>3. QED BY <2>1, <2>2
<1>3. CASE HeartbeatDies(w) \/ ApiAccepts(w) \/ ApiAnswers(w) \/ ApiRefuses(w) \/ CallBreaks(w)
           \/ FinishFails(w) \/ Record(w)
  <2>1. rows' = rows
    BY <1>3 DEF HeartbeatDies, ApiAccepts, ApiAnswers, ApiRefuses, CallBreaks, FinishFails,
                Record, storeVars
  <2>2. QED BY <2>1 DEF RowStep, RowKept, SameIdentity
<1>4. CASE Finish(w)
  <2>1. Holds(w, e) => workers'[w].pc = "recording"
    BY <1>0, <1>4 DEF Finish, Worker
  <2>2. QED BY <1>4, <2>1, FinishedRow DEF Finish
<1>5. CASE Cancel(w)
  <2>1. e \in Deliveries /\ workers'[w].pc = "idle" /\ UNCHANGED accepted
    BY <1>0, <1>5, JobType DEF Cancel, Idle, IdleWorker
  <2>2. CASE rows' = rows
    BY <2>2 DEF RowStep, RowKept, SameIdentity
  <2>3. CASE workers[w].pc = "admitted" /\ rows' = Claimed(w, e)
    BY <2>1, <2>3, ClaimedRow
  <2>4. CASE rows' = Released(w, e)
    <3>1. CASE d = e /\ Holds(w, d)
      <4>1. rows'[d] = [rows[d] EXCEPT !.status = "pending", !.nextPublish = 0,
                                       !.token = NoWorker, !.leaseUntil = 0]
        BY <1>0, <2>4, <3>1 DEF Released
      <4>2. QED BY <1>0, <2>1, <3>1, <4>1 DEF RowStep, RowLeft, SameIdentity, Row
    <3>2. CASE ~(d = e /\ Holds(w, d))
      <4>1. rows'[d] = rows[d]
        BY <1>0, <2>4, <3>2 DEF Released
      <4>2. QED BY <4>1 DEF RowStep, RowKept, SameIdentity
    <3>3. QED BY <3>1, <3>2
  <2>5. CASE /\ workers[w].pc = "ended"
             /\ rows' = Finished(w, e, FinalStatus(workers[w].outcome), workers[w].delay)
    BY <2>1, <2>5, FinishedRow
  <2>6. QED BY <1>5, <2>2, <2>3, <2>4, <2>5 DEF Cancel
<1>6. QED BY <1>1, <1>2, <1>3, <1>4, <1>5 DEF Handler

LEMMA RowSteps ==
  ASSUME TypeOK, [Next]_vars, NEW d \in Deliveries
  PROVE  RowStep(d)
<1>1. CASE \E b \in Batches : Enqueue(b)
  BY <1>1, EnqueueRow
<1>2. CASE Pump
  BY <1>2, PumpRow
<1>3. CASE \E w \in Workers : Handler(w)
  BY <1>3, HandlerRow
<1>4. CASE Broker \/ Stop \/ Stopped \/ Crash \/ Start \/ Tick \/ UNCHANGED vars
  <2>1. rows' = rows
    BY <1>4 DEF Broker, Consume, Discard, ConnectionLost, Stop, Stopped, Crash, Start, Tick,
                NoProcess, vars, storeVars
  <2>2. QED BY <2>1 DEF RowStep, RowKept, SameIdentity
<1>5. QED BY <1>1, <1>2, <1>3, <1>4 DEF Next

-----------------------------------------------------------------------------
(* What a step does to an open call *)

SameCall(w) ==
  /\ workers'[w].pc = workers[w].pc
  /\ workers'[w].job = workers[w].job
  /\ workers'[w].outcome = workers[w].outcome
  /\ workers'[w].deadline = workers[w].deadline
  /\ workers'[w].beating = workers[w].beating
  /\ workers'[w].beatAt = workers[w].beatAt

(* Only Tick moves the clock. *)
LEMMA Clock == ASSUME [Next]_vars PROVE now' = now \/ Tick
<1>1. CASE \E b \in Batches : Enqueue(b)
  BY <1>1 DEF Enqueue
<1>2. CASE Pump
  BY <1>2 DEF Pump, PumpReserve, PumpPublish, PumpPublishFails, PumpSpawn, PumpPurge, storeVars
<1>3. CASE Broker
  BY <1>3 DEF Broker, Consume, Discard, ConnectionLost, storeVars
<1>4. CASE \E w \in Workers : Handler(w)
  BY <1>4 DEF Handler, Claim, Heartbeat, HeartbeatDies, ApiAccepts, ApiAnswers, ApiRefuses,
              CallBreaks, Finish, FinishFails, Record, Cancel, storeVars
<1>5. CASE Stop \/ Stopped \/ Crash \/ Start \/ Tick \/ UNCHANGED vars
  BY <1>5 DEF Stop, Stopped, Crash, Start, NoProcess, vars, storeVars
<1>6. QED BY <1>1, <1>2, <1>3, <1>4, <1>5 DEF Next

(* One step of handler v leaves the other handlers alone. *)
LEMMA OtherHandlers ==
  ASSUME TypeOK, NEW v \in Workers, Handler(v), NEW w \in Workers, w # v
  PROVE  workers'[w] = workers[w]
<1>1. workers \in [Workers -> Worker]
  BY DEF TypeOK
<1>2. \E r : workers' = [workers EXCEPT ![v] = r]
  <2>1. CASE Claim(v) \/ Heartbeat(v) \/ HeartbeatDies(v) \/ Finish(v)
    BY <2>1 DEF Claim, Heartbeat, HeartbeatDies, Finish
  <2>2. CASE ApiAccepts(v)
    <3>1. workers' = [workers EXCEPT ![v] = [@ EXCEPT !.pc = "taken"]]
      BY <2>2 DEF ApiAccepts
    <3>2. QED BY <3>1
  <2>3. CASE FinishFails(v) \/ Record(v) \/ Cancel(v)
    BY <2>3 DEF FinishFails, Record, Cancel
  <2>4. CASE ApiAnswers(v)
    BY <2>4 DEF ApiAnswers, CallEnds
  <2>5. CASE ApiRefuses(v) \/ CallBreaks(v)
    BY <2>5 DEF ApiRefuses, CallBreaks, CallEnds
  <2>6. QED BY <2>1, <2>2, <2>3, <2>4, <2>5 DEF Handler
<1>3. QED BY <1>1, <1>2

(* A spawned or consumed ID is admitted and nothing more. *)
LEMMA AdmittedOnly ==
  ASSUME TypeOK, NEW v \in Workers, NEW d, NEW via, Idle(v), workers' = Admit(v, d, via),
         NEW w \in Workers
  PROVE  SameCall(w) \/ (Idle(w) /\ workers'[w].pc = "admitted")
<1>1. workers \in [Workers -> Worker]
  BY DEF TypeOK
<1>2. CASE w = v
  BY <1>1, <1>2 DEF Admit, IdleWorker, Idle
<1>3. CASE w # v
  BY <1>1, <1>3 DEF Admit, SameCall
<1>4. QED BY <1>2, <1>3

(* Besides its own steps a handler can only be started or killed. *)
LEMMA WorkerSteps ==
  ASSUME TypeOK, [Next]_vars, NEW w \in Workers
  PROVE  \/ SameCall(w) \/ Handler(w)
         \/ Idle(w) /\ workers'[w].pc = "admitted"
         \/ Crash /\ workers'[w].pc = "idle"
<1>0. workers \in [Workers -> Worker]
  BY DEF TypeOK
<1>1. CASE \E b \in Batches : Enqueue(b)
  BY <1>1 DEF Enqueue, SameCall
<1>2. CASE Pump
  <2>1. \/ workers' = workers
        \/ \E v \in Workers, d \in Deliveries : Idle(v) /\ workers' = Admit(v, d, "local")
    BY <1>2 DEF Pump, PumpReserve, PumpPublish, PumpPublishFails, PumpSpawn, PumpPurge, Spawn
  <2>2. QED BY <2>1, AdmittedOnly DEF SameCall
<1>3. CASE Broker
  <2>1. ASSUME NEW v \in Workers, NEW d \in Deliveries, Consume(v, d)
        PROVE  SameCall(w) \/ (Idle(w) /\ workers'[w].pc = "admitted")
    BY <2>1, AdmittedOnly DEF Consume
  <2>2. ASSUME NEW d \in Deliveries, Discard(d) PROVE SameCall(w)
    BY <2>2 DEF Discard, SameCall
  <2>3. CASE ConnectionLost
    <3>1. workers'[w] = workers[w] \/ workers'[w] = [workers[w] EXCEPT !.via = "lost"]
      BY <1>0, <2>3 DEF ConnectionLost
    <3>2. workers[w] \in Worker
      BY <1>0
    <3>3. QED BY <3>1, <3>2 DEF SameCall, Worker
  <2>4. QED BY <1>3, <2>1, <2>2, <2>3 DEF Broker
<1>4. ASSUME NEW v \in Workers, Handler(v), w # v PROVE SameCall(w)
  BY <1>4, OtherHandlers DEF SameCall
<1>5. CASE Stop \/ Stopped \/ Start \/ Tick \/ UNCHANGED vars
  BY <1>5 DEF Stop, Stopped, Start, Tick, vars, SameCall
<1>6. CASE Crash
  BY <1>6 DEF Crash, IdleWorker
<1>7. QED BY <1>1, <1>2, <1>3, <1>4, <1>5, <1>6 DEF Next

(* A heartbeat is not the handler's progress. *)
LEMMA HeartbeatKeeps ==
  ASSUME TypeOK, NEW w \in Workers, Heartbeat(w) \/ HeartbeatDies(w)
  PROVE  /\ workers'[w].job = workers[w].job
         /\ workers'[w].pc = workers[w].pc
         /\ workers'[w].outcome = workers[w].outcome
<1>1. workers \in [Workers -> Worker]
  BY DEF TypeOK
<1>2. CASE Heartbeat(w)
  BY <1>1, <1>2 DEF Heartbeat, Worker
<1>3. CASE HeartbeatDies(w)
  BY <1>1, <1>3 DEF HeartbeatDies, Worker
<1>4. QED BY <1>2, <1>3

(* Where the handler's own steps lead. *)
LEMMA HandlerSteps ==
  ASSUME TypeOK, NEW w \in Workers, Handler(w)
  PROVE  \/ Claim(w) /\ CanClaim(workers[w].job)
         \/ Heartbeat(w) \/ HeartbeatDies(w) \/ ApiAccepts(w) \/ ApiAnswers(w)
         \/ workers'[w].pc = "ended" /\ workers'[w].outcome # "ok"
         \/ workers'[w].pc \in {"idle", "recording"}
<1>0. workers \in [Workers -> Worker]
  BY DEF TypeOK
<1>1. CASE ApiRefuses(w) \/ CallBreaks(w)
  <2>1. \E outcome \in {"refused", "flooded", "broken"} : \E delay :
          workers' = CallEnds(w, outcome, delay)
    BY <1>1 DEF ApiRefuses, CallBreaks
  <2>2. QED BY <1>0, <2>1 DEF CallEnds, Worker
<1>2. CASE FinishFails(w) \/ Record(w) \/ Cancel(w)
  <2>1. workers' = [workers EXCEPT ![w] = IdleWorker]
    BY <1>2 DEF FinishFails, Record, Cancel
  <2>2. QED BY <1>0, <2>1 DEF IdleWorker
<1>3. CASE Finish(w)
  BY <1>0, <1>3 DEF Finish, IdleWorker, Worker
<1>4. CASE Claim(w) /\ ~CanClaim(workers[w].job)
  BY <1>0, <1>4 DEF Claim, IdleWorker
<1>5. QED BY <1>1, <1>2, <1>3, <1>4 DEF Handler

(* A call that is open after a step was open before it, or was just claimed. *)
LEMMA CallSteps ==
  ASSUME TypeOK, [Next]_vars, NEW w \in Workers, Calling(w)'
  PROVE  \/ SameCall(w)
         \/ Claim(w) /\ CanClaim(workers[w].job)
         \/ Heartbeat(w) \/ HeartbeatDies(w) \/ ApiAccepts(w)
<1>1. ~ApiAnswers(w)
  <2>1. ASSUME ApiAnswers(w) PROVE workers'[w].pc = "ended"
    BY <2>1 DEF ApiAnswers, CallEnds, TypeOK, Worker
  <2>2. QED BY <2>1 DEF Calling
<1>2. QED BY <1>1, WorkerSteps, HandlerSteps DEF Calling

-----------------------------------------------------------------------------
(* The lease covers the call *)

(* No lease is longer than lease_seconds. *)
LeaseBound == \A d \in Deliveries : rows[d].leaseUntil <= now + Lease

(* The lease of an open call outlives what ends the call or renews the lease:
   the next heartbeat, or the timeout when heartbeats cannot be relied on. *)
CallCovered(w) ==
  LET d == workers[w].job IN
  /\ Holds(w, d)
  /\ IF HeartbeatReliable
       THEN /\ workers[w].beating
            /\ now <= workers[w].beatAt
            /\ workers[w].beatAt < rows[d].leaseUntil
       ELSE /\ now <= workers[w].deadline
            /\ workers[w].deadline < rows[d].leaseUntil

CallsCovered == \A w \in Workers : Calling(w) => CallCovered(w)

LEMMA LeaseBoundStep == TypeOK /\ LeaseBound /\ [Next]_vars => LeaseBound'
<1>. SUFFICES ASSUME TypeOK, LeaseBound, [Next]_vars, NEW d \in Deliveries
              PROVE  rows'[d].leaseUntil <= now' + Lease
  BY DEF LeaseBound
<1>1. now \in Nat /\ now' \in Nat /\ Lease \in Nat /\ rows[d].leaseUntil \in Nat
  BY TypeStep, StoreAssumption DEF TypeOK, Row
<1>2. now <= now'
  BY <1>1, Clock DEF Tick
<1>3. rows[d].leaseUntil <= now + Lease
  BY DEF LeaseBound
<1>4. RowStep(d)
  BY RowSteps
<1>5. rows'[d].leaseUntil \in {rows[d].leaseUntil, 0, now + Lease}
  BY <1>4 DEF RowStep, RowKept, RowInserted, RowExpired, RowClaimed, RowRenewed, RowLeft, RowPurged
<1>6. QED BY <1>1, <1>2, <1>3, <1>5

(* While a call is open its lease has not run out. *)
LEMMA LeaseHeld ==
  ASSUME TypeOK, CallsCovered, NEW w \in Workers, Calling(w)
  PROVE  /\ workers[w].job \in Deliveries
         /\ rows[workers[w].job].status = "processing"
         /\ rows[workers[w].job].token = w
         /\ now < rows[workers[w].job].leaseUntil
<1>1. workers[w] \in Worker /\ workers[w].job \in Deliveries
  BY JobType DEF Calling, Idle
<1>2. CallCovered(w) /\ now \in Nat /\ rows[workers[w].job] \in Row
  BY <1>1 DEF CallsCovered, TypeOK
<1>3. QED BY <1>1, <1>2 DEF CallCovered, Holds, Row, Worker

(* Nobody but the handler itself touches the row of an open call; a renewal of
   its lease only prolongs it. *)
LEMMA RowOfCall ==
  ASSUME TypeOK, LeaseBound, CallsCovered, [Next]_vars,
         NEW w \in Workers, Calling(w), Calling(w)'
  PROVE  LET d == workers[w].job IN
         /\ rows'[d].status = "processing"
         /\ rows'[d].token = w
         /\ rows[d].leaseUntil <= rows'[d].leaseUntil
<1>. DEFINE d == workers[w].job
<1>1. /\ d \in Deliveries
      /\ rows[d].status = "processing"
      /\ rows[d].token = w
      /\ now < rows[d].leaseUntil
  BY LeaseHeld
<1>2. now \in Nat /\ rows[d].leaseUntil \in Nat /\ rows[d].leaseUntil <= now + Lease
  BY <1>1 DEF TypeOK, Row, LeaseBound
<1>3. RowStep(d)
  BY <1>1, RowSteps
<1>4. ~RowInserted(d) /\ ~RowExpired(d) /\ ~RowClaimed(d) /\ ~RowPurged(d)
  BY <1>1, <1>2 DEF RowInserted, RowExpired, RowClaimed, RowPurged
<1>5. ~RowLeft(d)
  BY <1>1 DEF RowLeft, Holds, Calling
<1>6. QED BY <1>1, <1>2, <1>3, <1>4, <1>5 DEF RowStep, RowKept, RowRenewed

LEMMA CallsCoveredStep ==
  ASSUME LeaseCoversCall
  PROVE  TypeOK /\ LeaseBound /\ CallsCovered /\ [Next]_vars => CallsCovered'
<1>. SUFFICES ASSUME TypeOK, LeaseBound, CallsCovered, [Next]_vars,
                     NEW w \in Workers, Calling(w)'
              PROVE  CallCovered(w)'
  BY DEF CallsCovered
<1>. DEFINE d == workers[w].job
<1>1. /\ now \in Nat /\ Lease \in Nat /\ Beat \in Nat /\ Beat < Lease /\ Beat # 0
      /\ rows \in [Deliveries -> Row] /\ workers \in [Workers -> Worker]
      /\ workers[w].deadline \in Nat /\ workers[w].beatAt \in Nat
  BY StoreAssumption, OutboxAssumption DEF TypeOK, Worker
<1>2. ASSUME Calling(w)
      PROVE  /\ d \in Deliveries
             /\ rows'[d].status = "processing" /\ rows'[d].token = w
             /\ rows[d].leaseUntil \in Nat /\ rows'[d].leaseUntil \in Nat
             /\ rows[d].leaseUntil <= rows'[d].leaseUntil
             /\ CallCovered(w)
  BY <1>2, LeaseHeld, RowOfCall, TypeStep DEF TypeOK, Row, CallsCovered
<1>3. CASE SameCall(w)
  <2>0. now' = now \/ Tick
    BY Clock
  <2>1. Calling(w) /\ workers'[w].job = d
    BY <1>3 DEF SameCall, Calling
  <2>2. Tick => /\ now' = now + 1
                /\ now < workers[w].deadline
                /\ workers[w].beating => now < workers[w].beatAt
    BY <2>1 DEF Tick
  <2>3. Holds(w, d)'
    BY <1>2, <2>1 DEF Holds
  <2>4. CASE HeartbeatReliable
    BY <1>1, <1>2, <1>3, <2>0, <2>1, <2>2, <2>3, <2>4 DEF CallCovered, SameCall, Holds
  <2>5. CASE ~HeartbeatReliable
    BY <1>1, <1>2, <1>3, <2>0, <2>1, <2>2, <2>3, <2>5 DEF CallCovered, SameCall, Holds
  <2>6. QED BY <2>4, <2>5
<1>4. CASE Claim(w) /\ CanClaim(d)
  <2>1. d \in Deliveries /\ CallTimeout[d] \in Nat /\ rows[d].expires \in Nat
    BY <1>1, <1>4, JobType, OutboxAssumption DEF Claim, Idle, Row
  <2>2. rows[d].expires > now
    BY <1>4, <2>1, ExpiredRow DEF CanClaim, Claimable
  <2>3. /\ workers'[w].job = d
        /\ workers'[w].deadline = now + Least(CallTimeout[d], rows[d].expires - now)
        /\ workers'[w].beating = TRUE
        /\ workers'[w].beatAt = now + Beat
        /\ now' = now
    BY <1>1, <1>4 DEF Claim, Worker
  <2>4. /\ rows'[d].status = "processing" /\ rows'[d].token = w
        /\ rows'[d].leaseUntil = now + Lease
    BY <1>4, <2>1, ExpiredType DEF Claim, Claimed, Row
  <2>5. Holds(w, d)'
    BY <2>3, <2>4 DEF Holds
  <2>6. CASE HeartbeatReliable
    BY <1>1, <2>3, <2>4, <2>5, <2>6 DEF CallCovered, Holds
  <2>7. CASE ~HeartbeatReliable
    <3>1. CallTimeout[d] < Lease
      BY <2>1, <2>7 DEF LeaseCoversCall
    <3>2. /\ now <= workers'[w].deadline
          /\ workers'[w].deadline < now + Lease
      BY <1>1, <2>1, <2>2, <2>3, <3>1 DEF Least
    <3>3. QED BY <2>3, <2>4, <2>5, <2>7, <3>2 DEF CallCovered, Holds
  <2>8. QED BY <2>6, <2>7
<1>5. CASE Heartbeat(w)
  <2>1. /\ now' = now
        /\ workers'[w].pc = workers[w].pc
        /\ workers'[w].job = d
        /\ workers'[w].deadline = workers[w].deadline
    BY <1>1, <1>5 DEF Heartbeat, Worker
  <2>2. Calling(w)
    BY <2>1 DEF Calling
  <2>3. Holds(w, d)
    BY <1>2, <2>2 DEF CallCovered
  <2>4. /\ workers'[w].beating = workers[w].beating /\ workers[w].beating
        /\ workers'[w].beatAt = now + Beat
    BY <1>1, <1>5, <2>3 DEF Heartbeat, Worker
  <2>5. rows'[d].leaseUntil = now + Lease
    BY <1>1, <1>2, <1>5, <2>2, <2>3 DEF Heartbeat, Renewed, Row
  <2>6. Holds(w, d)'
    BY <1>2, <2>1, <2>2 DEF Holds
  <2>7. CASE HeartbeatReliable
    BY <1>1, <2>1, <2>4, <2>5, <2>6, <2>7 DEF CallCovered, Holds
  <2>8. CASE ~HeartbeatReliable
    BY <1>1, <1>2, <2>1, <2>2, <2>5, <2>6, <2>8 DEF CallCovered, Holds
  <2>9. QED BY <2>7, <2>8
<1>6. CASE HeartbeatDies(w) \/ ApiAccepts(w)
  <2>1. /\ now' = now /\ rows' = rows
        /\ workers'[w].job = d
        /\ workers'[w].deadline = workers[w].deadline
    BY <1>1, <1>6 DEF HeartbeatDies, ApiAccepts, storeVars, Worker
  <2>2. Calling(w)
    <3>1. workers'[w].pc \in {"sending", "taken"} => workers[w].pc \in {"sending", "taken"}
      <4>1. CASE HeartbeatDies(w)
        BY <4>1, HeartbeatKeeps
      <4>2. CASE ApiAccepts(w)
        BY <4>2 DEF ApiAccepts
      <4>3. QED BY <1>6, <4>1, <4>2
    <3>2. QED BY <3>1 DEF Calling
  <2>3. HeartbeatReliable => /\ workers'[w].beating = workers[w].beating
                             /\ workers'[w].beatAt = workers[w].beatAt
    BY <1>1, <1>6 DEF HeartbeatDies, ApiAccepts, Worker
  <2>4. QED BY <1>2, <2>1, <2>2, <2>3 DEF CallCovered, Holds
<1>7. QED BY <1>3, <1>4, <1>5, <1>6, CallSteps

LEMMA CoveredInit == Init => LeaseBound /\ CallsCovered
<1>. SUFFICES ASSUME Init PROVE LeaseBound /\ CallsCovered
  OBVIOUS
<1>1. LeaseBound
  <2>1. now = 0 /\ Lease \in Nat
    BY StoreAssumption DEF Init
  <2>2. ASSUME NEW d \in Deliveries PROVE rows[d].leaseUntil <= now + Lease
    <3>1. rows[d].leaseUntil = 0
      BY DEF Init, NoRow
    <3>2. QED BY <2>1, <3>1
  <2>3. QED BY <2>2 DEF LeaseBound
<1>2. CallsCovered
  BY DEF Init, CallsCovered, Calling, IdleWorker
<1>3. QED BY <1>1, <1>2

(* The inductive invariant of this module. *)
Covered == TypeOK /\ LeaseBound /\ CallsCovered

THEOREM AlwaysCovered ==
  ASSUME LeaseCoversCall
  PROVE  Spec => []Covered
<1>1. Init => Covered
  BY TypeInit, CoveredInit DEF Covered
<1>2. Covered /\ [Next]_vars => Covered'
  BY TypeStep, LeaseBoundStep, CallsCoveredStep DEF Covered
<1>3. QED BY <1>1, <1>2, PTL DEF Spec

\* One API call per delivery, for any workers, deliveries and times, provided
\* that the lease outlives the call or its heartbeats never fail (_process).
THEOREM OneHandler ==
  ASSUME LeaseCoversCall
  PROVE  Spec => []OneActiveHandler
<1>1. Covered => OneActiveHandler
  BY LeaseHeld DEF Covered, OneActiveHandler
<1>2. QED BY <1>1, AlwaysCovered, PTL

-----------------------------------------------------------------------------
(* What the API accepted *)

LEMMA AcceptedSteps ==
  ASSUME TypeOK, [Next]_vars, NEW d \in Deliveries
  PROVE  \/ accepted'[d] = accepted[d]
         \/ RowPurged(d)
         \/ /\ accepted'[d] > 0
            /\ \E w \in Workers : ApiAccepts(w) /\ workers[w].job = d
<1>1. CASE \E b \in Batches : Enqueue(b)
  BY <1>1 DEF Enqueue, historyVars
<1>2. CASE Pump
  <2>1. CASE PumpPurge
    <3>1. CASE d \in Purgeable
      BY <2>1, <3>1, PurgedRow
    <3>2. CASE d \notin Purgeable
      BY <2>1, <3>2 DEF PumpPurge
    <3>3. QED BY <3>1, <3>2
  <2>2. QED BY <1>2, <2>1 DEF Pump, PumpReserve, PumpPublish, PumpPublishFails, PumpSpawn,
                              historyVars
<1>3. CASE Broker
  BY <1>3 DEF Broker, Consume, Discard, ConnectionLost, historyVars
<1>4. ASSUME NEW w \in Workers, Handler(w)
      PROVE  \/ accepted'[d] = accepted[d]
             \/ accepted'[d] > 0 /\ ApiAccepts(w) /\ workers[w].job = d
  <2>1. CASE ApiAccepts(w)
    BY <2>1 DEF ApiAccepts, Least, TypeOK
  <2>2. CASE ~ApiAccepts(w)
    BY <1>4, <2>2 DEF Handler, Claim, Heartbeat, HeartbeatDies, ApiAnswers, ApiRefuses,
                CallBreaks, Finish, FinishFails, Record, Cancel, historyVars
  <2>3. QED BY <2>1, <2>2
<1>5. CASE Stop \/ Stopped \/ Crash \/ Start \/ Tick \/ UNCHANGED vars
  BY <1>5 DEF Stop, Stopped, Crash, Start, Tick, NoProcess, vars, historyVars
<1>6. QED BY <1>1, <1>2, <1>3, <1>4, <1>5 DEF Next

(* The API accepts nothing but the job of an open call, which is held. *)
LEMMA AcceptedWhileHeld ==
  ASSUME TypeOK, CallsCovered, NEW w \in Workers, ApiAccepts(w)
  PROVE  Calling(w) /\ rows[workers[w].job].status = "processing"
<1>1. Calling(w)
  BY DEF ApiAccepts, Calling
<1>2. QED BY <1>1, LeaseHeld

\* finish and purge: a settled job keeps its status until its history is
\* dropped, and the API never gets it again.
THEOREM SettledStaysSettled ==
  ASSUME LeaseCoversCall
  PROVE  Spec => SettledIsFinal
<1>1. ASSUME Covered, [Next]_vars, NEW d \in Deliveries, Settled(d)
      PROVE  \/ rows'[d].status = rows[d].status /\ accepted'[d] = accepted[d]
             \/ rows'[d].status = "absent"
  <2>1. rows[d].status \in TerminalStatus /\ rows[d].status # "processing"
        /\ rows[d].status # "absent" /\ ~Active(d)
    BY <1>1 DEF Settled, Active, TerminalStatus, ActiveStatus
  <2>2. RowKept(d) \/ RowPurged(d)
    BY <1>1, <2>1, RowSteps DEF Covered, RowStep, RowInserted, RowExpired, RowClaimed, RowRenewed,
                                RowLeft, Holds
  <2>3. accepted'[d] = accepted[d] \/ RowPurged(d)
    BY <1>1, <2>1, AcceptedSteps, AcceptedWhileHeld DEF Covered
  <2>4. QED BY <2>2, <2>3 DEF RowKept, RowPurged
<1>2. Covered /\ [Next]_vars =>
        [\A d \in Deliveries : Settled(d) =>
           \/ rows'[d].status = rows[d].status /\ accepted'[d] = accepted[d]
           \/ rows'[d].status = "absent"]_vars
  BY <1>1
<1>3. QED BY <1>2, AlwaysCovered, PTL DEF Spec, SettledIsFinal

-----------------------------------------------------------------------------
(* The order of a dialogue *)

(* AUTOINCREMENT, and a purged row has no history. *)
IdsGiven ==
  \A d \in Deliveries :
    IF rows[d].status = "absent" THEN accepted[d] = 0 ELSE rows[d].id <= lastId

LEMMA CounterGrows ==
  ASSUME TypeOK, [Next]_vars
  PROVE  lastId <= lastId'
<1>0. lastId \in Nat
  BY DEF TypeOK
<1>1. ASSUME NEW b \in Batches, Enqueue(b) PROVE lastId <= lastId'
  BY <1>0, <1>1, EnqueueType DEF Enqueue
<1>2. CASE Pump \/ Broker
  BY <1>0, <1>2 DEF Pump, PumpReserve, PumpPublish, PumpPublishFails, PumpSpawn, PumpPurge,
              Broker, Consume, Discard, ConnectionLost, storeVars
<1>3. CASE \E w \in Workers : Handler(w)
  BY <1>0, <1>3 DEF Handler, Claim, Heartbeat, HeartbeatDies, ApiAccepts, ApiAnswers, ApiRefuses,
              CallBreaks, Finish, FinishFails, Record, Cancel, storeVars
<1>4. CASE Stop \/ Stopped \/ Crash \/ Start \/ Tick \/ UNCHANGED vars
  BY <1>0, <1>4 DEF Stop, Stopped, Crash, Start, Tick, NoProcess, vars, storeVars
<1>5. QED BY <1>1, <1>2, <1>3, <1>4 DEF Next

LEMMA IdsGivenStep == TypeOK /\ CallsCovered /\ IdsGiven /\ [Next]_vars => IdsGiven'
<1>. SUFFICES ASSUME TypeOK, CallsCovered, IdsGiven, [Next]_vars, NEW d \in Deliveries
              PROVE  IF rows'[d].status = "absent" THEN accepted'[d] = 0
                                                   ELSE rows'[d].id <= lastId'
  BY DEF IdsGiven
<1>1. /\ lastId \in Nat /\ lastId' \in Nat /\ rows[d].id \in Nat /\ rows'[d].id \in Nat
      /\ rows[d].status # "absent" => rows[d].id <= lastId
      /\ rows[d].status = "absent" => accepted[d] = 0
  BY TypeStep DEF TypeOK, Row, IdsGiven
<1>2. lastId <= lastId'
  BY CounterGrows
<1>3. RowStep(d)
  BY RowSteps
<1>4. CASE RowPurged(d)
  BY <1>4 DEF RowPurged
<1>5. CASE RowInserted(d)
  BY <1>5 DEF RowInserted
<1>6. CASE rows[d].status # "absent" /\ rows'[d].status # "absent" /\ rows'[d].id = rows[d].id
  BY <1>1, <1>2, <1>6
<1>7. CASE RowKept(d)
  <2>1. CASE rows[d].status = "absent" /\ ~RowPurged(d)
    <3>1. \A w \in Workers : ApiAccepts(w) => workers[w].job # d
      BY <2>1, AcceptedWhileHeld
    <3>2. accepted'[d] = accepted[d]
      BY <2>1, <3>1, AcceptedSteps
    <3>3. QED BY <1>1, <1>7, <2>1, <3>2 DEF RowKept
  <2>2. QED BY <1>4, <1>6, <1>7, <2>1 DEF RowKept, SameIdentity
<1>8. CASE RowExpired(d) \/ RowClaimed(d) \/ RowRenewed(d)
  BY <1>6, <1>8 DEF RowExpired, RowClaimed, RowRenewed, SameIdentity, Active, ActiveStatus
<1>9. CASE RowLeft(d)
  <2>1. rows[d].status = "processing" /\ rows'[d].status # "absent"
    BY <1>9 DEF RowLeft, Holds, FinalStatus
  <2>2. QED BY <1>6, <1>9, <2>1 DEF RowLeft, SameIdentity
<1>10. QED BY <1>3, <1>4, <1>5, <1>7, <1>8, <1>9 DEF RowStep

(* The API took the message or is asked to. *)
Begun(d) == accepted[d] > 0 \/ \E w \in Workers : Calling(w) /\ workers[w].job = d

(* A message that has been begun keeps its row and its place. *)
LEMMA BegunKept ==
  ASSUME TypeOK, CallsCovered, IdsGiven, [Next]_vars,
         NEW d \in Deliveries, Begun(d), Begun(d)'
  PROVE  rows'[d].id = rows[d].id /\ rows[d].id <= lastId
<1>1. rows[d].status # "absent"
  BY LeaseHeld DEF Begun, IdsGiven
<1>2. ~RowPurged(d)
  <2>1. SUFFICES ASSUME RowPurged(d) PROVE FALSE
    OBVIOUS
  <2>2. PICK w \in Workers : Calling(w) /\ workers[w].job = d
    BY <2>1 DEF Begun, RowPurged, Calling
  <2>3. now < rows[d].leaseUntil /\ now \in Nat /\ rows[d].leaseUntil \in Nat
    BY <2>2, LeaseHeld DEF TypeOK, Row
  <2>4. QED BY <2>1, <2>3 DEF RowPurged
<1>3. ~RowInserted(d)
  BY <1>1 DEF RowInserted
<1>4. QED BY <1>1, <1>2, <1>3, RowSteps DEF RowStep, RowKept, RowExpired, RowClaimed, RowRenewed,
                                          RowLeft, SameIdentity, IdsGiven

(* A message that begins is at the head of its dialogue. *)
LEMMA BeginsAtHead ==
  ASSUME TypeOK, [Next]_vars, NEW d \in Deliveries, ~Begun(d), Begun(d)'
  PROVE  AtHead(rows', d)
<1>1. workers \in [Workers -> Worker]
  BY DEF TypeOK
<1>2. ~(accepted[d] > 0) /\ \A w \in Workers : Calling(w) => workers[w].job # d
  BY DEF Begun
<1>3. ~(accepted'[d] > 0)
  <2>1. \A w \in Workers : ApiAccepts(w) => workers[w].job # d
    BY <1>2 DEF ApiAccepts, Calling
  <2>2. QED BY <1>2, <2>1, AcceptedSteps DEF RowPurged
<1>4. PICK w \in Workers : Calling(w)' /\ workers'[w].job = d
  BY <1>3 DEF Begun, Calling
<1>5. Claim(w) /\ CanClaim(workers[w].job)
  <2>1. ASSUME SameCall(w) PROVE FALSE
    BY <1>2, <1>4, <2>1 DEF SameCall, Calling
  <2>2. ASSUME Heartbeat(w) \/ HeartbeatDies(w) \/ ApiAccepts(w) PROVE FALSE
    <3>1. CASE Heartbeat(w) \/ HeartbeatDies(w)
      BY <1>2, <1>4, <3>1, HeartbeatKeeps DEF Calling
    <3>2. CASE ApiAccepts(w)
      <4>1. workers'[w].job = workers[w].job /\ Calling(w)
        BY <1>1, <3>2 DEF ApiAccepts, Worker, Calling
      <4>2. QED BY <1>2, <1>4, <4>1
    <3>3. QED BY <2>2, <3>1, <3>2
  <2>3. QED BY <1>4, <2>1, <2>2, CallSteps
<1>6. workers[w].job = d
  BY <1>1, <1>4, <1>5 DEF Claim, Worker
<1>7. CanClaim(d) /\ rows' = Claimed(w, d)
  BY <1>5, <1>6 DEF Claim
<1>8. QED BY <1>7, ClaimedAtHead

(* New rows go behind: what is active ahead of an old row was so before. *)
LEMMA NothingGetsAhead ==
  ASSUME TypeOK, [Next]_vars, NEW d \in Deliveries,
         rows'[d].id = rows[d].id, rows[d].id <= lastId,
         NEW e \in Before(rows', d), rows'[e].status \in ActiveStatus
  PROVE  e \in Before(rows, d) /\ Active(e)
<1>1. e \in Deliveries /\ SamePeer(d, e) /\ rows'[e].id < rows'[d].id
  BY DEF Before
<1>2. lastId \in Nat /\ rows'[e].id \in Nat /\ rows[d].id \in Nat
  BY <1>1, TypeStep DEF TypeOK, Row
<1>3. ~RowInserted(e)
  BY <1>1, <1>2 DEF RowInserted
<1>4. Active(e) /\ rows'[e].id = rows[e].id
  BY <1>1, <1>3, RowSteps DEF RowStep, RowKept, RowExpired, RowClaimed, RowRenewed, RowLeft, RowPurged,
                       SameIdentity, Active, ActiveStatus, Holds
<1>5. QED BY <1>1, <1>4 DEF Before, Active, ActiveStatus

LEMMA DialogueInOrderStep ==
  TypeOK /\ CallsCovered /\ IdsGiven /\ DialogueInOrder /\ [Next]_vars => DialogueInOrder'
<1>. SUFFICES ASSUME TypeOK, CallsCovered, IdsGiven, DialogueInOrder, [Next]_vars,
                     NEW d \in Deliveries, Begun(d)',
                     NEW e \in Before(rows', d), rows'[e].status \in ActiveStatus
              PROVE  FALSE
  BY DEF DialogueInOrder, Begun, Active, Calling
<1>1. Begun(d)
  BY BeginsAtHead DEF AtHead
<1>2. rows'[d].id = rows[d].id /\ rows[d].id <= lastId
  BY <1>1, BegunKept
<1>3. e \in Before(rows, d) /\ Active(e)
  BY <1>2, NothingGetsAhead
<1>4. QED BY <1>1, <1>3 DEF DialogueInOrder, Begun

\* claim: no message of a dialogue is sent before those that came earlier are
\* settled, and none of them becomes active again afterwards.
THEOREM DialogueOrder ==
  ASSUME LeaseCoversCall
  PROVE  Spec => []DialogueInOrder
<1>1. Init => IdsGiven /\ DialogueInOrder
  <2>. SUFFICES ASSUME Init PROVE IdsGiven /\ DialogueInOrder
    OBVIOUS
  <2>1. \A d \in Deliveries : rows[d].status = "absent" /\ accepted[d] = 0
    BY DEF Init, NoRow
  <2>2. \A w \in Workers : ~Calling(w)
    BY DEF Init, Calling, IdleWorker
  <2>3. QED BY <2>1, <2>2 DEF IdsGiven, DialogueInOrder
<1>2. Covered /\ IdsGiven /\ DialogueInOrder /\ [Next]_vars => (IdsGiven /\ DialogueInOrder)'
  BY IdsGivenStep, DialogueInOrderStep DEF Covered
<1>3. QED BY <1>1, <1>2, AlwaysCovered, PTL DEF Spec

-----------------------------------------------------------------------------
(* An accepted call until its result is written *)

(* The handler of an accepted call still has its answer, wrote it, or left the
   delivery without it. *)
LEMMA AnswerSteps ==
  ASSUME TypeOK, [Next]_vars, NEW w \in Workers, AnswerUnrecorded(w)
  PROVE  LET d == workers[w].job IN
         \/ AnswerUnrecorded(w)' /\ workers'[w].job = d
         \/ d \in lost'
         \/ Holds(w, d) /\ rows'[d].status = "sent"
<1>. DEFINE d == workers[w].job
<1>0. /\ workers \in [Workers -> Worker] /\ rows \in [Deliveries -> Row]
      /\ d \in Deliveries /\ LostWith(w) = lost \union {d}
  BY JobType DEF TypeOK, AnswerUnrecorded, Idle, LostWith
<1>1. CASE SameCall(w)
  BY <1>1 DEF SameCall, AnswerUnrecorded
<1>2. CASE Crash
  BY <1>0, <1>2 DEF Crash
<1>3. CASE Handler(w)
  <2>1. CASE Heartbeat(w) \/ HeartbeatDies(w)
    <3>1. /\ workers'[w].job = d /\ workers'[w].pc = workers[w].pc
          /\ workers'[w].outcome = workers[w].outcome
      BY <2>1, HeartbeatKeeps
    <3>2. QED BY <3>1 DEF AnswerUnrecorded
  <2>2. CASE ApiAnswers(w)
    BY <1>0, <2>2 DEF ApiAnswers, CallEnds, AnswerUnrecorded, Worker
  <2>3. CASE CallBreaks(w)
    BY <1>0, <2>3 DEF CallBreaks, Calling, AnswerUnrecorded
  <2>4. CASE FinishFails(w)
    BY <1>0, <2>4 DEF FinishFails
  <2>5. CASE Finish(w) \/ Cancel(w)
    <3>1. CASE lost' = LostWith(w)
      BY <1>0, <3>1
    <3>2. CASE /\ Holds(w, d) /\ workers[w].pc = "ended"
               /\ rows' = Finished(w, d, FinalStatus(workers[w].outcome), workers[w].delay)
      <4>1. FinalStatus(workers[w].outcome) = "sent"
        BY <3>2 DEF AnswerUnrecorded, FinalStatus
      <4>2. rows'[d].status = "sent"
        BY <1>0, <3>2, <4>1 DEF Finished, Row
      <4>3. QED BY <3>2, <4>2
    <3>3. QED BY <2>5, <3>1, <3>2 DEF Finish, Cancel
  <2>6. CASE Claim(w) \/ ApiAccepts(w) \/ ApiRefuses(w) \/ Record(w)
    BY <2>6 DEF Claim, ApiAccepts, ApiRefuses, Record, AnswerUnrecorded
  <2>7. QED BY <1>3, <2>1, <2>2, <2>3, <2>4, <2>5, <2>6 DEF Handler
<1>4. CASE Idle(w)
  BY <1>4 DEF Idle, AnswerUnrecorded
<1>5. QED BY <1>1, <1>2, <1>3, <1>4, WorkerSteps

(* An answer comes from a call the API accepted. *)
LEMMA AnswerOrigin ==
  ASSUME TypeOK, [Next]_vars, NEW w \in Workers, AnswerUnrecorded(w)'
  PROVE  /\ workers'[w].job = workers[w].job
         /\ AnswerUnrecorded(w) \/ ApiAccepts(w)
<1>0. workers \in [Workers -> Worker]
  BY DEF TypeOK
<1>1. CASE SameCall(w)
  BY <1>1 DEF SameCall, AnswerUnrecorded
<1>2. CASE Handler(w)
  <2>1. CASE Claim(w) /\ CanClaim(workers[w].job)
    <3>1. workers'[w].pc = "sending"
      BY <1>0, <2>1 DEF Claim, Worker
    <3>2. QED BY <3>1 DEF AnswerUnrecorded
  <2>2. CASE Heartbeat(w) \/ HeartbeatDies(w)
    BY <2>2, HeartbeatKeeps DEF AnswerUnrecorded
  <2>3. CASE ApiAccepts(w)
    BY <1>0, <2>3 DEF ApiAccepts, Worker
  <2>4. CASE ApiAnswers(w)
    BY <1>0, <2>4 DEF ApiAnswers, CallEnds, AnswerUnrecorded, Worker
  <2>5. CASE \/ workers'[w].pc = "ended" /\ workers'[w].outcome # "ok"
             \/ workers'[w].pc \in {"idle", "recording"}
    BY <2>5 DEF AnswerUnrecorded
  <2>6. QED BY <1>2, <2>1, <2>2, <2>3, <2>4, <2>5, HandlerSteps
<1>3. CASE workers'[w].pc \in {"idle", "admitted"}
  BY <1>3 DEF AnswerUnrecorded
<1>4. QED BY <1>1, <1>2, <1>3, WorkerSteps

(* A lease is never regained, only claimed. *)
LEMMA HoldsOrigin ==
  ASSUME TypeOK, [Next]_vars, NEW w \in Workers, NEW d \in Deliveries,
         workers[w].pc # "admitted", Holds(w, d)'
  PROVE  Holds(w, d) /\ ~RowPurged(d)
BY RowSteps DEF RowStep, RowKept, RowInserted, RowExpired, RowClaimed, RowRenewed, RowLeft,
                RowPurged, Holds, FinalStatus

-----------------------------------------------------------------------------
(* "sent" is true *)

AnswersAccepted ==
  \A w \in Workers :
    AnswerUnrecorded(w) /\ Holds(w, workers[w].job) => accepted[workers[w].job] > 0

LEMMA AnswersAcceptedInit == Init => AnswersAccepted
  BY DEF Init, AnswersAccepted, AnswerUnrecorded, IdleWorker

LEMMA AnswersAcceptedStep == TypeOK /\ AnswersAccepted /\ [Next]_vars => AnswersAccepted'
<1>. SUFFICES ASSUME TypeOK, AnswersAccepted, [Next]_vars,
                     NEW w \in Workers, NEW d, workers'[w].job = d,
                     AnswerUnrecorded(w)', Holds(w, d)'
              PROVE  accepted'[d] > 0
  BY DEF AnswersAccepted, Holds
<1>1. workers[w].job = d /\ (AnswerUnrecorded(w) \/ ApiAccepts(w))
  BY AnswerOrigin
<1>2. d \in Deliveries /\ workers[w].pc # "admitted"
  BY <1>1, JobType DEF AnswerUnrecorded, ApiAccepts, Idle
<1>3. CASE ApiAccepts(w)
  BY <1>1, <1>2, <1>3 DEF ApiAccepts, TypeOK, Least
<1>4. CASE AnswerUnrecorded(w)
  <2>1. Holds(w, d) /\ ~RowPurged(d)
    BY <1>2, HoldsOrigin
  <2>2. accepted[d] > 0
    BY <1>1, <1>4, <2>1 DEF AnswersAccepted
  <2>3. QED BY <1>2, <2>1, <2>2, AcceptedSteps
<1>5. QED BY <1>1, <1>3, <1>4

LEMMA SentWasAcceptedStep ==
  TypeOK /\ AnswersAccepted /\ SentWasAccepted /\ [Next]_vars => SentWasAccepted'
<1>. SUFFICES ASSUME TypeOK, AnswersAccepted, SentWasAccepted, [Next]_vars,
                     NEW d \in Deliveries, rows'[d].status = "sent"
              PROVE  accepted'[d] > 0
  BY DEF SentWasAccepted
<1>1. RowKept(d) \/ RowLeft(d)
  BY RowSteps DEF RowStep, RowInserted, RowExpired, RowClaimed, RowRenewed, RowPurged
<1>2. CASE RowKept(d)
  <2>1. accepted[d] > 0
    BY <1>2 DEF RowKept, SentWasAccepted
  <2>2. ~RowPurged(d)
    BY DEF RowPurged
  <2>3. QED BY <2>1, <2>2, AcceptedSteps
<1>3. CASE RowLeft(d)
  <2>1. PICK w \in Workers : /\ Holds(w, d) /\ workers[w].job = d /\ workers[w].pc = "ended"
                             /\ FinalStatus(workers[w].outcome) = "sent"
    BY <1>3 DEF RowLeft
  <2>2. AnswerUnrecorded(w)
    BY <2>1 DEF FinalStatus, AnswerUnrecorded
  <2>3. QED BY <1>3, <2>1, <2>2 DEF AnswersAccepted, RowLeft
<1>4. QED BY <1>1, <1>2, <1>3

\* finish: a job that is recorded as sent was taken by the API, for any
\* parameters: no lease or heartbeat needs to be trusted for this.
THEOREM SentIsTrue == Spec => []SentWasAccepted
<1>1. Init => AnswersAccepted /\ SentWasAccepted
  BY AnswersAcceptedInit DEF Init, SentWasAccepted, NoRow
<1>2. TypeOK /\ AnswersAccepted /\ SentWasAccepted /\ [Next]_vars
        => (AnswersAccepted /\ SentWasAccepted)'
  BY AnswersAcceptedStep, SentWasAcceptedStep
<1>3. QED BY <1>1, <1>2, TypeCorrect, PTL DEF Spec

-----------------------------------------------------------------------------
(* A repeated message was lost first *)

(* An accepted message is recorded, about to be, or lost. *)
AcceptedAccounted ==
  \A d \in Deliveries :
    accepted[d] > 0 => \/ rows[d].status = "sent"
                       \/ d \in lost
                       \/ \E w \in Workers : AnswerUnrecorded(w) /\ workers[w].job = d

LEMMA LostStays ==
  ASSUME TypeOK, [Next]_vars, NEW d \in lost
  PROVE  d \in lost' \/ RowPurged(d)
<1>0. d \in Deliveries
  BY DEF TypeOK
<1>1. CASE \E b \in Batches : Enqueue(b)
  BY <1>1 DEF Enqueue, historyVars
<1>2. CASE Pump
  <2>1. CASE PumpPurge
    BY <1>0, <2>1, PurgedRow DEF PumpPurge
  <2>2. QED BY <1>2, <2>1 DEF Pump, PumpReserve, PumpPublish, PumpPublishFails, PumpSpawn,
                              historyVars
<1>3. CASE Broker
  BY <1>3 DEF Broker, Consume, Discard, ConnectionLost, historyVars
<1>4. CASE \E w \in Workers : Handler(w)
  BY <1>4 DEF Handler, Claim, Heartbeat, HeartbeatDies, ApiAccepts, ApiAnswers, ApiRefuses,
              CallBreaks, Finish, FinishFails, Record, Cancel, LostWith, historyVars
<1>5. CASE Stop \/ Stopped \/ Crash \/ Start \/ Tick \/ UNCHANGED vars
  BY <1>5 DEF Stop, Stopped, Crash, Start, Tick, vars, historyVars
<1>6. QED BY <1>1, <1>2, <1>3, <1>4, <1>5 DEF Next

LEMMA AcceptedAccountedStep ==
  TypeOK /\ AcceptedAccounted /\ [Next]_vars => AcceptedAccounted'
<1>. SUFFICES ASSUME TypeOK, AcceptedAccounted, [Next]_vars,
                     NEW d \in Deliveries, accepted'[d] > 0
              PROVE  \/ rows'[d].status = "sent"
                     \/ d \in lost'
                     \/ \E w \in Workers : AnswerUnrecorded(w)' /\ workers'[w].job = d
  BY DEF AcceptedAccounted, AnswerUnrecorded
<1>1. ~RowPurged(d)
  BY DEF RowPurged
<1>2. CASE \E w \in Workers : ApiAccepts(w) /\ workers[w].job = d
  BY <1>2 DEF ApiAccepts, AnswerUnrecorded, TypeOK, Worker
<1>3. CASE accepted'[d] = accepted[d]
  <2>1. CASE rows[d].status = "sent"
    BY <1>1, <2>1, RowSteps DEF RowStep, RowKept, RowInserted, RowExpired, RowClaimed, RowRenewed,
                                RowLeft, Holds, Active, ActiveStatus
  <2>2. CASE d \in lost
    BY <1>1, <2>2, LostStays
  <2>3. CASE \E w \in Workers : AnswerUnrecorded(w) /\ workers[w].job = d
    BY <2>3, AnswerSteps
  <2>4. QED BY <1>3, <2>1, <2>2, <2>3 DEF AcceptedAccounted
<1>4. QED BY <1>1, <1>2, <1>3, AcceptedSteps

LEMMA DuplicateStep ==
  /\ TypeOK /\ CallsCovered /\ OneActiveHandler /\ AcceptedAccounted
  /\ DuplicateOnlyAfterLoss /\ [Next]_vars
  => DuplicateOnlyAfterLoss'
<1>. DEFINE Stale(w, d) == AnswerUnrecorded(w) /\ workers[w].pc = "ended" /\ workers[w].job = d
                             /\ ~Holds(w, d)
<1>. SUFFICES ASSUME TypeOK, CallsCovered, OneActiveHandler, AcceptedAccounted,
                     DuplicateOnlyAfterLoss, [Next]_vars,
                     NEW d \in Deliveries, accepted'[d] = 2
              PROVE  d \in lost' \/ \E w \in Workers : Stale(w, d)'
  BY DEF DuplicateOnlyAfterLoss, AnswerUnrecorded, Holds
<1>1. ~RowPurged(d)
  BY DEF RowPurged
<1>2. d \in lost \/ \E w \in Workers : Stale(w, d)
  <2>1. CASE accepted[d] = 2
    BY <2>1 DEF DuplicateOnlyAfterLoss, AnswerUnrecorded
  <2>2. CASE accepted[d] # 2
    <3>1. PICK w \in Workers : ApiAccepts(w) /\ workers[w].job = d
      BY <1>1, <2>2, AcceptedSteps
    <3>2. accepted[d] > 0
      BY <2>2, <3>1 DEF ApiAccepts, TypeOK, Least
    <3>3. /\ Calling(w) /\ workers[w].pc = "sending"
          /\ rows[d].status = "processing" /\ rows[d].token = w
      BY <3>1, LeaseHeld DEF ApiAccepts, Calling
    <3>4. CASE \E v \in Workers : AnswerUnrecorded(v) /\ workers[v].job = d
      <4>1. PICK v \in Workers : AnswerUnrecorded(v) /\ workers[v].job = d
        BY <3>4
      <4>2. v # w
        BY <3>3, <4>1 DEF AnswerUnrecorded
      <4>3. workers[v].pc = "ended"
        BY <3>1, <3>3, <4>1, <4>2 DEF AnswerUnrecorded, OneActiveHandler, Calling
      <4>4. ~Holds(v, d)
        BY <3>3, <4>2 DEF Holds
      <4>5. QED BY <4>1, <4>3, <4>4
    <3>5. QED BY <3>2, <3>3, <3>4 DEF AcceptedAccounted
  <2>3. QED BY <2>1, <2>2
<1>3. CASE d \in lost
  BY <1>1, <1>3, LostStays
<1>4. ASSUME NEW w \in Workers, Stale(w, d)
      PROVE  d \in lost' \/ Stale(w, d)'
  <2>1. \/ AnswerUnrecorded(w)' /\ workers'[w].job = d
        \/ d \in lost'
    BY <1>4, AnswerSteps
  <2>2. ~Holds(w, d)'
    BY <1>4, HoldsOrigin
  <2>3. AnswerUnrecorded(w)' => workers'[w].pc = "ended"
    <3>1. workers \in [Workers -> Worker]
      BY DEF TypeOK
    <3>2. ASSUME workers'[w].pc = "taken" PROVE FALSE
      <4>1. ~SameCall(w)
        BY <1>4, <3>2 DEF SameCall
      <4>2. ~(Claim(w) \/ ApiAccepts(w))
        BY <1>4 DEF Claim, ApiAccepts
      <4>3. ~(Heartbeat(w) \/ HeartbeatDies(w))
        BY <1>4, <3>1, <3>2 DEF Heartbeat, HeartbeatDies, Worker
      <4>4. QED BY <3>2, <4>1, <4>2, <4>3, CallSteps DEF Calling
    <3>3. QED BY <3>2 DEF AnswerUnrecorded
  <2>4. QED BY <2>1, <2>2, <2>3
<1>5. QED BY <1>2, <1>3, <1>4

\* A message is delivered twice only after the result of an accepted call was
\* lost or while its late handler has yet to notice that it is not the owner.
THEOREM DuplicatesExplained ==
  ASSUME LeaseCoversCall
  PROVE  Spec => []DuplicateOnlyAfterLoss
<1>1. Init => AcceptedAccounted /\ DuplicateOnlyAfterLoss
  BY DEF Init, AcceptedAccounted, DuplicateOnlyAfterLoss
<1>2. /\ Covered /\ OneActiveHandler /\ AcceptedAccounted /\ DuplicateOnlyAfterLoss
      /\ [Next]_vars
      => (AcceptedAccounted /\ DuplicateOnlyAfterLoss)'
  BY AcceptedAccountedStep, DuplicateStep DEF Covered
<1>3. QED BY <1>1, <1>2, AlwaysCovered, OneHandler, PTL DEF Spec

-----------------------------------------------------------------------------
(* Notifications are switched off for a recorded failure *)

(***************************************************************************)
(* No ID is enqueued again once its row may have been purged: the IDs of   *)
(* delivery_context belong to one update or one broadcast, and neither is  *)
(* repeated three months later.  The bounds of the model say it by ending  *)
(* the producers' work first.                                              *)
(***************************************************************************)
NoIdRepeated == EnqueueUntil <= Retention

(* What _record was told is still in the table, unless it was purged since. *)
RefusalRecorded(w) ==
  LET d == workers[w].job IN
  \/ rows[d].status = "failed"
  \/ rows[d].status = "absent" /\ Retention < now

Refusing(w) == workers[w].pc = "recording" /\ workers[w].outcome = "refused"

RefusalsRecorded == \A w \in Workers : Refusing(w) => RefusalRecorded(w)

(* A handler records a refusal because its own finish wrote it. *)
LEMMA RefusingSteps ==
  ASSUME TypeOK, [Next]_vars, NEW w \in Workers, Refusing(w)'
  PROVE  \/ Refusing(w) /\ workers'[w].job = workers[w].job
         \/ Finish(w) /\ Holds(w, workers[w].job) /\ workers'[w].job = workers[w].job
                      /\ workers[w].outcome = "refused"
<1>0. workers \in [Workers -> Worker] /\ workers[w] \in Worker
  BY DEF TypeOK
<1>1. CASE SameCall(w)
  BY <1>1 DEF SameCall, Refusing
<1>2. CASE Handler(w)
  <2>1. CASE Heartbeat(w) \/ HeartbeatDies(w)
    BY <2>1, HeartbeatKeeps DEF Refusing
  <2>2. CASE Finish(w)
    <3>1. CASE Holds(w, workers[w].job)
      <4>1. workers'[w] = [workers[w] EXCEPT !.pc = "recording", !.beating = FALSE, !.beatAt = 0]
        BY <1>0, <2>2, <3>1 DEF Finish
      <4>2. workers'[w].job = workers[w].job /\ workers'[w].outcome = workers[w].outcome
        BY <1>0, <4>1 DEF Worker
      <4>3. QED BY <2>2, <3>1, <4>2 DEF Refusing
    <3>2. CASE ~Holds(w, workers[w].job)
      BY <1>0, <2>2, <3>2 DEF Finish, Refusing, IdleWorker
    <3>3. QED BY <3>1, <3>2
  <2>3. CASE Claim(w)
    BY <1>0, <2>3 DEF Claim, Refusing, IdleWorker, Worker
  <2>4. CASE ApiAccepts(w)
    BY <1>0, <2>4 DEF ApiAccepts, Refusing, Worker
  <2>5. CASE ApiAnswers(w) \/ ApiRefuses(w) \/ CallBreaks(w)
    <3>1. \E outcome, delay : workers' = CallEnds(w, outcome, delay)
      BY <2>5 DEF ApiAnswers, ApiRefuses, CallBreaks
    <3>2. workers'[w].pc = "ended"
      BY <1>0, <3>1 DEF CallEnds, Worker
    <3>3. QED BY <3>2 DEF Refusing
  <2>6. CASE FinishFails(w) \/ Record(w) \/ Cancel(w)
    BY <1>0, <2>6 DEF FinishFails, Record, Cancel, Refusing, IdleWorker
  <2>7. QED BY <1>2, <2>1, <2>2, <2>3, <2>4, <2>5, <2>6 DEF Handler
<1>3. CASE workers'[w].pc \in {"idle", "admitted"}
  BY <1>3 DEF Refusing
<1>4. QED BY <1>1, <1>2, <1>3, WorkerSteps

LEMMA RefusalsRecordedStep ==
  ASSUME NoIdRepeated
  PROVE  TypeOK /\ RefusalsRecorded /\ [Next]_vars => RefusalsRecorded'
<1>. SUFFICES ASSUME TypeOK, RefusalsRecorded, [Next]_vars,
                     NEW w \in Workers, Refusing(w)', NEW d, workers'[w].job = d
              PROVE  rows'[d].status = "failed" \/ (rows'[d].status = "absent" /\ Retention < now')
  BY DEF RefusalsRecorded, RefusalRecorded
<1>1. workers[w].job = d /\ d \in Deliveries
  <2>1. workers[w].job = d /\ workers[w].pc \in {"ended", "recording"}
    BY RefusingSteps DEF Refusing, Finish
  <2>2. QED BY <2>1, JobType DEF Idle
<1>2. CASE Finish(w) /\ Holds(w, d) /\ workers[w].outcome = "refused"
  <2>1. rows'[d] = [rows[d] EXCEPT !.status = "failed",
                      !.nextAttempt = now + workers[w].delay, !.nextPublish = 0,
                      !.token = NoWorker, !.leaseUntil = 0]
    BY <1>1, <1>2 DEF Finish, Finished, FinalStatus, TypeOK
  <2>2. QED BY <1>1, <2>1 DEF TypeOK, Row
<1>3. CASE Refusing(w)
  <2>1. rows[d].status = "failed" \/ (rows[d].status = "absent" /\ Retention < now)
    BY <1>1, <1>3 DEF RefusalsRecorded, RefusalRecorded
  <2>2. now \in Nat /\ now' \in Nat /\ now <= now' /\ Retention \in Nat /\ EnqueueUntil \in Nat
    BY Clock, TypeStep, StoreAssumption, OutboxAssumption DEF TypeOK, Tick
  <2>3. ~RowInserted(d)
    BY <2>1, <2>2 DEF RowInserted, NoIdRepeated
  <2>4. RowKept(d) \/ RowPurged(d)
    BY <1>1, <2>1, <2>3, RowSteps DEF RowStep, RowExpired, RowClaimed, RowRenewed, RowLeft, Holds,
                                     Active, ActiveStatus
  <2>5. QED BY <2>1, <2>2, <2>4 DEF RowKept, RowPurged
<1>4. QED BY <1>1, <1>2, <1>3, RefusingSteps

(* Nothing but _record switches a dialogue off. *)
LEMMA DisabledSteps ==
  ASSUME [Next]_vars, NEW p \in disabled' \ disabled
  PROVE  \E w \in Workers : Refusing(w) /\ PeerOf(workers[w].job) = p
<1>1. CASE \E b \in Batches : Enqueue(b)
  BY <1>1 DEF Enqueue
<1>2. CASE Pump
  BY <1>2 DEF Pump, PumpReserve, PumpPublish, PumpPublishFails, PumpSpawn, PumpPurge
<1>3. CASE Broker
  BY <1>3 DEF Broker, Consume, Discard, ConnectionLost
<1>4. ASSUME NEW w \in Workers, Handler(w)
      PROVE  Refusing(w) /\ PeerOf(workers[w].job) = p
  BY <1>4 DEF Handler, Claim, Heartbeat, HeartbeatDies, ApiAccepts, ApiAnswers, ApiRefuses,
              CallBreaks, Finish, FinishFails, Record, Cancel, Refusing
<1>5. CASE Stop \/ Stopped \/ Crash \/ Start \/ Tick \/ UNCHANGED vars
  BY <1>5 DEF Stop, Stopped, Crash, Start, Tick, NoProcess, vars
<1>6. QED BY <1>1, <1>2, <1>3, <1>4, <1>5 DEF Next

\* _record: a user is switched off only by a handler whose own finish recorded
\* the refusal, however many stale handlers, retries and restarts there are.
THEOREM OnlyFailuresDisable ==
  ASSUME NoIdRepeated
  PROVE  Spec => DisabledByFailure
<1>1. Init => RefusalsRecorded
  BY DEF Init, RefusalsRecorded, Refusing, IdleWorker
<1>2. TypeOK /\ RefusalsRecorded /\ [Next]_vars => RefusalsRecorded'
  BY RefusalsRecordedStep
<1>3. TypeOK /\ RefusalsRecorded /\ [Next]_vars =>
        [\A p \in disabled' \ disabled :
           \E w \in Workers :
             /\ workers[w].pc = "recording" /\ PeerOf(workers[w].job) = p
             /\ rows[workers[w].job].status \in {"failed", "absent"}]_vars
  BY DisabledSteps DEF RefusalsRecorded, RefusalRecorded, Refusing
<1>4. QED BY <1>1, <1>2, <1>3, TypeCorrect, PTL DEF Spec, DisabledByFailure

-----------------------------------------------------------------------------
(* Places in a dialogue *)

(* AUTOINCREMENT: no row is ahead of the counter, and no row has no place. *)
PlacesGiven ==
  \A d \in Deliveries :
    /\ rows[d].id <= lastId
    /\ rows[d].status = "absent" => rows[d].id = 0

(* claim's NOT EXISTS: whoever may still write the result of a delivery, late
   or not, finds it at the head of its dialogue. *)
ProcessedAtHead ==
  \A d \in Deliveries :
    rows[d].status = "processing" => \A e \in Before(rows, d) : ~Active(e)

LEMMA PlacesGivenStep == TypeOK /\ PlacesGiven /\ [Next]_vars => PlacesGiven'
<1>. SUFFICES ASSUME TypeOK, PlacesGiven, [Next]_vars, NEW d \in Deliveries
              PROVE  rows'[d].id <= lastId' /\ (rows'[d].status = "absent" => rows'[d].id = 0)
  BY DEF PlacesGiven
<1>1. /\ lastId \in Nat /\ lastId' \in Nat /\ lastId <= lastId'
      /\ rows[d].id \in Nat /\ rows[d].id <= lastId
      /\ rows[d].status = "absent" => rows[d].id = 0
  BY TypeStep, CounterGrows DEF TypeOK, Row, PlacesGiven
<1>2. RowStep(d)
  BY RowSteps
<1>3. CASE RowInserted(d) \/ RowPurged(d)
  BY <1>1, <1>3 DEF RowInserted, RowPurged
<1>4. CASE RowKept(d)
  BY <1>1, <1>4 DEF RowKept, SameIdentity
<1>5. CASE RowExpired(d) \/ RowClaimed(d) \/ RowRenewed(d) \/ RowLeft(d)
  <2>1. rows'[d].id = rows[d].id /\ rows'[d].status # "absent"
    BY <1>5 DEF RowExpired, RowClaimed, RowRenewed, RowLeft, SameIdentity, FinalStatus
  <2>2. QED BY <1>1, <2>1
<1>6. QED BY <1>2, <1>3, <1>4, <1>5 DEF RowStep

LEMMA ProcessedAtHeadStep ==
  TypeOK /\ PlacesGiven /\ ProcessedAtHead /\ [Next]_vars => ProcessedAtHead'
<1>. SUFFICES ASSUME TypeOK, PlacesGiven, ProcessedAtHead, [Next]_vars,
                     NEW d \in Deliveries, rows'[d].status = "processing",
                     NEW e \in Before(rows', d), rows'[e].status \in ActiveStatus
              PROVE  FALSE
  BY DEF ProcessedAtHead, Active
<1>1. RowStep(d) /\ ~RowClaimed(d)
  BY RowSteps DEF RowClaimed, AtHead
<1>2. rows[d].status = "processing" /\ rows'[d].id = rows[d].id
  BY <1>1 DEF RowStep, RowKept, RowInserted, RowExpired, RowRenewed, RowLeft, RowPurged,
              SameIdentity, FinalStatus
<1>3. e \in Before(rows, d) /\ Active(e)
  BY <1>2, NothingGetsAhead DEF PlacesGiven
<1>4. QED BY <1>2, <1>3 DEF ProcessedAtHead

-----------------------------------------------------------------------------
(* What the producers see of a step *)

LEMMA PromisedIs ==
  ASSUME TypeOK, NEW d \in Deliveries
  PROVE  /\ Promised(d) = "none" <=> rows[d].status = "absent"
         /\ Promised(d) = "waiting" <=> Active(d)
         /\ Settled(d) => Promised(d) = rows[d].status
<1>1. rows[d].status \in ActiveStatus \union TerminalStatus \union {"absent"}
  BY DEF TypeOK, Row
<1>2. QED BY <1>1 DEF Promised, Active, Settled, ActiveStatus, TerminalStatus

LEMMA PromisedDepends ==
  ASSUME TypeOK, NEW d \in Deliveries,
         \/ rows'[d].status = rows[d].status
         \/ Active(d) /\ rows'[d].status \in ActiveStatus
  PROVE  Promised(d)' = Promised(d)
BY DEF Promised, Active, ActiveStatus

(* Nothing a producer sees changes. *)
Unseen ==
  /\ \A d \in Deliveries : Promised(d)' = Promised(d) /\ rows'[d].id = rows[d].id
  /\ UNCHANGED accepted

PromiseStep == [Promise!PromiseNext]_(Promise!promiseVars)

LEMMA UnseenStutters ==
  ASSUME Unseen PROVE PromiseStep
BY DEF Unseen, PromiseStep, Promise!promiseVars

LEMMA ProcessedIsHead ==
  ASSUME TypeOK, ProcessedAtHead, NEW d \in Deliveries, rows[d].status = "processing"
  PROVE  Promise!Head(d)
<1>1. Promised(d) = "waiting"
  BY PromisedIs DEF Active, ActiveStatus
<1>2. ASSUME NEW e \in Deliveries, PeerOf(e) = PeerOf(d), Promised(e) = "waiting",
             rows[e].id < rows[d].id
      PROVE  FALSE
  <2>1. Active(e) /\ rows[e].status # "absent"
    BY <1>2, PromisedIs DEF Active, ActiveStatus
  <2>2. SamePeer(d, e)
    BY <1>2 DEF PeerOf, SamePeer
  <2>3. QED BY <1>2, <2>1, <2>2 DEF ProcessedAtHead, Before
<1>3. QED BY <1>1, <1>2 DEF Promise!Head, Promise!Ahead

(* enqueue_many gives the new rows places behind all others. *)
LEMMA EnqueueSubmits ==
  ASSUME TypeOK, PlacesGiven, NEW b \in Batches, Enqueue(b)
  PROVE  Promise!Submit(Inserted(b))
<1>. DEFINE S == Inserted(b)
<1>0. S \subseteq Deliveries
  BY DEF Inserted
<1>1. /\ rows' = EnqueueMany(b) /\ lastId' = lastId + Len(b)
      /\ UNCHANGED accepted
  BY DEF Enqueue, historyVars
<1>2. ASSUME NEW d \in S
      PROVE  /\ rows[d].status = "absent" /\ rows'[d].status = "pending"
             /\ rows'[d].id = lastId + Position(b, d)
             /\ Position(b, d) \in Nat \ {0} /\ b[Position(b, d)] = d
  <2>1. b \in Seq(Deliveries) /\ Position(b, d) \in DOMAIN b /\ b[Position(b, d)] = d
    BY EnqueueType, OutboxAssumption
  <2>2. Position(b, d) \in Nat \ {0}
    BY <2>1
  <2>3. QED BY <1>1, <2>1, <2>2 DEF EnqueueMany, NoRow, Inserted
<1>3. ASSUME NEW d \in Deliveries \ S PROVE rows'[d] = rows[d]
  BY <1>1, <1>3 DEF EnqueueMany
<1>4. \A d \in S : Promised(d) = "none" /\ Promised(d)' = "waiting"
  BY <1>0, <1>2 DEF Promised, Active, ActiveStatus
<1>5. \A d \in Deliveries \ S : Promised(d)' = Promised(d)
  BY <1>3, PromisedDepends
<1>6. ASSUME NEW d \in S, NEW e \in Deliveries
      PROVE  /\ e \notin S => rows'[d].id > rows[e].id
             /\ e \in S /\ e # d => rows'[d].id # rows'[e].id
  <2>1. lastId \in Nat /\ rows[e].id \in Nat /\ rows[e].id <= lastId
    BY DEF TypeOK, Row, PlacesGiven
  <2>2. QED BY <1>2, <2>1
<1>7. QED BY <1>0, <1>1, <1>3, <1>4, <1>5, <1>6 DEF Promise!Submit

(* The rows the prelude of reserve_due and claim expires. *)
Overdue ==
  {d \in Deliveries : Active(d) /\ rows[d].expires <= now /\ rows[d].leaseUntil <= now}

LEMMA PreludeExpires ==
  ASSUME TypeOK, UNCHANGED accepted,
         \A d \in Deliveries :
           /\ rows'[d].id = Expired[d].id
           /\ \/ rows'[d].status = Expired[d].status
              \/ {rows'[d].status, Expired[d].status} \subseteq ActiveStatus
  PROVE  Promise!Expire(Overdue)
<1>1. ASSUME NEW d \in Overdue
      PROVE  Promised(d) = "waiting" /\ Promised(d)' = "expired"
  <2>1. Expired[d].status = "expired" /\ Active(d) /\ d \in Deliveries
    BY DEF Overdue, Expired, TypeOK, Row
  <2>2. rows'[d].status = "expired"
    BY <2>1 DEF ActiveStatus
  <2>3. QED BY <2>1, <2>2, PromisedIs DEF Promised, Active, ActiveStatus
<1>2. ASSUME NEW d \in Deliveries \ Overdue PROVE Promised(d)' = Promised(d)
  <2>1. Expired[d] = rows[d]
    BY <1>2 DEF Overdue, Expired
  <2>2. QED BY <2>1, PromisedDepends DEF Active
<1>3. \A d \in Deliveries : rows'[d].id = rows[d].id
  BY ExpiredRow
<1>4. Overdue \subseteq Deliveries
  BY DEF Overdue
<1>5. QED BY <1>1, <1>2, <1>3, <1>4 DEF Promise!Expire

LEMMA ClaimExpires ==
  ASSUME TypeOK, UNCHANGED accepted, NEW w \in Workers, NEW e \in Deliveries,
         rows' = Claimed(w, e)
  PROVE  Promise!Expire(Overdue)
<1>1. Expired \in [Deliveries -> Row]
  BY ExpiredType
<1>2. ASSUME NEW d \in Deliveries
      PROVE  /\ rows'[d].id = Expired[d].id
             /\ \/ rows'[d].status = Expired[d].status
                \/ {rows'[d].status, Expired[d].status} \subseteq ActiveStatus
  <2>1. CASE d = e /\ CanClaim(e)
    <3>1. rows'[d] = [Expired[d] EXCEPT !.status = "processing", !.token = w,
                                        !.leaseUntil = now + Lease]
      BY <1>1, <2>1 DEF Claimed
    <3>2. Expired[d].status \in ActiveStatus
      BY <2>1 DEF CanClaim, Claimable
    <3>3. QED BY <1>1, <3>1, <3>2 DEF Row, ActiveStatus
  <2>2. CASE ~(d = e /\ CanClaim(e))
    BY <1>1, <2>2 DEF Claimed
  <2>3. QED BY <2>1, <2>2
<1>3. QED BY <1>2, PreludeExpires

LEMMA OneOfThePromise ==
  /\ \A S \in SUBSET Deliveries : Promise!Submit(S) => PromiseStep
  /\ \A S \in SUBSET Deliveries : Promise!Expire(S) => PromiseStep
  /\ \A S \in SUBSET Deliveries : Promise!Forget(S) => PromiseStep
  /\ \A d \in Deliveries : Promise!Take(d) => PromiseStep
  /\ \A d \in Deliveries, outcome \in {"sent", "failed"} :
       Promise!Conclude(d, outcome) => PromiseStep
BY DEF PromiseStep, Promise!PromiseNext

(* cleanup drops rows together with their history. *)
LEMMA PurgeForgets ==
  ASSUME TypeOK, PumpPurge
  PROVE  Promise!Forget(Purgeable)
<1>0. Purgeable \subseteq Deliveries
  BY DEF Purgeable
<1>1. ASSUME NEW d \in Purgeable
      PROVE  Promised(d)' = "none" /\ rows'[d].id = 0
  <2>1. rows'[d].status = "absent" /\ rows'[d].id = 0
    BY <1>0 DEF PumpPurge, Purged, NoRow
  <2>2. QED BY <2>1 DEF Promised, Active, ActiveStatus
<1>2. ASSUME NEW d \in Deliveries \ Purgeable
      PROVE  Promised(d)' = Promised(d) /\ rows'[d].id = rows[d].id
  BY PromisedDepends DEF PumpPurge, Purged
<1>3. QED BY <1>0, <1>1, <1>2 DEF PumpPurge, Promise!Forget

(* The API takes the message whose turn it is. *)
LEMMA AcceptTakes ==
  ASSUME TypeOK, CallsCovered, ProcessedAtHead, NEW w \in Workers, ApiAccepts(w),
         NEW d \in Deliveries, workers[w].job = d
  PROVE  Promise!Take(d)
<1>1. accepted[d] \in 0..2 /\ accepted \in [Deliveries -> 0..2]
  BY DEF TypeOK
<1>2. Promise!Head(d)
  BY AcceptedWhileHeld, ProcessedIsHead
<1>3. rows' = rows /\ accepted' = [accepted EXCEPT ![d] = IF @ = 0 THEN 1 ELSE 2]
  <2>1. rows' = rows /\ accepted' = [accepted EXCEPT ![d] = Least(accepted[d] + 1, 2)]
    BY DEF ApiAccepts, storeVars
  <2>2. Least(accepted[d] + 1, 2) = IF accepted[d] = 0 THEN 1 ELSE 2
    BY <1>1 DEF Least
  <2>3. QED BY <2>1, <2>2
<1>4. \A e \in Deliveries : Promised(e)' = Promised(e)
  BY <1>3, PromisedDepends
<1>5. QED BY <1>2, <1>3, <1>4 DEF Promise!Take

(* Only the holder of the row concludes a delivery, and it says "sent" of a
   message the API took. *)
LEMMA FinishConcludes ==
  ASSUME TypeOK, AnswersAccepted, ProcessedAtHead, UNCHANGED accepted,
         NEW w \in Workers, workers[w].pc = "ended",
         NEW d \in Deliveries, workers[w].job = d,
         NEW status, status = FinalStatus(workers[w].outcome),
         rows' = Finished(w, d, status, workers[w].delay)
  PROVE  PromiseStep
<1>0. rows \in [Deliveries -> Row]
  BY DEF TypeOK
<1>1. CASE ~Holds(w, d)
  <2>1. rows' = rows
    BY <1>1 DEF Finished
  <2>2. Unseen
    BY <2>1, PromisedDepends DEF Unseen
  <2>3. QED BY <2>2, UnseenStutters
<1>2. CASE Holds(w, d)
  <2>1. /\ rows[d].status = "processing" /\ Active(d)
        /\ rows'[d].status = status /\ rows'[d].id = rows[d].id
        /\ \A e \in Deliveries \ {d} : rows'[e] = rows[e]
    BY <1>0, <1>2 DEF Finished, Holds, Row, Active, ActiveStatus
  <2>2. \A e \in Deliveries \ {d} : Promised(e)' = Promised(e)
    BY <2>1, PromisedDepends
  <2>3. CASE status = "pending"
    <3>1. Promised(d)' = Promised(d)
      BY <1>0, <2>1, <2>3, PromisedDepends DEF ActiveStatus
    <3>2. Unseen
      BY <2>1, <2>2, <3>1 DEF Unseen
    <3>3. QED BY <3>2, UnseenStutters
  <2>4. CASE status # "pending"
    <3>1. status \in {"sent", "failed"} /\ (status = "sent" => AnswerUnrecorded(w))
      BY <2>4 DEF FinalStatus, AnswerUnrecorded
    <3>2. status = "sent" => accepted[d] > 0
      BY <1>2, <3>1 DEF AnswersAccepted
    <3>3. Promise!Head(d)
      BY <1>0, <2>1, ProcessedIsHead
    <3>4. Promised(d)' = status
      BY <2>1, <3>1 DEF Promised, Active, ActiveStatus
    <3>5. Promise!Conclude(d, status)
      BY <1>0, <2>1, <2>2, <3>2, <3>3, <3>4 DEF Promise!Conclude
    <3>6. QED BY <3>1, <3>5, OneOfThePromise
  <2>5. QED BY <2>3, <2>4
<1>3. QED BY <1>1, <1>2

-----------------------------------------------------------------------------
(* The step simulation *)

LEMMA KeptRowsUnseen ==
  ASSUME TypeOK, UNCHANGED <<rows, accepted>>
  PROVE  PromiseStep
<1>1. Unseen
  BY PromisedDepends DEF Unseen
<1>2. QED BY <1>1, UnseenStutters

LEMMA PumpKeepsPromise ==
  ASSUME TypeOK, Pump
  PROVE  PromiseStep
<1>1. ASSUME NEW p \in Platforms, PumpReserve(p) PROVE PromiseStep
  <2>1. Expired \in [Deliveries -> Row] /\ UNCHANGED accepted
    BY <1>1, ExpiredType DEF PumpReserve, historyVars
  <2>2. \A d \in Deliveries : rows'[d].id = Expired[d].id /\ rows'[d].status = Expired[d].status
    BY <1>1, <2>1 DEF PumpReserve, Reserved, Row
  <2>3. Promise!Expire(Overdue)
    BY <2>1, <2>2, PreludeExpires
  <2>4. Overdue \in SUBSET Deliveries
    BY DEF Overdue
  <2>5. QED BY <2>3, <2>4, OneOfThePromise
<1>2. ASSUME NEW d \in Deliveries, PumpPublish(d) \/ PumpPublishFails(d) \/ PumpSpawn(d)
      PROVE  PromiseStep
  BY <1>2, KeptRowsUnseen DEF PumpPublish, PumpPublishFails, PumpSpawn, storeVars, historyVars
<1>3. ASSUME PumpPurge PROVE PromiseStep
  <2>1. Promise!Forget(Purgeable)
    BY <1>3, PurgeForgets
  <2>2. Purgeable \in SUBSET Deliveries
    BY DEF Purgeable
  <2>3. PICK S \in SUBSET Deliveries : S = Purgeable
    BY <2>2
  <2>4. Promise!Forget(S)
    BY <2>1, <2>3 DEF Promise!Forget
  <2>5. QED BY <2>4, OneOfThePromise
<1>4. QED BY <1>1, <1>2, <1>3 DEF Pump

LEMMA HandlerKeepsPromise ==
  ASSUME TypeOK, CallsCovered, AnswersAccepted, ProcessedAtHead,
         NEW w \in Workers, Handler(w)
  PROVE  PromiseStep
<1>. DEFINE d == workers[w].job
<1>0. rows \in [Deliveries -> Row]
  BY DEF TypeOK
<1>1. CASE Claim(w) \/ (Cancel(w) /\ workers[w].pc = "admitted" /\ rows' = Claimed(w, d))
  <2>1. d \in Deliveries /\ UNCHANGED accepted /\ rows' = Claimed(w, d)
    BY <1>1, JobType DEF Claim, Cancel, Idle, historyVars
  <2>2. Promise!Expire(Overdue)
    BY <2>1, ClaimExpires
  <2>3. Overdue \in SUBSET Deliveries
    BY DEF Overdue
  <2>4. QED BY <2>2, <2>3, OneOfThePromise
<1>2. CASE Heartbeat(w)
  <2>1. \A e \in Deliveries : rows'[e].id = rows[e].id /\ rows'[e].status = rows[e].status
    BY <1>0, <1>2 DEF Heartbeat, Renewed, Row
  <2>2. Unseen
    BY <1>2, <2>1, PromisedDepends DEF Unseen, Heartbeat, historyVars
  <2>3. QED BY <2>2, UnseenStutters
<1>3. CASE ApiAccepts(w)
  <2>1. d \in Deliveries
    BY <1>3, JobType DEF ApiAccepts, Idle
  <2>2. QED BY <1>3, <2>1, AcceptTakes, OneOfThePromise
<1>4. CASE UNCHANGED <<rows, accepted>>
  BY <1>4, KeptRowsUnseen
<1>5. CASE Finish(w)
  <2>1. d \in Deliveries
    BY <1>5, JobType DEF Finish, Idle
  <2>2. QED BY <1>5, <2>1, FinishConcludes DEF Finish
<1>6. CASE Cancel(w) /\ rows' = Released(w, d)
  <2>1. ASSUME NEW e \in Deliveries
        PROVE  /\ rows'[e].id = rows[e].id
               /\ \/ rows'[e].status = rows[e].status
                  \/ Active(e) /\ rows'[e].status \in ActiveStatus
    BY <1>0, <1>6 DEF Released, Holds, Row, Active, ActiveStatus
  <2>2. Unseen
    BY <1>6, <2>1, PromisedDepends DEF Unseen, Cancel
  <2>3. QED BY <2>2, UnseenStutters
<1>7. CASE /\ Cancel(w) /\ workers[w].pc = "ended"
           /\ rows' = Finished(w, d, FinalStatus(workers[w].outcome), workers[w].delay)
  <2>1. d \in Deliveries
    BY <1>7, JobType DEF Idle
  <2>2. QED BY <1>7, <2>1, FinishConcludes DEF Cancel
<1>8. Cancel(w) => <1>1!1 \/ UNCHANGED <<rows, accepted>> \/ <1>6!1 \/ <1>7!1
  BY DEF Cancel
<1>9. QED BY <1>1, <1>2, <1>3, <1>4, <1>5, <1>6, <1>7, <1>8
          DEF Handler, HeartbeatDies, ApiAnswers, ApiRefuses, CallBreaks, FinishFails, Record,
              storeVars, historyVars

LEMMA StepKeepsPromise ==
  ASSUME TypeOK, CallsCovered, AnswersAccepted, PlacesGiven, ProcessedAtHead, [Next]_vars
  PROVE  PromiseStep
<1>1. ASSUME NEW b \in Batches, Enqueue(b) PROVE PromiseStep
  <2>1. Promise!Submit(Inserted(b))
    BY <1>1, EnqueueSubmits
  <2>2. Inserted(b) \in SUBSET Deliveries
    BY DEF Inserted
  <2>3. PICK S \in SUBSET Deliveries : S = Inserted(b)
    BY <2>2
  <2>4. Promise!Submit(S)
    BY <2>1, <2>3 DEF Promise!Submit
  <2>5. QED BY <2>4, OneOfThePromise
<1>2. CASE Pump
  BY <1>2, PumpKeepsPromise
<1>3. CASE Broker \/ Stop \/ Stopped \/ Crash \/ Start \/ Tick \/ UNCHANGED vars
  BY <1>3, KeptRowsUnseen DEF Broker, Consume, Discard, ConnectionLost, Stop, Stopped, Crash,
           Start, Tick, NoProcess, vars, storeVars, historyVars
<1>4. CASE \E w \in Workers : Handler(w)
  BY <1>4, HandlerKeepsPromise
<1>5. QED BY <1>1, <1>2, <1>3, <1>4 DEF Next

LEMMA InitKeepsPromise == Init => Promise!PromiseInit /\ PlacesGiven /\ ProcessedAtHead
<1>. SUFFICES ASSUME Init PROVE Promise!PromiseInit /\ PlacesGiven /\ ProcessedAtHead
  OBVIOUS
<1>1. \A d \in Deliveries : /\ rows[d].status = "absent" /\ rows[d].id = 0
                            /\ Promised(d) = "none"
  BY DEF Init, NoRow, Promised, Active, ActiveStatus
<1>2. PlacesGiven /\ ProcessedAtHead
  BY <1>1 DEF Init, PlacesGiven, ProcessedAtHead
<1>3. Promise!PromiseInit
  BY <1>1 DEF Init, Promise!PromiseInit
<1>4. QED BY <1>2, <1>3

\* README.md:260-285: whatever leases, retries, redeliveries, crashes and
\* restarts do, each dialogue looks to its producers like a queue whose messages
\* are taken in turn: every step of the service is one of DeliveryPromise or
\* changes nothing they see.
THEOREM ServiceKeepsPromise ==
  ASSUME LeaseCoversCall
  PROVE  Spec => PromiseKept
<1>. DEFINE Inv == PlacesGiven /\ ProcessedAtHead /\ AnswersAccepted
<1>1. Init => Promise!PromiseInit /\ Inv
  BY InitKeepsPromise, AnswersAcceptedInit
<1>2. Covered /\ Inv /\ [Next]_vars => Inv'
  BY PlacesGivenStep, ProcessedAtHeadStep, AnswersAcceptedStep DEF Covered
<1>3. Covered /\ Inv /\ [Next]_vars => [Promise!PromiseNext]_(Promise!promiseVars)
  BY StepKeepsPromise DEF Covered, PromiseStep
<1>. HIDE DEF Inv
<1>4. QED BY <1>1, <1>2, <1>3, AlwaysCovered, PTL DEF Spec, PromiseKept, Promise!PromiseSpec
=============================================================================
