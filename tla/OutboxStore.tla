----------------------------- MODULE OutboxStore -----------------------------
(***************************************************************************)
(* The table delivery_outbox (src/src/outbox_store.py) and the SQLite      *)
(* transactions of OutboxStore.  Every method of the class is one short    *)
(* transaction on one table, so each is an operator that yields the next   *)
(* value of the table; DeliveryOutbox calls them inside its steps.         *)
(*                                                                         *)
(* Time is a natural number of ticks.  A payload, a result and an error    *)
(* text are not modelled: no decision of the store looks at them.          *)
(***************************************************************************)
EXTENDS Naturals, Sequences

CONSTANTS
  Deliveries,      \* delivery_id of the jobs that may be enqueued
  Workers,         \* live invocations of DeliveryOutbox.process
  NoWorker,        \* lease_token IS NULL
  Platform,        \* [Deliveries -> platforms]: column platform
  Peer,            \* [Deliveries -> dialogues]: column peer_key
  Ttl,             \* [Deliveries -> Nat]: 86400 s, or 8 s for an ephemeral call
  Lease,           \* lease_seconds: 120 s
  RepublishAfter,  \* reserve_due's pause before an ID is published again: 30 s
  Retention        \* three calendar months

ASSUME StoreAssumption ==
  /\ NoWorker \notin Workers
  /\ Ttl \in [Deliveries -> Nat \ {0}]
  /\ Lease \in Nat \ {0}
  /\ RepublishAfter \in Nat \ {0}
  /\ Retention \in Nat
  /\ \A d \in Deliveries : Ttl[d] < Retention

VARIABLES
  now,     \* the clock both time() calls read
  rows,    \* the table: one record per delivery_id, "absent" when there is none
  lastId   \* AUTOINCREMENT: the largest id given out

(***************************************************************************)
(* A delivery's lease_token is a fresh uuid4 per claim.  The claiming      *)
(* worker stands for it: a worker handles one job at a time, and a token   *)
(* of an invocation that has ended is never presented again.               *)
(***************************************************************************)
ActiveStatus == {"pending", "processing"}
TerminalStatus == {"sent", "failed", "expired"}

Row ==
  [status : ActiveStatus \union TerminalStatus \union {"absent"},
   id : Nat, created : Nat, expires : Nat,
   nextAttempt : Nat, nextPublish : Nat,
   token : Workers \union {NoWorker}, leaseUntil : Nat]

NoRow ==
  [status |-> "absent", id |-> 0, created |-> 0, expires |-> 0,
   nextAttempt |-> 0, nextPublish |-> 0, token |-> NoWorker, leaseUntil |-> 0]

Active(d) == rows[d].status \in ActiveStatus
Settled(d) == rows[d].status \in TerminalStatus

SamePeer(d, e) == Platform[d] = Platform[e] /\ Peer[d] = Peer[e]

(* The rows that came before d in its dialogue, of a table t. *)
Before(t, d) ==
  {e \in Deliveries : /\ SamePeer(d, e)
                      /\ t[e].status # "absent"
                      /\ t[e].id < t[d].id}

(***************************************************************************)
(* enqueue_many: ON CONFLICT(delivery_id) DO NOTHING for every item of one *)
(* transaction.  batch is the sequence of delivery_ids the caller prepared.*)
(***************************************************************************)
Position(batch, d) == CHOOSE i \in DOMAIN batch : batch[i] = d

Inserted(batch) ==
  {d \in Deliveries : /\ \E i \in DOMAIN batch : batch[i] = d
                      /\ rows[d].status = "absent"}

EnqueueMany(batch) ==
  [d \in Deliveries |->
     IF d \in Inserted(batch)
       THEN [NoRow EXCEPT !.status = "pending",
                          !.id = lastId + Position(batch, d),
                          !.created = now,
                          !.expires = now + Ttl[d],
                          !.nextAttempt = now]
       ELSE rows[d]]

(* Mutant: rows are expired whatever their status or lease. *)
ExpiredUnfiltered ==
  [d \in Deliveries |->
     IF rows[d].status # "absent" /\ rows[d].expires <= now
       THEN [rows[d] EXCEPT !.status = "expired", !.token = NoWorker, !.leaseUntil = 0]
       ELSE rows[d]]

(* Mutant: a job is expired under the holder of its lease. *)
ExpiredUnderLease ==
  [d \in Deliveries |->
     IF Active(d) /\ rows[d].expires <= now
       THEN [rows[d] EXCEPT !.status = "expired", !.token = NoWorker, !.leaseUntil = 0]
       ELSE rows[d]]

(* Mutant: a job whose handler died is not expired. *)
ExpiredPendingOnly ==
  [d \in Deliveries |->
     IF rows[d].status = "pending" /\ rows[d].expires <= now
       THEN [rows[d] EXCEPT !.status = "expired", !.token = NoWorker, !.leaseUntil = 0]
       ELSE rows[d]]

(***************************************************************************)
(* _expire: the prelude of reserve_due and claim.  A job whose lease is    *)
(* still held is left to its holder.                                       *)
(***************************************************************************)
Expired ==
  [d \in Deliveries |->
     IF Active(d) /\ rows[d].expires <= now /\ rows[d].leaseUntil <= now
       THEN [rows[d] EXCEPT !.status = "expired", !.token = NoWorker, !.leaseUntil = 0]
       ELSE rows[d]]

(* Mutants: a live lease, the order of the dialogue, or jobs whose handler died
   are overlooked. *)
ClaimableUnderLease(t, d) ==
  /\ t[d].status \in ActiveStatus
  /\ t[d].nextAttempt <= now
  /\ t[d].expires > now
  /\ \A e \in Before(t, d) : t[e].status \notin ActiveStatus

ClaimableOutOfOrder(t, d) ==
  /\ t[d].status \in ActiveStatus
  /\ t[d].nextAttempt <= now
  /\ t[d].leaseUntil <= now
  /\ t[d].expires > now

ClaimablePendingOnly(t, d) ==
  /\ ClaimableOutOfOrder(t, d)
  /\ t[d].status = "pending"
  /\ \A e \in Before(t, d) : t[e].status \notin ActiveStatus

(* The WHERE clause reserve_due and claim share, on a table t. *)
Claimable(t, d) ==
  /\ t[d].status \in ActiveStatus
  /\ t[d].nextAttempt <= now
  /\ t[d].leaseUntil <= now
  /\ t[d].expires > now
  /\ \A e \in Before(t, d) : t[e].status \notin ActiveStatus

(* reserve_due.  Its LIMIT 50 is larger than any set of deliveries checked. *)
Due(p) ==
  {d \in Deliveries : /\ Platform[d] = p
                      /\ Claimable(Expired, d)
                      /\ Expired[d].nextPublish <= now}

Reserved(p) ==
  [d \in Deliveries |->
     IF d \in Due(p) THEN [Expired[d] EXCEPT !.nextPublish = now + RepublishAfter]
                     ELSE Expired[d]]

(* claim: when the job cannot be claimed the transaction still expires rows. *)
CanClaim(d) == Claimable(Expired, d)

Claimed(w, d) ==
  IF CanClaim(d)
    THEN [Expired EXCEPT ![d] = [@ EXCEPT !.status = "processing",
                                          !.token = w,
                                          !.leaseUntil = now + Lease]]
    ELSE Expired

(* Mutant: any handler of the job may write. *)
HoldsWithAnyToken(w, d) == rows[d].status = "processing"

(* The WHERE clause of renew, finish and release. *)
Holds(w, d) == rows[d].status = "processing" /\ rows[d].token = w

Renewed(w, d) ==
  IF Holds(w, d) THEN [rows EXCEPT ![d].leaseUntil = now + Lease] ELSE rows

(* finish with status "sent", "failed" or, for a retry, "pending". *)
Finished(w, d, status, delay) ==
  IF Holds(w, d)
    THEN [rows EXCEPT ![d] = [@ EXCEPT !.status = status,
                                       !.nextAttempt = now + delay,
                                       !.nextPublish = 0,
                                       !.token = NoWorker,
                                       !.leaseUntil = 0]]
    ELSE rows

Released(w, d) ==
  IF Holds(w, d)
    THEN [rows EXCEPT ![d] = [@ EXCEPT !.status = "pending",
                                       !.nextPublish = 0,
                                       !.token = NoWorker,
                                       !.leaseUntil = 0]]
    ELSE rows

(* purge: by age and lease only, whatever the status. *)
Purgeable == {d \in Deliveries : /\ rows[d].status # "absent"
                                 /\ rows[d].created + Retention < now
                                 /\ rows[d].leaseUntil <= now}

Purged == [d \in Deliveries |-> IF d \in Purgeable THEN NoRow ELSE rows[d]]
=============================================================================
