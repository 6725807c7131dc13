-------------------------- MODULE MCDeliveryOutbox --------------------------
(***************************************************************************)
(* Small instances of DeliveryOutbox for TLC.                              *)
(***************************************************************************)
EXTENDS DeliveryOutbox, TLC

CONSTANTS a, b, w1, w2

(* All messages belong to one Telegram dialogue: no transaction and no pause
   relates messages of different platforms, and only Before those of a peer. *)
OnePlatform == [d \in Deliveries |-> "telegram"]
OnePeer == [d \in Deliveries |-> "user"]

(* A long reply in two parts is one batch. *)
Pair == {<<a, b>>}
OneByOne == {<<d>> : d \in Deliveries}

All(n) == [d \in Deliveries |-> n]
One == All(1)
Three == All(3)

(* An ephemeral answer ahead of a message that outlives the horizon. *)
ShortAndLong == [d \in Deliveries |-> IF d = a THEN 2 ELSE 12]

WorkerSymmetry == Permutations(Workers)

(***************************************************************************)
(* A time that has come differs in nothing from one that came earlier: the *)
(* code only compares these columns with the clock.                        *)
(***************************************************************************)
Ahead(t) == IF t <= now THEN 0 ELSE t

PresentTimes ==
  <<now, lastId, process, batch, queue, workers, disabled, accepted, lost, faults,
    [p \in Platforms |-> Ahead(blocked[p])],
    [d \in Deliveries |->
       IF Settled(d)
         THEN [rows[d] EXCEPT !.nextAttempt = 0, !.nextPublish = 0]
         ELSE [rows[d] EXCEPT !.nextAttempt = Ahead(@), !.nextPublish = Ahead(@),
                              !.leaseUntil = Ahead(@)]]>>
=============================================================================
