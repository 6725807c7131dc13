--------------------------- MODULE DeliveryPromise ---------------------------
(***************************************************************************)
(* What the delivery service promises to those who enqueue, without        *)
(* leases, brokers, retries or processes: every dialogue is a queue whose  *)
(* head may be given to the API any number of times until it is settled,   *)
(* and "sent" is said only of a message the API took.  DeliveryOutbox      *)
(* implements it (README.md:260-285 of the repository).                    *)
(***************************************************************************)
EXTENDS Naturals

CONSTANTS Deliveries, Dialogue

VARIABLES
  state,  \* "none", "waiting", "sent", "failed" or "expired"
  place,  \* the order in which messages were enqueued
  taken   \* how often the API took the message: 0, 1 or 2 (more)

promiseVars == <<state, place, taken>>

Ahead(d) == {e \in Deliveries : /\ Dialogue[e] = Dialogue[d]
                                /\ state[e] = "waiting"
                                /\ place[e] < place[d]}

(* The message whose turn it is in its dialogue. *)
Head(d) == state[d] = "waiting" /\ Ahead(d) = {}

PromiseInit ==
  /\ state = [d \in Deliveries |-> "none"]
  /\ place = [d \in Deliveries |-> 0]
  /\ taken = [d \in Deliveries |-> 0]

(* New messages go behind all that are there and get places of their own. *)
Submit(S) ==
  /\ \A d \in S : state[d] = "none"
  /\ state' = [d \in Deliveries |-> IF d \in S THEN "waiting" ELSE state[d]]
  /\ \A d \in Deliveries \ S : place'[d] = place[d]
  /\ \A d \in S, e \in Deliveries :
       /\ e \notin S => place'[d] > place[e]
       /\ e \in S /\ e # d => place'[d] # place'[e]
  /\ DOMAIN place' = Deliveries
  /\ UNCHANGED taken

Take(d) ==
  /\ Head(d)
  /\ taken' = [taken EXCEPT ![d] = IF @ = 0 THEN 1 ELSE 2]
  /\ UNCHANGED <<state, place>>

Conclude(d, outcome) ==
  /\ Head(d)
  /\ outcome = "sent" => taken[d] > 0
  /\ state' = [state EXCEPT ![d] = outcome]
  /\ UNCHANGED <<place, taken>>

(* Time runs out for some messages, wherever they stand in their dialogues. *)
Expire(S) ==
  /\ \A d \in S : state[d] = "waiting"
  /\ state' = [d \in Deliveries |-> IF d \in S THEN "expired" ELSE state[d]]
  /\ UNCHANGED <<place, taken>>

(* The history of old messages is dropped. *)
Forget(S) ==
  /\ state' = [d \in Deliveries |-> IF d \in S THEN "none" ELSE state[d]]
  /\ place' = [d \in Deliveries |-> IF d \in S THEN 0 ELSE place[d]]
  /\ taken' = [d \in Deliveries |-> IF d \in S THEN 0 ELSE taken[d]]

PromiseNext ==
  \/ \E S \in SUBSET Deliveries : Submit(S) \/ Expire(S) \/ Forget(S)
  \/ \E d \in Deliveries : Take(d)
  \/ \E d \in Deliveries, outcome \in {"sent", "failed"} : Conclude(d, outcome)

PromiseSpec == PromiseInit /\ [][PromiseNext]_promiseVars
=============================================================================
