----------------------------- MODULE VkUpdates -----------------------------
(***************************************************************************)
(* How messages from VK reach their handlers (src/src/vk_runtime.py): the  *)
(* long poll ResilientBotPolling with its position file, and the           *)
(* VkUpdateDispatcher with its tasks, dialogue locks, window of known      *)
(* updates and queue of batches, under restarts.                           *)
(*                                                                         *)
(* VK's history is the sequence of updates 1..LastUpdate; a position (ts)  *)
(* is the number of updates it has passed.  One step is what a task does   *)
(* between two suspensions.                                                *)
(***************************************************************************)
EXTENDS Naturals, Sequences, FiniteSets

CONSTANTS
  LastUpdate,   \* updates there will ever be
  Dialogue,     \* [Updates -> peer ids], NoPeer for an update without one
  NoPeer,
  NoPosition,   \* _ts is None; no usable position file
  DedupSize,    \* dedup_size: 2000
  LockLimit,    \* locks kept before unused ones are dropped: 5000
  \* Bounds of the model.
  MaxFaults,    \* crashes, stops, lost connections, disk errors, lost history
  MaxBatches    \* answers whose handlers have not all ended

Updates == 1..LastUpdate
Positions == 0..LastUpdate
Peers == {Dialogue[e] : e \in Updates} \ {NoPeer}

ASSUME UpdatesAssumption ==
  /\ {LastUpdate, LockLimit, MaxFaults} \subseteq Nat
  /\ {DedupSize, MaxBatches} \subseteq Nat \ {0}
  /\ DOMAIN Dialogue = Updates
  /\ NoPosition \notin Nat

VARIABLES
  newest,     \* updates in VK's history
  process,    \* "up", "stopping" or "down"
  connected,  \* the long poll has a server and a key
  position,   \* _ts
  saved,      \* the position file
  tasks,      \* the tasks of this process in the order of their creation
  seen,       \* _seen, oldest first
  batches,    \* _checkpoint_batches
  lockOf,     \* _peer_locks: the task that created the dialogue's lock, or 0
  handled,    \* history: updates whose handler has ended, in any process
  gone,       \* history: updates VK's history no longer gave to the bot
  faults      \* faults so far

vars == <<newest, process, connected, position, saved, tasks, seen, batches,
          lockOf, handled, gone, faults>>

(***************************************************************************)
(* A task is new until its first step, which takes its dialogue's lock or  *)
(* queues for it.  lock is the lock it holds or waits for; a lock is named *)
(* by the task that created it.                                            *)
(***************************************************************************)
Task == [update : Updates, lock : Nat,
         pc : {"new", "queued", "running", "done", "cancelled"}]

Batch == [ts : Positions, tasks : SUBSET (Nat \ {0})]

Ended(t) == tasks[t].pc \in {"done", "cancelled"}

CanFail == faults < MaxFaults
Fault == CanFail /\ faults' = faults + 1
NoFault == UNCHANGED faults

NoMemory ==
  /\ connected' = FALSE
  /\ position' = NoPosition
  /\ tasks' = <<>>
  /\ seen' = <<>>
  /\ batches' = <<>>
  /\ lockOf' = [p \in Peers |-> 0]

Init ==
  /\ newest = 0
  /\ process = "up"
  /\ connected = FALSE
  /\ position = NoPosition
  /\ saved = NoPosition
  /\ tasks = <<>>
  /\ seen = <<>>
  /\ batches = <<>>
  /\ lockOf = [p \in Peers |-> 0]
  /\ handled = {}
  /\ gone = {}
  /\ faults = 0

-----------------------------------------------------------------------------
(* VK *)

Arrive ==
  /\ newest < LastUpdate
  /\ newest' = newest + 1
  /\ UNCHANGED <<process, connected, position, saved, tasks, seen, batches,
                 lockOf, handled, gone, faults>>

-----------------------------------------------------------------------------
(* The long poll: ResilientBotPolling *)

(* save_checkpoint: a disk error keeps the old file. *)
Save(ts) ==
  \/ saved' = ts /\ NoFault
  \/ saved' = saved /\ ts # saved /\ Fault

(* Mutant: after a failure the poll goes on from the server's own position. *)
ConnectAfresh ==
  /\ process = "up" /\ ~connected
  /\ connected' = TRUE
  /\ position' = newest
  /\ IF position = NoPosition /\ saved = NoPosition THEN Save(newest)
                                                    ELSE UNCHANGED <<saved, faults>>
  /\ UNCHANGED <<newest, process, tasks, seen, batches, lockOf, handled, gone>>

(***************************************************************************)
(* _fresh_server(keep_ts=True): on, from the position in memory; after a   *)
(* start from the file; without a usable file from the server's position,  *)
(* which is saved at once, and what VK holds by then is not read.          *)
(***************************************************************************)
Connect ==
  /\ process = "up" /\ ~connected
  /\ connected' = TRUE
  /\ \/ /\ position # NoPosition
        /\ UNCHANGED <<position, saved, gone, faults>>
     \/ /\ position = NoPosition /\ saved # NoPosition
        /\ position' = saved
        /\ UNCHANGED <<saved, gone, faults>>
     \/ /\ position = NoPosition /\ saved = NoPosition
        /\ position' = newest
        /\ gone' = gone \union 1..newest
        /\ Save(newest)
     \/ /\ position = NoPosition /\ saved # NoPosition  \* the file cannot be read
        /\ Fault
        /\ position' = newest
        /\ gone' = gone \union 1..newest
        /\ saved' \in {saved, newest}
  /\ UNCHANGED <<newest, process, tasks, seen, batches, lockOf, handled>>

(* A request fails or times out, or VK answers failed=2: the key is gone, the
   position is not. *)
Disconnect ==
  /\ connected
  /\ Fault
  /\ connected' = FALSE
  /\ UNCHANGED <<newest, process, position, saved, tasks, seen, batches,
                 lockOf, handled, gone>>

(* failed=1 gives a position to go on from, failed=3 means a new server with
   its own position. *)
HistoryLost(ts) ==
  /\ connected
  /\ Fault
  /\ position' = ts
  /\ gone' = gone \union {e \in Updates : position < e /\ e <= ts}
  /\ UNCHANGED <<newest, process, connected, saved, tasks, seen, batches,
                 lockOf, handled>>

-----------------------------------------------------------------------------
(* The dispatcher: VkUpdateDispatcher *)

(* Mutant: the window grows by one too many. *)
RememberedTooMany(known, new) ==
  IF Len(known) <= DedupSize THEN Append(known, new) ELSE Append(Tail(known), new)

(* is_duplicate: `new` follows the updates known already. *)
Remembered(known, new) ==
  IF Len(known) < DedupSize THEN Append(known, new) ELSE Append(Tail(known), new)

Known(known, e) == \E i \in DOMAIN known : known[i] = e

(* Mutant: every update is taken for a new one. *)
DispatchedAll(ts) ==
  LET upTo[n \in position..ts] ==
        IF n = position
          THEN [seen |-> seen, tasks |-> tasks]
          ELSE [seen |-> Remembered(upTo[n - 1].seen, n),
                tasks |-> Append(upTo[n - 1].tasks, [update |-> n, lock |-> 0, pc |-> "new"])]
  IN upTo[ts]

(* dispatch: an update that is known already gets no task; `so` is what the
   answer's updates have brought so far. *)
Dispatch(so, n) ==
  IF Known(so.seen, n) THEN so
  ELSE [seen |-> Remembered(so.seen, n),
        tasks |-> Append(so.tasks, [update |-> n, lock |-> 0, pc |-> "new"])]

(* The updates of an answer are dispatched in turn. *)
Dispatched(ts) ==
  LET upTo[n \in position..ts] ==
        IF n = position THEN [seen |-> seen, tasks |-> tasks] ELSE Dispatch(upTo[n - 1], n)
  IN upTo[ts]

(* Mutant: a cancelled handler counts as finished. *)
CompleteWhenEnded(batch, ts) == \A t \in batch.tasks : ts[t].pc \in {"done", "cancelled"}

(* A batch whose handlers have all ended and none of them by cancellation. *)
Complete(batch, ts) == \A t \in batch.tasks : ts[t].pc = "done"

(* advance_checkpoint, on the batches bs and the tasks ts: the complete batches
   at the head of the queue go, and the last of them gives the position. *)
CompletePrefix(bs, ts) ==
  CHOOSE n \in 0..Len(bs) :
    /\ \A i \in 1..n : Complete(bs[i], ts)
    /\ n < Len(bs) => ~Complete(bs[n + 1], ts)

Advance(bs, ts) ==
  LET n == CompletePrefix(bs, ts) IN
  /\ batches' = SubSeq(bs, n + 1, Len(bs))
  /\ IF n = 0 THEN UNCHANGED saved /\ NoFault ELSE Save(bs[n].ts)

(* Mutant: only answers that start handlers are queued for the position file. *)
ReceiveWithTasks(ts) ==
  /\ connected
  /\ position <= ts /\ ts <= newest
  /\ Len(batches) < MaxBatches
  /\ position' = ts
  /\ seen' = Dispatched(ts).seen
  /\ tasks' = Dispatched(ts).tasks
  /\ IF Len(tasks') = Len(tasks)
       THEN UNCHANGED <<batches, saved, faults>>
       ELSE Advance(Append(batches, [ts |-> ts, tasks |-> Len(tasks) + 1 .. Len(tasks')]), tasks')
  /\ UNCHANGED <<newest, process, connected, lockOf, handled, gone>>

(* An answer with the updates up to ts, possibly none: the position moves on,
   the new updates get tasks, the batch queues behind the earlier ones. *)
Receive(ts) ==
  /\ connected
  /\ position <= ts /\ ts <= newest
  /\ Len(batches) < MaxBatches
  /\ position' = ts
  /\ seen' = Dispatched(ts).seen
  /\ tasks' = Dispatched(ts).tasks
  /\ Advance(Append(batches, [ts |-> ts, tasks |-> Len(tasks) + 1 .. Len(tasks')]), tasks')
  /\ UNCHANGED <<newest, process, connected, lockOf, handled, gone>>

(* The done callback of a handler runs in a later turn of the event loop. *)
HandlerDone ==
  /\ process # "down"
  /\ batches # <<>>
  /\ Complete(Head(batches), tasks)
  /\ Advance(batches, tasks)
  /\ UNCHANGED <<newest, process, connected, position, tasks, seen, lockOf, handled, gone>>

(* asyncio.Lock: free when nobody holds it and nobody waits for it. *)
Held(lock) == \E t \in DOMAIN tasks : tasks[t].pc = "running" /\ tasks[t].lock = lock
Waiting(lock) == {t \in DOMAIN tasks : tasks[t].pc = "queued" /\ tasks[t].lock = lock}

(* Mutant: a busy dialogue gets another lock. *)
LocksForNew(t, p) == [lockOf EXCEPT ![p] = IF @ # 0 /\ ~Held(@) THEN @ ELSE t]

(* _lock_for: a dialogue without a lock gets one; when there are too many, all
   that are not locked at the moment are dropped first. *)
LocksFor(t, p) ==
  IF lockOf[p] # 0
    THEN lockOf
    ELSE [q \in Peers |->
            IF q = p THEN t
            ELSE IF Cardinality({r \in Peers : lockOf[r] # 0}) > LockLimit /\ ~Held(lockOf[q])
                   THEN 0
                   ELSE lockOf[q]]

(* The first step of a task: tasks start in the order of their creation. *)
Begin(t) ==
  LET p == Dialogue[tasks[t].update] IN
  /\ process # "down"
  /\ tasks[t].pc = "new"
  /\ \A u \in 1..(t - 1) : tasks[u].pc # "new"
  /\ \/ /\ p = NoPeer
        /\ tasks' = [tasks EXCEPT ![t].pc = "running"]
        /\ UNCHANGED lockOf
     \/ /\ p # NoPeer
        /\ lockOf' = LocksFor(t, p)
        /\ LET lock == LocksFor(t, p)[p] IN
           tasks' = [tasks EXCEPT ![t] =
                       [@ EXCEPT !.lock = lock,
                                 !.pc = IF Held(lock) \/ Waiting(lock) # {}
                                          THEN "queued" ELSE "running"]]
  /\ UNCHANGED <<newest, process, connected, position, saved, seen, batches,
                 handled, gone, faults>>

(* The lock was released and woke the first that waits for it. *)
Resume(t) ==
  /\ process # "down"
  /\ tasks[t].pc = "queued"
  /\ ~Held(tasks[t].lock)
  /\ \A u \in Waiting(tasks[t].lock) : t <= u
  /\ tasks' = [tasks EXCEPT ![t].pc = "running"]
  /\ UNCHANGED <<newest, process, connected, position, saved, seen, batches,
                 lockOf, handled, gone, faults>>

(* The handler returns, fails or is stopped by handler_timeout: the update is
   dealt with in each case. *)
HandlerEnds(t) ==
  /\ process # "down"
  /\ tasks[t].pc = "running"
  /\ tasks' = [tasks EXCEPT ![t].pc = "done"]
  /\ handled' = handled \union {tasks[t].update}
  /\ UNCHANGED <<newest, process, connected, position, saved, seen, batches,
                 lockOf, gone, faults>>

-----------------------------------------------------------------------------
(* The process *)

(* shutdown cancels the long poll; asyncio.run cancels the handlers. *)
Stop ==
  /\ process = "up"
  /\ Fault
  /\ process' = "stopping"
  /\ connected' = FALSE
  /\ UNCHANGED <<newest, position, saved, tasks, seen, batches, lockOf, handled, gone>>

Cancel(t) ==
  /\ process = "stopping"
  /\ ~Ended(t)
  /\ tasks' = [tasks EXCEPT ![t].pc = "cancelled"]
  /\ UNCHANGED <<newest, process, connected, position, saved, seen, batches,
                 lockOf, handled, gone, faults>>

Stopped ==
  /\ process = "stopping"
  /\ \A t \in DOMAIN tasks : Ended(t)
  /\ process' = "down"
  /\ NoMemory
  /\ UNCHANGED <<newest, saved, handled, gone, faults>>

Crash ==
  /\ process # "down"
  /\ Fault
  /\ process' = "down"
  /\ NoMemory
  /\ UNCHANGED <<newest, saved, handled, gone>>

Start ==
  /\ process = "down"
  /\ process' = "up"
  /\ UNCHANGED <<newest, connected, position, saved, tasks, seen, batches,
                 lockOf, handled, gone, faults>>

-----------------------------------------------------------------------------
Polling ==
  \/ Connect \/ Disconnect
  \/ \E ts \in 0..newest : HistoryLost(ts) \/ Receive(ts)

(* A task that is not done can always take a step, or waits for one that can. *)
Handling == \E t \in DOMAIN tasks : Begin(t) \/ Resume(t) \/ HandlerEnds(t) \/ Cancel(t)

Next ==
  \/ Arrive
  \/ Polling
  \/ Handling
  \/ HandlerDone
  \/ Stop \/ Stopped \/ Crash \/ Start

(***************************************************************************)
(* Fairness: the long poll connects and answers, asyncio runs what is      *)
(* ready, handler_timeout ends every handler, a supervised process is      *)
(* started again.  VK owes no update.                                      *)
(***************************************************************************)
Fairness ==
  /\ WF_vars(Connect)
  /\ WF_vars(\E ts \in 0..newest : Receive(ts) /\ ts # position)
  /\ WF_vars(Receive(position))
  /\ WF_vars(Handling)
  /\ WF_vars(HandlerDone)
  /\ WF_vars(Stopped \/ Start)

Spec == Init /\ [][Next]_vars
FairSpec == Spec /\ Fairness
-----------------------------------------------------------------------------
(* Properties *)

\* The variables have their types (vk_runtime.py).
TypeOK ==
  /\ newest \in Positions
  /\ process \in {"up", "stopping", "down"}
  /\ connected \in BOOLEAN
  /\ position \in Positions \union {NoPosition}
  /\ saved \in Positions \union {NoPosition}
  /\ tasks \in Seq(Task)
  /\ seen \in Seq(Updates) /\ Len(seen) <= DedupSize
  /\ batches \in Seq(Batch)
  /\ \A i \in DOMAIN batches : batches[i].tasks \subseteq DOMAIN tasks
  /\ lockOf \in [Peers -> 0..Len(tasks)]
  /\ handled \subseteq Updates
  /\ gone \subseteq Updates
  /\ faults \in Nat

\* save_checkpoint ("only after all earlier updates have been handled"): a
\* restart never loses an update.  Whatever lies before the saved position was
\* handled to its end, or VK itself no longer had it.
NothingSkipped ==
  saved # NoPosition => \A e \in 1..saved : e \in handled \union gone

\* README.md:238: the updates of one dialogue are handled strictly one after
\* another, in the order in which they came.
DialogueOneByOne ==
  \A t, u \in DOMAIN tasks :
    /\ t < u
    /\ Dialogue[tasks[t].update] = Dialogue[tasks[u].update]
    /\ Dialogue[tasks[t].update] # NoPeer
    /\ tasks[u].pc \in {"running", "done"}
    => Ended(t)

\* is_duplicate: an update that VK gives again is not handled again in the same
\* process before dedup_size other updates have come.
RepeatsFarApart ==
  \A t, u \in DOMAIN tasks :
    t < u /\ tasks[t].update = tasks[u].update => u - t > DedupSize

\* Every update VK keeps is handled in the end: no lost answer, restart, slow
\* dialogue or disk error makes the bot forget it.
EventuallyHandled ==
  \A e \in Updates : newest >= e ~> e \in handled \union gone

\* The position file catches up: no batch blocks it for ever, so a restart
\* does not repeat what was done long ago.
EventuallySaved == newest = LastUpdate ~> saved = LastUpdate
=============================================================================
