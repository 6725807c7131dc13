----------------------------- MODULE BotReplies -----------------------------
(***************************************************************************)
(* A reply of the VK bot (vk_send_message of vk_runtime.py): a text that is *)
(* cut into parts, all of them queued in one transaction, the keyboard on   *)
(* the last; when VK refuses the keyboard the last part goes without.  The  *)
(* update that the reply answers may be handled again after a crash.  What  *)
(* makes a repeated request the same one is its name in outbox_context.py   *)
(* and its random_id.                                                       *)
(***************************************************************************)
EXTENDS Naturals, Sequences, SequencesExt, FiniteSets

CONSTANTS
    Replies,    \* sequences of texts, parts of a reply
    Attempts,   \* max_attempts
    MaxFaults   \* bound: lost answers, failed and expired deliveries, crashes

VARIABLES
    reply,      \* what the handler answers
    picky,      \* VK refuses the keyboard
    step,       \* "given", "waiting", "bare" (without the keyboard), "done", "failed"
    at,         \* the part whose delivery is awaited
    calls,      \* of the context of the update: <<text, keyboard>> -> how often
    attempt,    \* of vk_call_with_retry
    rows,       \* of the outbox: [id, part, keyboard, random, status], in order
    randoms,    \* history: random_ids in use
    accepted,   \* random_ids VK knows
    shown,      \* parts in the dialogue, in order
    faults

vars == <<reply, picky, step, at, calls, attempt, rows, randoms, accepted, shown, faults>>

Texts == UNION {ToSet(r) : r \in Replies}
Parts == DOMAIN reply
Final == Len(reply)

Init ==
    /\ reply \in Replies /\ picky \in BOOLEAN
    /\ step = "given" /\ at = 1 /\ calls = [k \in Texts \X BOOLEAN |-> 0] /\ attempt = 0
    /\ rows = <<>> /\ randoms = 0 /\ accepted = {} /\ shown = <<>> /\ faults = 0

\* Mutant: requests of one update that look alike have one name.
AlikeIsSame(text, keyboard, n) == <<text, keyboard>>

\* delivery_id: by the update, the fingerprint and how often it has occurred.
DeliveryId(text, keyboard, n) == <<text, keyboard, n>>

KeyboardOf(part) == part = Final

\* The parts up to this one that have the same fingerprint.
Occurrence(part) ==
    Cardinality({p \in 1..part : reply[p] = reply[part] /\ KeyboardOf(p) = KeyboardOf(part)})

IdOf(part) == DeliveryId(reply[part], KeyboardOf(part), Occurrence(part))

Row(id, part, keyboard, random) ==
    [id |-> id, part |-> part, keyboard |-> keyboard, random |-> random, status |-> "queued"]

IndexOf(table, id) == {i \in DOMAIN table : table[i].id = id}
Status(id) == rows[CHOOSE i \in IndexOf(rows, id) : TRUE].status

\* enqueue_many, row by row: what is there stays, with the random_id it has.
Enqueued(new) ==
    LET Table[n \in 0..Len(new)] ==
            IF n = 0 THEN rows
            ELSE IF IndexOf(Table[n - 1], new[n].id) = {} THEN Append(Table[n - 1], new[n]) ELSE Table[n - 1]
    IN  Table[Len(new)]

\* vk_send_message in the handler of the update.
Send ==
    /\ step = "given" /\ step' = "waiting" /\ at' = 1
    /\ calls' = [k \in DOMAIN calls |-> Cardinality({p \in Parts : <<reply[p], KeyboardOf(p)>> = k})]
    /\ rows' = Enqueued([p \in Parts |-> Row(IdOf(p), p, KeyboardOf(p), randoms + p)])
    /\ randoms' = randoms + Final
    /\ UNCHANGED <<reply, picky, attempt, accepted, shown, faults>>

\* The row of the awaited part says it is sent: the next one.
PartSent ==
    /\ step = "waiting" /\ Status(IdOf(at)) = "sent"
    /\ IF at = Final THEN step' = "done" /\ UNCHANGED at ELSE at' = at + 1 /\ UNCHANGED step
    /\ UNCHANGED <<reply, picky, calls, attempt, rows, randoms, accepted, shown, faults>>

\* Another request of the last part, as a row of its own.
Bare(random) ==
    /\ calls' = [calls EXCEPT ![<<reply[Final], FALSE>>] = @ + 1]
    /\ rows' = Enqueued(<<Row(DeliveryId(reply[Final], FALSE, calls[<<reply[Final], FALSE>>] + 1), Final, FALSE, random)>>)

\* VK refused the keyboard: the last part is sent without it.
KeyboardRefused ==
    /\ step = "waiting" /\ Status(IdOf(at)) = "keyboard"
    /\ step' = "bare" /\ attempt' = 1
    /\ Bare(randoms + 1) /\ randoms' = randoms + 1
    /\ UNCHANGED <<reply, picky, at, accepted, shown, faults>>

BareStatus == Status(DeliveryId(reply[Final], FALSE, calls[<<reply[Final], FALSE>>]))

BareSent ==
    /\ step = "bare" /\ BareStatus = "sent" /\ step' = "done"
    /\ UNCHANGED <<reply, picky, at, calls, attempt, rows, randoms, accepted, shown, faults>>

\* vk_call_with_retry: an expired delivery is a TimeoutError, which is tried again.
BareAgain ==
    /\ step = "bare" /\ BareStatus = "expired" /\ attempt < Attempts /\ attempt' = attempt + 1
    /\ Bare(randoms)
    /\ UNCHANGED <<reply, picky, step, at, randoms, accepted, shown, faults>>

\* What was awaited has failed: the handler fails, and what is queued stays queued.
ReplyFails ==
    /\ \/ step = "waiting" /\ Status(IdOf(at)) \in {"failed", "expired"}
       \/ step = "bare" /\ (BareStatus = "failed" \/ (BareStatus = "expired" /\ attempt = Attempts))
    /\ step' = "failed"
    /\ UNCHANGED <<reply, picky, at, calls, attempt, rows, randoms, accepted, shown, faults>>

Faulty == faults < MaxFaults /\ faults' = faults + 1

\* VkUpdateDispatcher gives the handler up.
TimesOut ==
    /\ step \in {"waiting", "bare"} /\ Faulty /\ step' = "failed"
    /\ UNCHANGED <<reply, picky, at, calls, attempt, rows, randoms, accepted, shown>>

\* The row of the dialogue that is next (OutboxStore).
IsNext(i) == rows[i].status = "queued" /\ \A j \in 1..(i - 1) : rows[j].status # "queued"
Settled(i, status) == rows' = [rows EXCEPT ![i].status = status]

\* VK shows what it has not seen yet ...
Accepted(i) ==
    /\ IsNext(i) /\ ~(picky /\ rows[i].keyboard)
    /\ accepted' = accepted \cup {rows[i].random}
    /\ shown' = IF rows[i].random \in accepted THEN shown ELSE Append(shown, rows[i].part)

\* ... and its answer arrives, with the number of the message.
Delivered(i) ==
    /\ Accepted(i) /\ Settled(i, "sent")
    /\ UNCHANGED <<reply, picky, step, at, calls, attempt, randoms, faults>>

\* ... or is lost: the row is sent again.
AnswerLost(i) ==
    /\ Accepted(i) /\ Faulty
    /\ UNCHANGED <<reply, picky, step, at, calls, attempt, rows, randoms>>

\* 911, 912
Refused(i) ==
    /\ IsNext(i) /\ picky /\ rows[i].keyboard /\ Settled(i, "keyboard")
    /\ UNCHANGED <<reply, picky, step, at, calls, attempt, randoms, accepted, shown, faults>>

\* Another error that stays, or a day without an answer.
Lost(i, status) ==
    /\ IsNext(i) /\ Faulty /\ Settled(i, status)
    /\ UNCHANGED <<reply, picky, step, at, calls, attempt, randoms, accepted, shown>>

\* The process dies and its memory with it; VK gives the update again (VkUpdates).
Crash ==
    /\ step # "given" /\ Faulty
    /\ step' = "given" /\ at' = 1 /\ attempt' = 0 /\ calls' = [k \in DOMAIN calls |-> 0]
    /\ UNCHANGED <<reply, picky, rows, randoms, accepted, shown>>

Next ==
    \/ Send \/ PartSent \/ KeyboardRefused \/ BareSent \/ BareAgain \/ ReplyFails \/ TimesOut \/ Crash
    \/ \E i \in DOMAIN rows :
          Delivered(i) \/ AnswerLost(i) \/ Refused(i) \/ Lost(i, "failed") \/ Lost(i, "expired")

Spec == Init /\ [][Next]_vars
-----------------------------------------------------------------------------
\* A row whose time ran out although VK has shown the part.
ShownAndExpired == \E i \in DOMAIN rows : rows[i].status = "expired" /\ rows[i].random \in accepted

\* A dialogue shows the parts of a reply in order and each once, whatever is lost, refused or
\* repeated (vk_runtime.py:226-294); only an answer lost for a whole day lets the last part
\* come twice.
EachPartOnce ==
    \A i, j \in DOMAIN shown : i < j => shown[i] < shown[j] \/ (ShownAndExpired /\ shown[i] = shown[j])

\* A reply that counts as sent is there, to its last part (outbox_context.py:38-47).
WholeReply == step = "done" => ToSet(shown) = Parts
=============================================================================
