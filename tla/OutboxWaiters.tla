---------------------------- MODULE OutboxWaiters ----------------------------
(***************************************************************************)
(* Callers that wait for the result of one delivery (DeliveryService.wait   *)
(* of delivery_outbox.py): they share an Event and a count of references in *)
(* _waiters, each clears the Event before it reads the row.  The Event is   *)
(* set by this process's worker and by the pump, which looks up what other  *)
(* processes have delivered.                                                *)
(***************************************************************************)
EXTENDS Naturals, FiniteSets

CONSTANTS
    Waiters,    \* callers of wait
    Lives       \* how often a caller comes

VARIABLES
    row,        \* "open", "settled"; "purged" once the retention has passed
    event,      \* set or not, of the shared Event
    references, \* of the entry in _waiters; 0 without an entry
    waiter,     \* caller -> "out", "clearing", "reading", "asleep"
    visits,     \* caller -> how often it has called
    pump        \* the pump runs; it ends when the service stops or dies

vars == <<row, event, references, waiter, visits, pump>>

Init ==
    /\ row = "open" /\ event = FALSE /\ references = 0 /\ pump = TRUE
    /\ waiter = [w \in Waiters |-> "out"] /\ visits = [w \in Waiters |-> 0]

Goes(w, step) == waiter' = [waiter EXCEPT ![w] = step]

\* The first of them makes the Event.
Enter(w) ==
    /\ waiter[w] = "out" /\ visits[w] < Lives
    /\ visits' = [visits EXCEPT ![w] = @ + 1]
    /\ references' = references + 1 /\ event' = FALSE
    /\ Goes(w, "reading")
    /\ UNCHANGED <<row, pump>>

\* event.clear, after it was woken.
Clear(w) ==
    /\ waiter[w] = "clearing" /\ event' = FALSE /\ Goes(w, "reading")
    /\ UNCHANGED <<row, references, visits, pump>>

\* Mutant: whoever leaves first takes the entry with him.
EntryTaken == references' = 0

\* The last one takes the entry away.
EntryLeft == references' = references - 1

\* store.get finds an end, or nothing any more: a result or an error is returned.
Answered(w) ==
    /\ waiter[w] = "reading" /\ row # "open"
    /\ Goes(w, "out") /\ EntryLeft
    /\ UNCHANGED <<row, event, visits, pump>>

Sleeps(w) ==
    /\ waiter[w] = "reading" /\ row = "open" /\ Goes(w, "asleep")
    /\ UNCHANGED <<row, event, references, visits, pump>>

\* The caller is cancelled while it reads or waits.
Cancelled(w) ==
    /\ waiter[w] \in {"reading", "asleep"} /\ Goes(w, "out") /\ EntryLeft
    /\ UNCHANGED <<row, event, visits, pump>>

Wakes(w) ==
    /\ waiter[w] = "asleep" /\ event /\ Goes(w, "clearing")
    /\ UNCHANGED <<row, event, references, visits, pump>>

\* Mutant: nobody looks again.
NoTimeout(w) == FALSE

\* wait_for gives up after thirty seconds and the row is looked at again.
Timeout(w) == waiter[w] = "asleep"

LooksAgain(w) ==
    /\ Timeout(w) /\ Goes(w, "clearing")
    /\ UNCHANGED <<row, event, references, visits, pump>>

\* This process's worker has the result and sets the Event.
SettledHere ==
    /\ row = "open" /\ row' = "settled" /\ event' = (references > 0)
    /\ UNCHANGED <<references, waiter, visits, pump>>

\* Another process has it.
SettledElsewhere ==
    /\ row = "open" /\ row' = "settled"
    /\ UNCHANGED <<event, references, waiter, visits, pump>>

Purged ==
    /\ row = "settled" /\ row' = "purged"
    /\ UNCHANGED <<event, references, waiter, visits, pump>>

\* A pass of the pump asks for the states of all requests somebody waits for.
PumpLooks ==
    /\ pump /\ row = "settled" /\ references > 0 /\ event' = TRUE
    /\ UNCHANGED <<row, references, waiter, visits, pump>>

PumpStops ==
    /\ pump /\ pump' = FALSE
    /\ UNCHANGED <<row, event, references, waiter, visits>>

Next ==
    \/ \E w \in Waiters : Enter(w) \/ Clear(w) \/ Answered(w) \/ Sleeps(w) \/ Cancelled(w) \/ Wakes(w) \/ LooksAgain(w)
    \/ SettledHere \/ SettledElsewhere \/ Purged \/ PumpLooks \/ PumpStops

\* The delivery of the row is the business of DeliveryOutbox.
Fairness == \A w \in Waiters :
    WF_vars(Clear(w)) /\ WF_vars(Answered(w)) /\ WF_vars(Sleeps(w)) /\ WF_vars(LooksAgain(w))

Spec == Init /\ [][Next]_vars /\ Fairness
-----------------------------------------------------------------------------
\* The entry counts its waiters: the pump looks up every request somebody waits for.
EntryKept == references = Cardinality({w \in Waiters : waiter[w] # "out"})

\* Whoever waits for a request that has come to its end hears of it, though another
\* one may have cleared the Event in between and the pump may have stopped.
WaitersAnswered == \A w \in Waiters : row # "open" /\ waiter[w] # "out" ~> waiter[w] = "out"
=============================================================================
