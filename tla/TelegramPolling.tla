-------------------------- MODULE TelegramPolling --------------------------
(***************************************************************************)
(* The updates of Telegram (telegram_runtime.py, main.py 100-190):          *)
(* getUpdates is repeated with the offset it has until it is answered, each *)
(* update is handled in a task of its own, and a supervisor starts the      *)
(* polling again when it has ended.  Telegram forgets what is below it.     *)
(***************************************************************************)
EXTENDS Naturals, FiniteSets

CONSTANTS
    LastUpdate,  \* bound: updates
    MaxErrors,   \* bound: getUpdates in vain between two answers
    MaxFaults    \* bound: polling that ends, crashes

VARIABLES
    newest,      \* the last update there is
    confirmed,   \* Telegram has forgotten the updates up to this one
    polling,     \* "off", "asking", "pausing"
    offset,      \* of getUpdates; 0 for none
    errors,      \* consecutive_failures
    tasks,       \* updates in the hands of the dispatcher
    handled,     \* updates whose handler has ended
    cut,         \* history: updates whose handler was interrupted
    twice,       \* history: updates that were given to the dispatcher again
    restarted,   \* history: the polling has begun anew
    faults

vars == <<newest, confirmed, polling, offset, errors, tasks, handled, cut, twice, restarted, faults>>

Updates == 1..LastUpdate

Init ==
    /\ newest = 0 /\ confirmed = 0 /\ polling = "off" /\ offset = 0 /\ errors = 0
    /\ tasks = {} /\ handled = {} /\ cut = {} /\ twice = {} /\ restarted = FALSE /\ faults = 0

Arrive ==
    /\ newest < LastUpdate /\ newest' = newest + 1
    /\ UNCHANGED <<confirmed, polling, offset, errors, tasks, handled, cut, twice, restarted, faults>>

\* run_forever: start_polling with the bot and the session there are, and no offset.
StartPolling ==
    /\ polling = "off" /\ polling' = "asking" /\ offset' = 0
    /\ UNCHANGED <<newest, confirmed, errors, tasks, handled, cut, twice, restarted, faults>>

Maximum(a, b) == IF a > b THEN a ELSE b
Forgets == confirmed' = IF offset = 0 THEN confirmed ELSE Maximum(confirmed, offset - 1)

\* Those that Telegram gives for this offset.
Given == {u \in Updates : u <= newest /\ u > confirmed /\ u >= offset}

\* make_request: the answer is there, and the dispatcher makes a task of each update.
Answered ==
    /\ polling = "asking" /\ Given # {} /\ Forgets /\ errors' = 0
    /\ tasks' = tasks \cup Given /\ offset' = newest + 1
    /\ twice' = twice \cup (Given \cap (tasks \cup handled \cup cut))
    /\ UNCHANGED <<newest, polling, handled, cut, restarted, faults>>

\* Nothing new within the 25 s of the long poll.
Nothing ==
    /\ polling = "asking" /\ Given = {} /\ Forgets /\ errors' = 0
    /\ UNCHANGED <<newest, polling, offset, tasks, handled, cut, twice, restarted, faults>>

\* Mutant: a failed poll is given up, the next one asks for what comes from now on.
FromNowOn == newest + 1

SameOffset == offset

\* make_request: the network, a server error, a rate limit, no answer in time; Telegram may
\* have heard the request.
Fails ==
    /\ polling = "asking" /\ errors < MaxErrors /\ errors' = errors + 1
    /\ Forgets \/ UNCHANGED confirmed
    /\ polling' = "pausing" /\ offset' = SameOffset
    /\ UNCHANGED <<newest, tasks, handled, cut, twice, restarted, faults>>

\* The pause is over.
AsksAgain ==
    /\ polling = "pausing" /\ polling' = "asking"
    /\ UNCHANGED <<newest, confirmed, offset, errors, tasks, handled, cut, twice, restarted, faults>>

HandlerEnds(u) ==
    /\ u \in tasks /\ tasks' = tasks \ {u} /\ handled' = handled \cup {u}
    /\ UNCHANGED <<newest, confirmed, polling, offset, errors, cut, twice, restarted, faults>>

Faulty == faults < MaxFaults /\ faults' = faults + 1

\* start_polling ends, with an exception or without: the tasks go on.
PollingEnds ==
    /\ polling # "off" /\ polling' = "off" /\ Faulty
    /\ restarted' = TRUE
    /\ UNCHANGED <<newest, confirmed, offset, errors, tasks, handled, cut, twice>>

\* A stop or a crash of the process, which is started again.
Crash ==
    /\ Faulty /\ polling' = "off" /\ errors' = 0
    /\ cut' = cut \cup tasks /\ tasks' = {} /\ restarted' = TRUE
    /\ UNCHANGED <<newest, confirmed, offset, handled, twice>>

Next ==
    \/ Arrive \/ StartPolling \/ Answered \/ Nothing \/ Fails \/ AsksAgain \/ PollingEnds \/ Crash
    \/ \E u \in Updates : HandlerEnds(u)

Fairness ==
    /\ WF_vars(StartPolling) /\ WF_vars(AsksAgain) /\ WF_vars(Answered)
    /\ \A u \in Updates : WF_vars(HandlerEnds(u))

Spec == Init /\ [][Next]_vars /\ Fairness
-----------------------------------------------------------------------------
\* What Telegram has forgotten was handled, is being handled or was interrupted, however the
\* polls before failed (telegram_runtime.py:53-104).
NothingMissed == \A u \in 1..confirmed : u \in tasks \cup handled \cup cut

\* The bot gets an update again only after the polling or the process has begun anew
\* (main.py:119-130, 149-189).
RepeatedAfterRestart == twice # {} => restarted

\* Every update gets to its handler, whatever fails before (telegram_runtime.py:53-104).
EventuallyTaken == \A u \in Updates : newest >= u ~> u \in handled \cup cut
=============================================================================
