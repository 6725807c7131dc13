---------------------------- MODULE ErrorReports ----------------------------
(***************************************************************************)
(* Errors on their way to the administrator (error_reporting.py): handlers  *)
(* report what they catch, the root logger what is logged, in a task of its *)
(* own.  The same error is told once in a window, there is a budget for an  *)
(* hour, and the table of known errors is pruned when it gets too large.    *)
(* The program's numbers are 1800 s, 40 in 3600 s, 500 and 100.             *)
(***************************************************************************)
EXTENDS Naturals, Sequences, FiniteSets

CONSTANTS
    Errors,      \* signatures
    Skipped,     \* those that only the log gets
    Window,      \* dedup_window_seconds
    Hour,        \* 3600
    Budget,      \* max_reports_per_hour
    KnownLimit,  \* 500
    Pruned,      \* 100, not more than that
    MaxClock,    \* bound: time
    MaxSpawned   \* bound: reports of the log under way

VARIABLES
    clock,
    attached,   \* set_notifier was called
    spawned,    \* _tasks: reports that were logged, in order
    known,      \* _signatures: a set of [error, last, suppressed or not]
    sent,       \* _sent_times
    dropped,    \* whether _dropped_over_budget is above zero
    tells,      \* history: the reports, as [error, at, stopping]
    muted       \* the bot is stopping

vars == <<clock, attached, spawned, known, sent, dropped, tells, muted>>

Init ==
    /\ clock = 0 /\ attached = FALSE /\ spawned = <<>> /\ known = {} /\ sent = <<>> /\ dropped = FALSE
    /\ tells = <<>> /\ muted = FALSE

Of(e) == {k \in known : k.error = e}

Unheard(e) == known' = {IF k.error = e THEN [k EXCEPT !.suppressed = TRUE] ELSE k : k \in known}

\* Mutant: the window is measured from the first report, at the start of the process.
SinceTheStart(e) == Of(e) # {} /\ clock < Window

InWindow(e) == \E k \in Of(e) : clock - k.last < Window

Repeated(e) ==
    /\ InWindow(e) /\ Unheard(e)
    /\ UNCHANGED <<sent, dropped, tells>>

\* The list grows by the clock: what is older than an hour is at its beginning.
Recent ==
    SubSeq(sent, Cardinality({i \in DOMAIN sent : clock - sent[i] >= Hour}) + 1, Len(sent))

\* Mutant: one report more.
RoomForOneMore == Len(Recent) <= Budget

HasBudget == Len(Recent) < Budget

OverBudget(e) ==
    /\ ~InWindow(e) /\ ~HasBudget /\ Unheard(e)
    /\ sent' = Recent /\ dropped' = TRUE
    /\ UNCHANGED tells

\* Mutant: the whole table is thrown away.
AllPruned(table) == IF Cardinality(table) <= KnownLimit THEN {table} ELSE {{}}

\* The ones that were told longest ago are forgotten, any of those of the same moment.
OldestPruned(table) ==
    IF Cardinality(table) <= KnownLimit THEN {table}
    ELSE {table \ oldest : oldest \in
             {s \in SUBSET table :
                 Cardinality(s) = Pruned /\ \A k \in s, q \in table \ s : k.last <= q.last}}

\* The table is written before the message goes out, which may fail unnoticed.
Told(e) ==
    /\ ~InWindow(e) /\ HasBudget
    /\ known' \in OldestPruned((known \ Of(e)) \cup {[error |-> e, last |-> clock, suppressed |-> FALSE]})
    /\ sent' = Append(Recent, clock) /\ dropped' = FALSE
    /\ tells' = Append(tells, [error |-> e, at |-> clock, stopping |-> muted])

\* Nobody to tell it to, or the bot is stopping.
Withheld ==
    /\ ~(attached /\ ~muted)
    /\ UNCHANGED <<known, sent, dropped, tells>>

\* Mutant: a report that is under way when the bot stops goes out.
HandledAnyway(e) == attached /\ (Repeated(e) \/ OverBudget(e) \/ Told(e))

\* report and _prepare, which wait for nobody.
Handled(e) == attached /\ ~muted /\ (Repeated(e) \/ OverBudget(e) \/ Told(e))

\* report_exception of a handler that failed.
Caught(e) ==
    /\ Handled(e)
    /\ UNCHANGED <<clock, attached, spawned, muted>>

\* AdminLogHandler.emit: not what was marked as reported, what the reporter itself logs, what
\* polling gets over by itself, a cancelled task.
Forwarded(e) == e \notin Skipped

\* emit and report_in_background
Logged(e) ==
    /\ Forwarded(e) /\ ~muted /\ Len(spawned) < MaxSpawned
    /\ spawned' = Append(spawned, e)
    /\ UNCHANGED <<clock, attached, known, sent, dropped, tells, muted>>

\* Its task runs.
Reported ==
    /\ spawned # <<>> /\ spawned' = Tail(spawned)
    /\ Handled(Head(spawned)) \/ Withheld
    /\ UNCHANGED <<clock, attached, muted>>

SetNotifier ==
    /\ ~attached /\ attached' = TRUE
    /\ UNCHANGED <<clock, spawned, known, sent, dropped, tells, muted>>

Tick ==
    /\ clock < MaxClock /\ clock' = clock + 1
    /\ UNCHANGED <<attached, spawned, known, sent, dropped, tells, muted>>

\* shutdown
Mute == attached /\ ~muted /\ muted' = TRUE /\ UNCHANGED <<clock, attached, spawned, known, sent, dropped, tells>>

Next == Tick \/ Mute \/ SetNotifier \/ Reported \/ \E e \in Errors : Caught(e) \/ Logged(e)

Spec == Init /\ [][Next]_vars
-----------------------------------------------------------------------------
\* The same error is told once in a window although the table is pruned: the budget
\* keeps it from filling up with errors of the last window.
ToldOnceInWindow ==
    \A i, j \in DOMAIN tells :
        i < j /\ tells[i].error = tells[j].error => tells[j].at - tells[i].at >= Window

\* No hour brings more reports than the budget.
BudgetHolds ==
    \A i \in DOMAIN tells :
        Cardinality({j \in DOMAIN tells : tells[j].at >= tells[i].at /\ tells[j].at < tells[i].at + Hour}) <= Budget

\* Nothing is told once the bot is stopping, although a report was under way then
\* (error_reporting.py:94-96, main.py:511-513).
SilentWhenStopping == \A i \in DOMAIN tells : ~tells[i].stopping
=============================================================================
