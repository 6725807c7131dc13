---------------------------- MODULE SystemAlerts ----------------------------
(***************************************************************************)
(* Outages of the system's parts (SystemAlertManager of system_status.py):  *)
(* the health check, the synchronisation, the recognition of photos and the *)
(* start-up report how a component is; the administrators hear of a         *)
(* component once when it goes down and once when it is back.  One lock is  *)
(* held over the record in SQLite and the message.                          *)
(***************************************************************************)
EXTENDS Naturals, Sequences, FiniteSets

CONSTANTS
    Watched,         \* components
    Confirmations,   \* failure_confirmations: a positive number for each
    MaxReports,      \* bound: reports that wait for the lock
    MaxAlertFaults   \* bound: errors of SQLite, undelivered alerts, restarts

VARIABLES
    states,     \* component -> [ok, streak], of this process
    reports,    \* reports that wait for the lock, in order
    alerts,     \* the alerts under way: one at most, of the lock's holder
    told,       \* component -> TRUE when the last alert said that it is up
    recent,     \* history: component -> its last reports, the oldest first
    unsure,     \* history: components whose last alert was lost or whose state was
    slips

vars == <<states, reports, alerts, told, recent, unsure, slips>>

Fresh == [ok |-> TRUE, streak |-> 0]

Init ==
    /\ states = [c \in Watched |-> Fresh] /\ reports = <<>> /\ alerts = {}
    /\ told = [c \in Watched |-> TRUE] /\ recent = [c \in Watched |-> <<>>]
    /\ unsure = {} /\ slips = 0

Slip == slips < MaxAlertFaults /\ slips' = slips + 1

\* report_component_status is called; asyncio.Lock serves its waiters in order.
Report(c, ok) ==
    /\ Len(reports) < MaxReports
    /\ reports' = Append(reports, [component |-> c, ok |-> ok])
    /\ UNCHANGED <<states, alerts, told, recent, unsure, slips>>

\* Mutant: a success does not end the series of failures.
StreakStays(state, ok, needed) ==
    IF ok THEN [state EXCEPT !.ok = TRUE]
    ELSE [ok |-> state.ok /\ state.streak + 1 < needed,
          streak |-> IF state.streak < needed THEN state.streak + 1 ELSE needed]

\* The state after one more report; the streak is counted up to what is needed.
Judged(state, ok, needed) ==
    IF ok THEN Fresh
    ELSE [ok |-> state.ok /\ state.streak + 1 < needed,
          streak |-> IF state.streak < needed THEN state.streak + 1 ELSE needed]

\* Mutant: the lock is given up before the record and the message.
LockLeft == Cardinality(alerts) < 2

LockFree == alerts = {}

Consider ==
    /\ reports # <<>> /\ LockFree
    /\ LET c == Head(reports).component
           ok == Head(reports).ok
           state == Judged(states[c], ok, Confirmations[c])
           known == Append(recent[c], ok)
       IN /\ states' = [states EXCEPT ![c] = state]
          /\ recent' = [recent EXCEPT ![c] =
                           SubSeq(known, (IF Len(known) > Confirmations[c] THEN 2 ELSE 1), Len(known))]
          /\ alerts' = alerts \cup
                 IF state.ok = states[c].ok THEN {}
                 ELSE {[step |-> IF ok THEN "telling" ELSE "recording", component |-> c, ok |-> ok]}
    /\ reports' = Tail(reports)
    /\ UNCHANGED <<told, unsure, slips>>

\* log_system_error.
Record(a) ==
    /\ a.step = "recording" /\ alerts' = (alerts \ {a}) \cup {[a EXCEPT !.step = "telling"]}
    /\ UNCHANGED <<states, reports, told, recent, unsure, slips>>

\* It raises: the caller fails, the component stays down and nobody is told.
RecordFails(a) ==
    /\ a.step = "recording" /\ Slip
    /\ unsure' = unsure \cup {a.component} /\ alerts' = alerts \ {a}
    /\ UNCHANGED <<states, reports, told, recent>>

Tell(a) ==
    /\ a.step = "telling"
    /\ told' = [told EXCEPT ![a.component] = a.ok]
    /\ unsure' = unsure \ {a.component} /\ alerts' = alerts \ {a}
    /\ UNCHANGED <<states, reports, recent, slips>>

\* notify_admins fails, which is logged.
TellFails(a) ==
    /\ a.step = "telling" /\ Slip
    /\ unsure' = unsure \cup {a.component} /\ alerts' = alerts \ {a}
    /\ UNCHANGED <<states, reports, told, recent>>

\* The process starts anew and takes every component for sound.
Restart ==
    /\ Slip
    /\ states' = [c \in Watched |-> Fresh] /\ recent' = [c \in Watched |-> <<>>]
    /\ reports' = <<>> /\ alerts' = {}
    /\ unsure' = unsure \cup {c \in Watched : ~states[c].ok \/ ~told[c]}
    /\ UNCHANGED told

Next ==
    \/ \E c \in Watched, ok \in BOOLEAN : Report(c, ok)
    \/ Consider \/ Restart
    \/ \E a \in alerts : Record(a) \/ RecordFails(a) \/ Tell(a) \/ TellFails(a)

Spec == Init /\ [][Next]_vars
-----------------------------------------------------------------------------
\* Between alerts the administrators were last told what the process thinks of every
\* component (system_status.py:385 "exactly once per state transition"), whatever the
\* order in which its reports come; unless the alert failed or the state was forgotten.
AdminsKnow ==
    alerts = {} => \A c \in Watched \ unsure : told[c] = states[c].ok

\* A component is announced as down only after as many failures in a row as it needs.
OutageConfirmed ==
    [][\A c \in Watched : (told[c] /\ ~told'[c]) =>
          Len(recent[c]) = Confirmations[c] /\ \A i \in DOMAIN recent[c] : ~recent[c][i]]_vars
=============================================================================
