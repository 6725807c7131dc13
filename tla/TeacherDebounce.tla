--------------------------- MODULE TeacherDebounce ---------------------------
(***************************************************************************)
(* Recalculating teachers after their groups have changed (scheduler.py     *)
(* 738-837): every change sets the teacher's timer anew, so that a photo of *)
(* many groups ends in one message; a pass under way is left alone and is   *)
(* followed by another one.                                                 *)
(***************************************************************************)
EXTENDS Naturals

CONSTANTS
    Tutors,         \* subscribed teachers
    MaxChanges,     \* bound: changes of a teacher's groups
    MaxLapses       \* bound: failed passes

VARIABLES
    version,    \* teacher -> the lessons his groups have, as a number of changes
    affected,   \* teacher -> changes whose get_active_sources has not answered yet
    timer,      \* teacher -> "none", "sleeping", "reading", "delivering"
    rerun,      \* _teacher_notify_rerun
    seen,       \* teacher -> the version his last pass has read
    left,       \* history: teachers whose last pass failed and has no successor
    lapses

vars == <<version, affected, timer, rerun, seen, left, lapses>>

Init ==
    /\ version = [t \in Tutors |-> 0] /\ affected = [t \in Tutors |-> 0]
    /\ timer = [t \in Tutors |-> "none"] /\ rerun = {}
    /\ seen = [t \in Tutors |-> 0] /\ left = {} /\ lapses = 0

Running(t) == timer[t] \in {"reading", "delivering"}

\* A group's new schedule is kept; _notify_affected_teachers asks for the sources.
GroupChanges(t) ==
    /\ version[t] < MaxChanges
    /\ version' = [version EXCEPT ![t] = @ + 1] /\ affected' = [affected EXCEPT ![t] = @ + 1]
    /\ UNCHANGED <<timer, rerun, seen, left, lapses>>

\* Mutant: a change that arrives during a pass is left to that pass.
LeftToThePass(t) ==
    /\ rerun' = rerun
    /\ timer' = IF Running(t) THEN timer ELSE [timer EXCEPT ![t] = "sleeping"]

\* A timer is cancelled and set anew; a pass is followed by another one.
TimerSet(t) ==
    IF Running(t) THEN rerun' = rerun \cup {t} /\ UNCHANGED timer
    ELSE timer' = [timer EXCEPT ![t] = "sleeping"] /\ UNCHANGED rerun

Schedule(t) ==
    /\ affected[t] > 0 /\ affected' = [affected EXCEPT ![t] = @ - 1]
    /\ TimerSet(t) /\ left' = left \ {t}
    /\ UNCHANGED <<version, seen, lapses>>

Elapses(t) ==
    /\ timer[t] = "sleeping" /\ timer' = [timer EXCEPT ![t] = "reading"]
    /\ UNCHANGED <<version, affected, rerun, seen, left, lapses>>

\* _sync_source puts the teacher's schedule together from the groups' snapshots.
Reads(t) ==
    /\ timer[t] = "reading" /\ timer' = [timer EXCEPT ![t] = "delivering"]
    /\ seen' = [seen EXCEPT ![t] = version[t]]
    /\ UNCHANGED <<version, affected, rerun, left, lapses>>

\* The end of the pass, successful or not, takes the request for another one.
Over(t) ==
    /\ timer' = [timer EXCEPT ![t] = IF t \in rerun THEN "sleeping" ELSE "none"]
    /\ rerun' = rerun \ {t}

Ends(t) ==
    /\ timer[t] = "delivering" /\ Over(t)
    /\ UNCHANGED <<version, affected, seen, left, lapses>>

\* _sync_teacher_source_safely: the next planned synchronisation has to do it.
PassFails(t) ==
    /\ Running(t) /\ lapses < MaxLapses /\ lapses' = lapses + 1
    /\ Over(t) /\ left' = IF t \in rerun THEN left ELSE left \cup {t}
    /\ UNCHANGED <<version, affected, seen>>

Next == \E t \in Tutors :
    GroupChanges(t) \/ Schedule(t) \/ Elapses(t) \/ Reads(t) \/ Ends(t) \/ PassFails(t)

Spec == Init /\ [][Next]_vars /\ \A t \in Tutors :
    WF_vars(Schedule(t)) /\ WF_vars(Elapses(t)) /\ WF_vars(Reads(t)) /\ WF_vars(Ends(t))
-----------------------------------------------------------------------------
\* A change the last pass has not seen is on its way to another pass, however the
\* changes fall between the timer, the reading and the delivery of the passes.
NoChangeForgotten ==
    \A t \in Tutors \ left : seen[t] < version[t] =>
        affected[t] > 0 \/ t \in rerun \/ timer[t] \in {"sleeping", "reading"}

\* Once the groups are quiet the teacher is recalculated with their last state.
TeachersCatchUp == \A t \in Tutors : <>[](t \in left \/ seen[t] = version[t])
=============================================================================
