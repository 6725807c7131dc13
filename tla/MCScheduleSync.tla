--------------------------- MODULE MCScheduleSync ---------------------------
(***************************************************************************)
(* Small instances of ScheduleSync for TLC.                                *)
(***************************************************************************)
EXTENDS ScheduleSync, TLC

CONSTANTS one, other, everyone, first, second, maths, art

(* Calls are told apart by what they do, and not by who does it. *)
Symmetry == Permutations({one, other})

(* Of the current snapshot only whether it has lessons matters to what follows,
   of the events only those of today. *)
View == <<source, day, site, current \in {NoSchedule, EmptySchedule},
          recent /\ current # EmptySchedule, baseline, {e \in events : e[2] = day},
          calls, told, queued, twice, alarmed, excused, changes, faults>>

Two(x, y) == <<[g \in {everyone} |-> x], [g \in {everyone} |-> y]>>

(* The lessons of today change, and those of tomorrow are cancelled. *)
Term == {Two(maths, maths), Two(art, Free)}

(* The halves of a group have their own lessons, and both of them change. *)
Halves == {[d \in Dates |-> [g \in {first, second} |-> IF g = first THEN x ELSE y]] :
             <<x, y>> \in {<<maths, art>>, <<art, Free>>}}

College == [university |-> FALSE, subgroups |-> {everyone}, offered |-> Term,
            callers |-> {one, other}]
Faculty(c) == [university |-> TRUE, subgroups |-> {first, second}, offered |-> Halves,
               callers |-> {c}]
Both == {College, Faculty(one), Faculty(other)}
OneFaculty == {Faculty(one)}
=============================================================================
