--------------------------- MODULE LessonCounters ---------------------------
(***************************************************************************)
(* Counting the lessons a group has had (src/src/lesson_counters.py): a    *)
(* run of sync_lesson_counters_for_date adds one day's lessons to a JSON   *)
(* file and then marks the group's day in SQLite.  Runs are started by the *)
(* scheduler, by a RabbitMQ job, by the administrators in Telegram and VK  *)
(* and by the web configurator, which is a process of its own; editors in  *)
(* either process rewrite the same file.                                   *)
(*                                                                         *)
(* The counters of a group are modelled by how often they contain each     *)
(* day.  One step is what a coroutine does between two awaits.             *)
(***************************************************************************)
EXTENDS Naturals, Sequences

CONSTANTS
  Runs,        \* invocations of sync_lesson_counters_for_date
  Editors,     \* edits of the file in a bot's admin menu or in the web pages
  Process,     \* [Runs \union Editors -> processes]
  Days,        \* the days that are counted
  Groups,      \* names of the groups
  Sources,     \* the groups of group_sources in turn: those of the file, of
               \* the catalog, of OCR; two sources may name the same group
  Taught,      \* the <<day, group>> that had lessons
  \* Bounds of the model.
  MaxFaults    \* crashes and errors of the disk, SQLite or the site

ASSUME CountersAssumption ==
  /\ Runs \intersect Editors = {}
  /\ Days # {} /\ Groups # {}
  /\ DOMAIN Process = Runs \union Editors
  /\ Sources \in Seq(Groups)
  /\ Taught \subseteq Days \X Groups
  /\ MaxFaults \in Nat

VARIABLES
  file,     \* the JSON file: [Groups -> [Days -> how often the day is in it]]
  marks,    \* daily_lesson_counter_logs
  runs,     \* the invocations
  edits,    \* the editors
  exposed,  \* history: days counted while another run was at them, or whose
            \* mark was not written after they had been counted
  fresh,    \* history: runs and editors that have read the file as it is now
  raced,    \* history: a write replaced a file its writer had not read
  faults    \* faults so far

vars == <<file, marks, runs, edits, exposed, fresh, raced, faults>>

Counts == [Groups -> [Days -> Nat]]
NoCounts == [g \in Groups |-> [d \in Days |-> 0]]

(***************************************************************************)
(* checking   is_daily_counter_processed is next, for source `next`        *)
(* fetching   _fetch_day_lesson_pairs is under way                         *)
(* reading    apply_lesson_increments is next                              *)
(* writing    in the middle of it: the file was read, nothing else of this *)
(*            process runs                                                 *)
(* marking    mark_daily_counter_processed is next                         *)
(***************************************************************************)
Run == [pc : {"idle", "checking", "fetching", "reading", "writing", "marking", "over"},
        day : Days, next : Nat, group : Groups, copy : Counts]

Edit == [pc : {"idle", "editing", "over"}, copy : Counts]

IdleRun == [pc |-> "idle", day |-> CHOOSE d \in Days : TRUE, next |-> 1,
            group |-> CHOOSE g \in Groups : TRUE, copy |-> NoCounts]

(* Reading and rewriting the file is one synchronous call. *)
Runnable(x) == \A r \in Runs \ {x} : Process[r] = Process[x] => runs[r].pc # "writing"

(* The day a run is at, from the check of its mark to the writing of it. *)
At(r) == <<runs[r].day, runs[r].group>>
Underway(r) == runs[r].pc \in {"fetching", "reading", "writing", "marking"}
Counted(r) == runs[r].pc = "marking" /\ At(r) \in Taught

CanFail == faults < MaxFaults
Fault == CanFail /\ faults' = faults + 1
NoFault == UNCHANGED faults

Init ==
  /\ file = NoCounts
  /\ marks = {}
  /\ runs = [r \in Runs |-> IdleRun]
  /\ edits = [e \in Editors |-> [pc |-> "idle", copy |-> NoCounts]]
  /\ exposed = {}
  /\ fresh = {}
  /\ raced = FALSE
  /\ faults = 0

(* The file is replaced by `new`, which x made of what it had read. *)
Write(x, new) ==
  /\ file' = new
  /\ raced' = (raced \/ x \notin fresh)
  /\ fresh' = IF new = file THEN fresh \ {x} ELSE {}

Goes(r, pc) == runs' = [runs EXCEPT ![r].pc = pc]

-----------------------------------------------------------------------------
(* sync_lesson_counters_for_date *)

Begin(r, d) ==
  /\ runs[r].pc = "idle" /\ Runnable(r)
  /\ runs' = [runs EXCEPT ![r] = [@ EXCEPT !.pc = "checking", !.day = d]]
  /\ UNCHANGED <<file, marks, edits, exposed, fresh, raced, faults>>

Moved(r, pc) ==
  runs' = [runs EXCEPT ![r] = [@ EXCEPT !.pc = pc, !.next = runs[r].next + 1,
                                        !.group = Sources[runs[r].next]]]

(* Another run is at the same day of the group. *)
Contested(r, day) == \E q \in Runs \ {r} : Underway(q) /\ At(q) = day

(* Mutant: the mark of the day is not looked at. *)
CheckNothing(r) ==
  LET day == <<runs[r].day, Sources[runs[r].next]>> IN
  /\ runs[r].pc = "checking" /\ Runnable(r)
  /\ runs[r].next <= Len(Sources)
  /\ Moved(r, "fetching")
  /\ exposed' = IF Contested(r, day) THEN exposed \union {day} ELSE exposed
  /\ UNCHANGED <<file, marks, edits, fresh, raced, faults>>

(* A group whose day is marked is skipped. *)
Check(r) ==
  LET day == <<runs[r].day, Sources[runs[r].next]>> IN
  /\ runs[r].pc = "checking" /\ Runnable(r)
  /\ runs[r].next <= Len(Sources)
  /\ IF day \in marks
       THEN Moved(r, "checking") /\ UNCHANGED exposed
       ELSE /\ Moved(r, "fetching")
            /\ exposed' = IF Contested(r, day) THEN exposed \union {day} ELSE exposed
  /\ UNCHANGED <<file, marks, edits, fresh, raced, faults>>

(* The check is outside the try block: an SQLite error ends the run. *)
CheckFails(r) ==
  /\ runs[r].pc = "checking" /\ Runnable(r)
  /\ runs[r].next <= Len(Sources)
  /\ Fault
  /\ Goes(r, "over")
  /\ UNCHANGED <<file, marks, edits, exposed, fresh, raced>>

(* Mutant: a day nobody knows anything of counts as a day without lessons. *)
FetchUnknown(r) ==
  /\ runs[r].pc = "fetching" /\ Runnable(r)
  /\ \/ NoFault /\ Goes(r, IF At(r) \in Taught THEN "reading" ELSE "marking")
     \/ Fault /\ Goes(r, "marking")
  /\ UNCHANGED <<file, marks, edits, exposed, fresh, raced>>

(* The lessons of the day, from the site or the last snapshot.  A day that
   neither of them has is a failure and is not taken for an empty one. *)
Fetch(r) ==
  /\ runs[r].pc = "fetching" /\ Runnable(r)
  /\ \/ NoFault /\ Goes(r, IF At(r) \in Taught THEN "reading" ELSE "marking")
     \/ Fault /\ Goes(r, "checking")
  /\ UNCHANGED <<file, marks, edits, exposed, fresh, raced>>

(* Mutant: a file that cannot be read is taken for an empty one. *)
ReadFileOrEmpty(r) ==
  /\ runs[r].pc = "reading" /\ Runnable(r)
  /\ \/ /\ NoFault
        /\ runs' = [runs EXCEPT ![r] = [@ EXCEPT !.pc = "writing", !.copy = file]]
     \/ /\ Fault
        /\ runs' = [runs EXCEPT ![r] = [@ EXCEPT !.pc = "writing", !.copy = NoCounts]]
  /\ fresh' = fresh \union {r}
  /\ UNCHANGED <<file, marks, edits, exposed, raced>>

(* apply_lesson_increments reads the file; an unreadable file is not replaced. *)
ReadFile(r) ==
  /\ runs[r].pc = "reading" /\ Runnable(r)
  /\ \/ /\ NoFault
        /\ runs' = [runs EXCEPT ![r] = [@ EXCEPT !.pc = "writing", !.copy = file]]
        /\ fresh' = fresh \union {r}
     \/ /\ Fault
        /\ Goes(r, "checking")
        /\ UNCHANGED fresh
  /\ UNCHANGED <<file, marks, edits, exposed, raced>>

(* Mutant: a failure to save the file goes unnoticed. *)
WriteUnchecked(r) ==
  LET day == At(r) IN
  /\ runs[r].pc = "writing"
  /\ runs' = [runs EXCEPT ![r] = [@ EXCEPT !.pc = "marking", !.copy = NoCounts]]
  /\ \/ /\ NoFault
        /\ Write(r, [runs[r].copy EXCEPT ![day[2]][day[1]] = @ + 1])
     \/ Fault /\ UNCHANGED <<file, fresh, raced>>
  /\ UNCHANGED <<marks, edits, exposed>>

(* It adds the day and replaces the file, or fails and leaves it as it was. *)
WriteFile(r) ==
  LET day == At(r) IN
  /\ runs[r].pc = "writing"
  /\ \/ /\ NoFault
        /\ runs' = [runs EXCEPT ![r] = [@ EXCEPT !.pc = "marking", !.copy = NoCounts]]
        /\ Write(r, [runs[r].copy EXCEPT ![day[2]][day[1]] = @ + 1])
     \/ /\ Fault
        /\ runs' = [runs EXCEPT ![r] = [@ EXCEPT !.pc = "checking", !.copy = NoCounts]]
        /\ UNCHANGED <<file, fresh, raced>>
  /\ UNCHANGED <<marks, edits, exposed>>

(* Mutant: the date and the group are given in the wrong order. *)
MarkSwapped(r) ==
  /\ runs[r].pc = "marking" /\ Runnable(r)
  /\ NoFault /\ marks' = marks \union {<<runs[r].group, runs[r].day>>}
  /\ Goes(r, "checking")
  /\ UNCHANGED <<file, edits, exposed, fresh, raced>>

(* mark_daily_counter_processed, INSERT OR IGNORE; after an error the group is
   reported as failed although it has been counted. *)
Mark(r) ==
  /\ runs[r].pc = "marking" /\ Runnable(r)
  /\ \/ NoFault /\ marks' = marks \union {At(r)} /\ UNCHANGED exposed
     \/ /\ Fault /\ UNCHANGED marks
        /\ exposed' = IF Counted(r) THEN exposed \union {At(r)} ELSE exposed
  /\ Goes(r, "checking")
  /\ UNCHANGED <<file, edits, fresh, raced>>

Finish(r) ==
  /\ runs[r].pc = "checking" /\ Runnable(r)
  /\ runs[r].next > Len(Sources)
  /\ Goes(r, "over")
  /\ UNCHANGED <<file, marks, edits, exposed, fresh, raced, faults>>

-----------------------------------------------------------------------------
(* Editors *)

(* load_lesson_config, for an edit that leaves the counters alone. *)
Load(e) ==
  /\ edits[e].pc = "idle" /\ Runnable(e)
  /\ edits' = [edits EXCEPT ![e] = [pc |-> "editing", copy |-> file]]
  /\ fresh' = fresh \union {e}
  /\ UNCHANGED <<file, marks, runs, exposed, raced, faults>>

(* save_lesson_config, after awaiting the validation of what was entered. *)
Save(e) ==
  /\ edits[e].pc = "editing" /\ Runnable(e)
  /\ Write(e, edits[e].copy)
  /\ edits' = [edits EXCEPT ![e] = [pc |-> "over", copy |-> NoCounts]]
  /\ UNCHANGED <<marks, runs, exposed, faults>>

-----------------------------------------------------------------------------
(* A process dies with its runs and editors.  The file is replaced whole. *)
Crash(p) ==
  /\ Fault
  /\ runs' = [r \in Runs |-> IF Process[r] = p /\ runs[r].pc # "idle"
                               THEN [runs[r] EXCEPT !.pc = "over", !.copy = NoCounts]
                               ELSE runs[r]]
  /\ edits' = [e \in Editors |-> IF Process[e] = p /\ edits[e].pc = "editing"
                                   THEN [pc |-> "over", copy |-> NoCounts]
                                   ELSE edits[e]]
  /\ exposed' = exposed \union {At(r) : r \in {q \in Runs : Process[q] = p /\ Counted(q)}}
  /\ fresh' = fresh \ {x \in Runs \union Editors : Process[x] = p}
  /\ UNCHANGED <<file, marks, raced>>

Next ==
  \/ \E r \in Runs :
       \/ \E d \in Days : Begin(r, d)
       \/ Check(r) \/ CheckFails(r) \/ Fetch(r) \/ ReadFile(r) \/ WriteFile(r) \/ Mark(r) \/ Finish(r)
  \/ \E e \in Editors : Load(e) \/ Save(e)
  \/ \E p \in {Process[x] : x \in Runs \union Editors} : Crash(p)

Spec == Init /\ [][Next]_vars
-----------------------------------------------------------------------------
(* Properties *)

\* The variables have their types (lesson_counters.py).
TypeOK ==
  /\ file \in Counts
  /\ marks \subseteq Days \X Groups
  /\ runs \in [Runs -> Run]
  /\ edits \in [Editors -> Edit]
  /\ exposed \subseteq Days \X Groups
  /\ fresh \subseteq Runs \union Editors
  /\ raced \in BOOLEAN
  /\ faults \in Nat

\* lesson_counters.py:165-171: a day is counted for a group exactly once however
\* often the call is repeated, by schedule and by hand.
CountedOnce == \A g \in Groups, d \in Days : file[g][d] <= 1

\* A day is in a counter twice only when two runs were at it at the same time,
\* or when a run that had counted it did not get to write its mark.  One run
\* never does it, not even for a group that has two sources.
CountedTwiceOnlyIfExposed ==
  \A g \in Groups, d \in Days : file[g][d] > 1 => <<d, g>> \in exposed

\* LessonDayUnavailableError, and the check of what apply_lesson_increments
\* returns: a day that is marked has its lessons in the file, whatever failed on
\* the way, as long as nobody wrote back a file he had read before a change.
MarkedIsCounted ==
  raced \/ \A day \in marks \intersect Taught : file[day[2]][day[1]] > 0

\* A day once counted stays counted: only a writer whose copy of the file is
\* out of date takes it away (lesson_counters.py:745, web_configurator/app.py:532).
CountsStay ==
  [][\/ raced'
     \/ \A g \in Groups, d \in Days : file'[g][d] >= file[g][d]]_vars
=============================================================================
