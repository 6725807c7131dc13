----------------------- MODULE LessonCounters_proofs -----------------------
(***************************************************************************)
(* Theorems about LessonCounters for any runs, editors, processes, days    *)
(* and sources.                                                            *)
(***************************************************************************)
EXTENDS LessonCounters, TLAPS

-----------------------------------------------------------------------------
(* Types *)

(* A run counts the sources from the first one on. *)
Typed == TypeOK /\ \A r \in Runs : runs[r].next >= 1

(* The step of the run r: nothing else changes it, but a crash. *)
Own(r) ==
  \/ \E d \in Days : Begin(r, d)
  \/ Check(r) \/ CheckFails(r) \/ Fetch(r) \/ ReadFile(r) \/ WriteFile(r) \/ Mark(r) \/ Finish(r)

LEMMA NextCases ==
  ASSUME [Next]_vars
  PROVE  \/ \E r \in Runs : Own(r)
         \/ \E e \in Editors : Load(e) \/ Save(e)
         \/ \E p \in {Process[x] : x \in Runs \union Editors} : Crash(p)
         \/ UNCHANGED vars
BY DEF Next, Own

LEMMA ConstantTypes ==
  /\ NoCounts \in Counts /\ IdleRun \in Run /\ IdleRun.next = 1 /\ IdleRun.pc = "idle"
  /\ IdleRun.copy = NoCounts
<1>1. NoCounts \in Counts
  BY DEF NoCounts, Counts
<1>2. (CHOOSE d \in Days : TRUE) \in Days /\ (CHOOSE g \in Groups : TRUE) \in Groups
  BY CountersAssumption
<1>3. QED BY <1>1, <1>2 DEF IdleRun, Run

(* One more of a day in a copy of the counters. *)
More(c, day) == [c EXCEPT ![day[2]][day[1]] = @ + 1]
Times(c, day) == c[day[2]][day[1]]

LEMMA MoreIs ==
  ASSUME NEW c \in Counts, NEW d \in Days, NEW g \in Groups
  PROVE  /\ More(c, <<d, g>>) \in Counts
         /\ \A day \in Days \X Groups :
              Times(More(c, <<d, g>>), day) = IF day = <<d, g>> THEN Times(c, day) + 1 ELSE Times(c, day)
<1>1. More(c, <<d, g>>) = [c EXCEPT ![g] = [c[g] EXCEPT ![d] = c[g][d] + 1]]
  BY DEF More, Counts
<1>2. c[g][d] \in Nat /\ c[g] \in [Days -> Nat]
  BY DEF Counts
<1>3. [c[g] EXCEPT ![d] = c[g][d] + 1] \in [Days -> Nat]
  BY <1>2
<1>4. More(c, <<d, g>>) \in Counts
  BY <1>1, <1>3 DEF Counts
<1>5. ASSUME NEW e \in Days, NEW h \in Groups
      PROVE  More(c, <<d, g>>)[h][e] = IF <<e, h>> = <<d, g>> THEN c[h][e] + 1 ELSE c[h][e]
  <2>1. g \in DOMAIN c /\ DOMAIN c[g] = Days
    BY <1>2 DEF Counts
  <2>2. More(c, <<d, g>>)[h] = IF h = g THEN [c[g] EXCEPT ![d] = c[g][d] + 1] ELSE c[h]
    BY <1>1, <2>1 DEF Counts
  <2>3. [c[g] EXCEPT ![d] = c[g][d] + 1][e] = IF e = d THEN c[g][d] + 1 ELSE c[g][e]
    BY <2>1
  <2>4. QED BY <2>2, <2>3
<1>6. ASSUME NEW day \in Days \X Groups
      PROVE  Times(More(c, <<d, g>>), day) = IF day = <<d, g>> THEN Times(c, day) + 1 ELSE Times(c, day)
  <2>1. PICK e \in Days, h \in Groups : day = <<e, h>>
    OBVIOUS
  <2>2. QED BY <1>5, <2>1 DEF Times
<1>7. QED BY <1>4, <1>6

(* What the steps of a run leave of it. *)
LEMMA OwnRun ==
  ASSUME Typed, NEW r \in Runs, Own(r)
  PROVE  /\ runs' = [runs EXCEPT ![r] = runs'[r]]
         /\ runs'[r] \in Run /\ runs'[r].next >= 1
<1>0. /\ runs \in [Runs -> Run] /\ runs[r] \in Run /\ runs[r].next >= 1 /\ runs[r].next \in Nat
      /\ file \in Counts /\ NoCounts \in Counts
  BY ConstantTypes DEF Typed, TypeOK, Run
<1>1. ASSUME NEW pc \in {"checking", "fetching", "reading", "marking", "over"},
             runs' = [runs EXCEPT ![r] = [runs[r] EXCEPT !.pc = pc]]
      PROVE  runs' = [runs EXCEPT ![r] = runs'[r]] /\ runs'[r] \in Run /\ runs'[r].next >= 1
  BY <1>0, <1>1 DEF Run
<1>2. ASSUME NEW d \in Days, Begin(r, d)
      PROVE  runs' = [runs EXCEPT ![r] = runs'[r]] /\ runs'[r] \in Run /\ runs'[r].next >= 1
  BY <1>0, <1>2 DEF Begin, Run
<1>3. CASE Check(r)
  <2>1. Sources[runs[r].next] \in Groups /\ runs[r].next + 1 \in Nat /\ runs[r].next + 1 >= 1
    BY <1>0, <1>3, CountersAssumption DEF Check
  <2>2. PICK pc \in {"checking", "fetching"} : Moved(r, pc)
    BY <1>3 DEF Check
  <2>. DEFINE run == [runs[r] EXCEPT !.pc = pc, !.next = runs[r].next + 1,
                                      !.group = Sources[runs[r].next]]
  <2>3. runs' = [runs EXCEPT ![r] = run]
    BY <2>2 DEF Moved
  <2>4. run \in Run /\ run.next = runs[r].next + 1
    BY <1>0, <2>1 DEF Run
  <2>. HIDE DEF run
  <2>5. QED BY <1>0, <2>1, <2>3, <2>4
<1>4. CASE CheckFails(r) \/ Fetch(r) \/ Mark(r) \/ Finish(r)
  BY <1>1, <1>4 DEF CheckFails, Fetch, Mark, Finish, Goes
<1>5. CASE ReadFile(r)
  <2>1. CASE runs' = [runs EXCEPT ![r] = [runs[r] EXCEPT !.pc = "writing", !.copy = file]]
    BY <1>0, <2>1 DEF Run
  <2>2. CASE Goes(r, "checking")
    BY <1>1, <2>2 DEF Goes
  <2>3. QED BY <1>5, <2>1, <2>2 DEF ReadFile
<1>6. CASE WriteFile(r)
  <2>1. PICK pc \in {"marking", "checking"} :
          runs' = [runs EXCEPT ![r] = [runs[r] EXCEPT !.pc = pc, !.copy = NoCounts]]
    BY <1>6 DEF WriteFile
  <2>2. QED BY <1>0, <2>1 DEF Run
<1>7. QED BY <1>2, <1>3, <1>4, <1>5, <1>6 DEF Own

LEMMA OwnData ==
  ASSUME Typed, NEW r \in Runs, Own(r)
  PROVE  /\ file' \in Counts
         /\ marks' \subseteq Days \X Groups
         /\ edits' = edits
         /\ exposed \subseteq exposed' /\ exposed' \subseteq Days \X Groups
         /\ fresh' \subseteq Runs \union Editors
         /\ raced' \in BOOLEAN
         /\ faults' \in Nat
<1>0. /\ runs[r] \in Run /\ At(r) \in Days \X Groups
      /\ file \in Counts /\ marks \subseteq Days \X Groups /\ exposed \subseteq Days \X Groups
      /\ fresh \subseteq Runs \union Editors /\ raced \in BOOLEAN /\ faults \in Nat
  BY DEF Typed, TypeOK, Run, At
<1>1. CASE \E d \in Days : Begin(r, d)
  BY <1>0, <1>1 DEF Begin
<1>2. CASE Check(r)
  <2>1. <<runs[r].day, Sources[runs[r].next]>> \in Days \X Groups
    <3>1. runs[r].next \in 1 .. Len(Sources)
      BY <1>0, <1>2 DEF Check, Run, Typed
    <3>2. QED BY <1>0, <3>1, CountersAssumption DEF Run
  <2>2. QED BY <1>0, <1>2, <2>1 DEF Check
<1>3. CASE CheckFails(r) \/ Fetch(r) \/ ReadFile(r) \/ Finish(r)
  BY <1>0, <1>3 DEF CheckFails, Fetch, ReadFile, Finish, Fault, NoFault
<1>4. CASE WriteFile(r)
  <2>1. More(runs[r].copy, At(r)) \in Counts
    BY <1>0, MoreIs DEF At, Run
  <2>2. CASE Write(r, More(runs[r].copy, At(r))) /\ NoFault
    <3>1. raced' \in BOOLEAN
      BY <2>2 DEF Write
    <3>2. fresh' \subseteq Runs \union Editors /\ file' \in Counts
      BY <1>0, <2>1, <2>2 DEF Write
    <3>3. QED BY <1>0, <1>4, <2>2, <3>1, <3>2 DEF WriteFile, NoFault
  <2>3. CASE Fault /\ UNCHANGED <<file, fresh, raced>>
    BY <1>0, <1>4, <2>3 DEF WriteFile, Fault
  <2>4. QED BY <1>4, <2>2, <2>3 DEF WriteFile, More
<1>5. CASE Mark(r)
  BY <1>0, <1>5 DEF Mark, Fault, NoFault
<1>6. QED BY <1>1, <1>2, <1>3, <1>4, <1>5 DEF Own

LEMMA EditorData ==
  ASSUME Typed, NEW e \in Editors, Load(e) \/ Save(e)
  PROVE  /\ file' \in Counts /\ UNCHANGED <<marks, runs, exposed, faults>>
         /\ edits' \in [Editors -> Edit]
         /\ fresh' \subseteq Runs \union Editors
         /\ raced' \in BOOLEAN
<1>0. /\ edits \in [Editors -> Edit] /\ file \in Counts /\ NoCounts \in Counts
      /\ fresh \subseteq Runs \union Editors /\ raced \in BOOLEAN
  BY ConstantTypes DEF Typed, TypeOK
<1>1. CASE Load(e)
  BY <1>0, <1>1 DEF Load, Edit
<1>2. CASE Save(e)
  <2>1. edits[e].copy \in Counts
    BY <1>0 DEF Edit
  <2>2. raced' \in BOOLEAN
    BY <1>2 DEF Save, Write
  <2>3. edits' \in [Editors -> Edit]
    BY <1>0, <1>2 DEF Save, Edit
  <2>4. file' \in Counts /\ fresh' \subseteq Runs \union Editors
    BY <1>0, <1>2, <2>1 DEF Save, Write
  <2>5. QED BY <1>2, <2>2, <2>3, <2>4 DEF Save
<1>3. QED BY <1>1, <1>2

LEMMA CrashData ==
  ASSUME Typed, NEW p, Crash(p)
  PROVE  /\ runs' \in [Runs -> Run] /\ \A r \in Runs : runs'[r].next = runs[r].next
         /\ \A r \in Runs :
              runs'[r] # runs[r] => runs'[r].pc = "over" /\ runs'[r].copy = NoCounts
         /\ edits' \in [Editors -> Edit]
         /\ \A e \in Editors :
              edits'[e] # edits[e] => edits'[e].pc = "over" /\ edits'[e].copy = NoCounts
         /\ exposed \subseteq exposed' /\ exposed' \subseteq Days \X Groups
         /\ fresh' \subseteq fresh
         /\ UNCHANGED <<file, marks, raced>> /\ faults' \in Nat
<1>0. /\ runs \in [Runs -> Run] /\ edits \in [Editors -> Edit] /\ NoCounts \in Counts
      /\ faults \in Nat /\ exposed \subseteq Days \X Groups
      /\ \A r \in Runs : At(r) \in Days \X Groups
  BY ConstantTypes DEF Typed, TypeOK, Run, At
<1>1. \A r \in Runs : runs'[r] \in {runs[r], [runs[r] EXCEPT !.pc = "over", !.copy = NoCounts]}
  BY DEF Crash
<1>2. ASSUME NEW r \in Runs
      PROVE  /\ runs'[r] \in Run /\ runs'[r].next = runs[r].next
             /\ runs'[r] # runs[r] => runs'[r].pc = "over" /\ runs'[r].copy = NoCounts
  <2>. DEFINE over == [runs[r] EXCEPT !.pc = "over", !.copy = NoCounts]
  <2>1. runs[r] \in Run
    BY <1>0
  <2>2. over \in Run /\ over.next = runs[r].next /\ over.pc = "over" /\ over.copy = NoCounts
    BY <1>0, <2>1 DEF Run
  <2>3. runs'[r] = runs[r] \/ runs'[r] = over
    BY <1>1
  <2>. HIDE DEF over
  <2>4. QED BY <2>1, <2>2, <2>3
<1>3. \A e \in Editors : edits'[e] \in {edits[e], [pc |-> "over", copy |-> NoCounts]}
  BY DEF Crash
<1>4. ASSUME NEW e \in Editors
      PROVE  /\ edits'[e] \in Edit
             /\ edits'[e] # edits[e] => edits'[e].pc = "over" /\ edits'[e].copy = NoCounts
  BY <1>0, <1>3 DEF Edit
<1>5. runs' \in [Runs -> Run] /\ edits' \in [Editors -> Edit]
  BY <1>2, <1>4 DEF Crash
<1>6. exposed \subseteq exposed' /\ exposed' \subseteq Days \X Groups
  BY <1>0 DEF Crash
<1>7. fresh' \subseteq fresh
  BY DEF Crash
<1>8. UNCHANGED <<file, marks, raced>>
  BY DEF Crash
<1>9. Fault
  BY DEF Crash
<1>10. faults' \in Nat
  BY <1>0, <1>9 DEF Fault
<1>11. QED BY <1>2, <1>4, <1>5, <1>6, <1>7, <1>8, <1>10

LEMMA TypeInit == Init => Typed
<1>. SUFFICES ASSUME Init PROVE Typed
  OBVIOUS
<1>1. runs \in [Runs -> Run] /\ \A r \in Runs : runs[r].next = 1
  BY ConstantTypes DEF Init
<1>2. edits \in [Editors -> Edit] /\ file \in Counts
  BY ConstantTypes DEF Init, Edit
<1>3. raced \in BOOLEAN /\ faults \in Nat
  BY DEF Init
<1>4. marks = {} /\ exposed = {} /\ fresh = {}
  BY DEF Init
<1>5. QED BY <1>1, <1>2, <1>3, <1>4 DEF Typed, TypeOK

LEMMA TypeStep == Typed /\ [Next]_vars => Typed'
<1>. SUFFICES ASSUME Typed, [Next]_vars PROVE Typed'
  OBVIOUS
<1>1. ASSUME NEW r \in Runs, Own(r) PROVE Typed'
  <2>1. runs' \in [Runs -> Run] /\ \A q \in Runs : runs'[q].next >= 1
    <3>1. /\ runs \in [Runs -> Run] /\ \A q \in Runs : runs[q].next >= 1
          /\ runs' = [runs EXCEPT ![r] = runs'[r]] /\ runs'[r] \in Run /\ runs'[r].next >= 1
      BY <1>1, OwnRun DEF Typed, TypeOK
    <3>2. ASSUME NEW q \in Runs PROVE runs'[q] \in {runs[q], runs'[r]}
      BY <3>1
    <3>3. QED BY <3>1, <3>2
  <2>2. QED BY <1>1, <2>1, OwnData DEF Typed, TypeOK
<1>2. ASSUME NEW e \in Editors, Load(e) \/ Save(e) PROVE Typed'
  BY <1>2, EditorData DEF Typed, TypeOK
<1>3. ASSUME NEW p, Crash(p) PROVE Typed'
  BY <1>3, CrashData DEF Typed, TypeOK
<1>4. CASE UNCHANGED vars
  BY <1>4 DEF vars, Typed, TypeOK
<1>5. QED BY <1>1, <1>2, <1>3, <1>4, NextCases

\* The variables keep their types (lesson_counters.py).
THEOREM TypeCorrect == Spec => []TypeOK
<1>1. Typed => TypeOK
  BY DEF Typed
<1>2. QED BY <1>1, TypeInit, TypeStep, PTL DEF Spec

-----------------------------------------------------------------------------
(* How often a day is counted *)

Busy(r, day) == Underway(r) /\ At(r) = day

(* A run reads and writes the file for a day that had lessons. *)
CountsTaught(r) == runs[r].pc \in {"reading", "writing"} => At(r) \in Taught

(* The counters, and what somebody has read of them and may write back. *)
Copies == {file} \union {runs[r].copy : r \in Runs} \union {edits[e].copy : e \in Editors}

(* Until a day is exposed one run at a time is at it, and not after its mark; it
   is in no copy before a run has counted it, and never twice. *)
Sound(day) ==
  /\ \A q, r \in Runs : Busy(q, day) /\ Busy(r, day) => q = r
  /\ \A r \in Runs : Busy(r, day) => day \notin marks
  /\ \A c \in Copies :
       /\ Times(c, day) <= 1
       /\ Times(c, day) > 0 => day \in marks \/ \E r \in Runs : Counted(r) /\ At(r) = day

CountInv ==
  /\ \A r \in Runs : CountsTaught(r)
  /\ \A day \in (Days \X Groups) \ exposed : Sound(day)

(* The run r starts with a day: it is not marked, and if another run is at it
   the day is exposed. *)
Enters(r) ==
  /\ UNCHANGED marks /\ At(r)' \notin marks
  /\ At(r)' \in exposed' \/ \A q \in Runs \ {r} : ~Busy(q, At(r)')

(* The run r adds its day to the file. *)
Adds(r) ==
  /\ runs[r].pc = "writing" /\ At(r) \in Taught
  /\ file' = More(runs[r].copy, At(r))
  /\ runs'[r].copy = NoCounts /\ Counted(r)' /\ At(r)' = At(r)

LEMMA OwnCounts ==
  ASSUME Typed, NEW r \in Runs, Own(r), CountsTaught(r)
  PROVE  /\ CountsTaught(r)'
         /\ Underway(r)' => \/ Underway(r) /\ At(r)' = At(r)
                            \/ Enters(r)
         /\ \/ marks' = marks
            \/ marks' = marks \union {At(r)} /\ runs[r].pc = "marking" /\ ~Underway(r)'
         /\ Counted(r) => At(r) \in marks' \union exposed'
         /\ \/ file' = file /\ runs'[r].copy \in {runs[r].copy, file, NoCounts}
            \/ Adds(r)
         /\ Counted(r)' => Adds(r)
<1>0. runs \in [Runs -> Run] /\ runs[r] \in Run
  BY DEF Typed, TypeOK
<1>1. ASSUME NEW pc, Goes(r, pc)
      PROVE  runs'[r].pc = pc /\ At(r)' = At(r) /\ runs'[r].copy = runs[r].copy
  BY <1>0, <1>1 DEF Goes, At, Run
<1>2. CASE \E d \in Days : Begin(r, d)
  <2>1. /\ runs'[r].pc = "checking" /\ runs'[r].copy = runs[r].copy /\ runs[r].pc = "idle"
        /\ UNCHANGED <<file, marks>>
    BY <1>0, <1>2 DEF Begin, Run
  <2>2. QED BY <2>1 DEF CountsTaught, Underway, Counted
<1>3. CASE Check(r)
  <2>. DEFINE day == <<runs[r].day, Sources[runs[r].next]>>
  <2>1. /\ runs[r].pc = "checking" /\ UNCHANGED <<file, marks>>
        /\ \/ day \in marks /\ Moved(r, "checking")
           \/ /\ day \notin marks /\ Moved(r, "fetching")
              /\ exposed' = IF Contested(r, day) THEN exposed \union {day} ELSE exposed
    BY <1>3 DEF Check
  <2>2. ASSUME NEW pc, Moved(r, pc)
        PROVE  runs'[r].pc = pc /\ At(r)' = day /\ runs'[r].copy = runs[r].copy
    <3>. DEFINE run == [runs[r] EXCEPT !.pc = pc, !.next = runs[r].next + 1,
                                      !.group = Sources[runs[r].next]]
    <3>1. run.pc = pc /\ <<run.day, run.group>> = day /\ run.copy = runs[r].copy
      BY <1>0 DEF Run
    <3>2. runs'[r] = run
      BY <1>0, <2>2 DEF Moved
    <3>. HIDE DEF run
    <3>3. QED BY <3>1, <3>2 DEF At
  <2>. HIDE DEF day
  <2>3. CASE Moved(r, "checking")
    BY <2>1, <2>2, <2>3 DEF CountsTaught, Underway, Counted
  <2>4. CASE /\ day \notin marks /\ Moved(r, "fetching")
             /\ exposed' = IF Contested(r, day) THEN exposed \union {day} ELSE exposed
    <3>1. Enters(r)
      BY <2>1, <2>2, <2>4 DEF Enters, Contested, Busy
    <3>2. QED BY <2>1, <2>2, <2>4, <3>1 DEF CountsTaught, Underway, Counted
  <2>5. QED BY <2>1, <2>3, <2>4
<1>4. CASE CheckFails(r) \/ Finish(r)
  BY <1>1, <1>4 DEF CheckFails, Finish, CountsTaught, Underway, Counted
<1>5. CASE Fetch(r)
  <2>1. /\ runs[r].pc = "fetching" /\ UNCHANGED <<file, marks>>
        /\ \/ Goes(r, "reading") /\ At(r) \in Taught
           \/ Goes(r, "marking") /\ At(r) \notin Taught
           \/ Goes(r, "checking")
    BY <1>5 DEF Fetch
  <2>2. QED BY <1>1, <2>1 DEF CountsTaught, Underway, Counted
<1>6. CASE ReadFile(r)
  <2>1. /\ runs[r].pc = "reading" /\ At(r) \in Taught /\ UNCHANGED <<file, marks>>
    BY <1>6 DEF ReadFile, CountsTaught
  <2>2. CASE Goes(r, "checking")
    BY <1>1, <2>1, <2>2 DEF CountsTaught, Underway, Counted
  <2>3. CASE runs' = [runs EXCEPT ![r] = [runs[r] EXCEPT !.pc = "writing", !.copy = file]]
    <3>1. runs'[r].pc = "writing" /\ At(r)' = At(r) /\ runs'[r].copy = file
      BY <1>0, <2>3 DEF Run, At
    <3>2. QED BY <2>1, <3>1 DEF CountsTaught, Underway, Counted
  <2>4. QED BY <1>6, <2>2, <2>3 DEF ReadFile
<1>7. CASE WriteFile(r)
  <2>1. runs[r].pc = "writing" /\ At(r) \in Taught /\ UNCHANGED marks
    BY <1>7 DEF WriteFile, CountsTaught
  <2>2. ASSUME NEW pc,
               runs' = [runs EXCEPT ![r] = [runs[r] EXCEPT !.pc = pc, !.copy = NoCounts]]
        PROVE  runs'[r].pc = pc /\ At(r)' = At(r) /\ runs'[r].copy = NoCounts
    BY <1>0, <2>2 DEF Run, At
  <2>3. CASE /\ runs' = [runs EXCEPT ![r] = [runs[r] EXCEPT !.pc = "marking", !.copy = NoCounts]]
             /\ Write(r, More(runs[r].copy, At(r)))
    <3>1. Adds(r)
      BY <2>1, <2>2, <2>3 DEF Adds, Counted, Write
    <3>2. QED BY <2>1, <2>2, <2>3, <3>1 DEF CountsTaught, Underway, Counted
  <2>4. CASE /\ runs' = [runs EXCEPT ![r] = [runs[r] EXCEPT !.pc = "checking", !.copy = NoCounts]]
             /\ UNCHANGED <<file, fresh, raced>>
    BY <2>1, <2>2, <2>4 DEF CountsTaught, Underway, Counted
  <2>5. QED BY <1>7, <2>3, <2>4 DEF WriteFile, More
<1>8. CASE Mark(r)
  <2>1. /\ runs[r].pc = "marking" /\ Goes(r, "checking") /\ UNCHANGED file
        /\ marks' = marks \/ marks' = marks \union {At(r)}
        /\ Counted(r) => At(r) \in marks' \union exposed'
    BY <1>8 DEF Mark
  <2>2. QED BY <1>1, <2>1 DEF CountsTaught, Underway, Counted
<1>9. QED BY <1>2, <1>3, <1>4, <1>5, <1>6, <1>7, <1>8 DEF Own

LEMMA CopiesType == Typed => Copies \subseteq Counts
  BY DEF Typed, TypeOK, Copies, Run, Edit

(* What keeps a day sound: runs enter it one at a time, its mark is written at
   the end of one, and what a run has counted is marked or still to be marked. *)
LEMMA SoundKept ==
  ASSUME Typed, NEW day \in Days \X Groups, Sound(day),
         \A r \in Runs : Busy(r, day)' =>
           \/ Busy(r, day)
           \/ /\ day \notin marks /\ UNCHANGED marks
              /\ \A q \in Runs \ {r} : ~Busy(q, day) /\ ~Busy(q, day)',
         marks \subseteq marks',
         day \in marks' \ marks => \E r \in Runs : Busy(r, day) /\ ~Busy(r, day)',
         \A r \in Runs : Counted(r) /\ At(r) = day =>
           day \in marks' \/ (Counted(r) /\ At(r) = day)',
         \A c \in Copies' :
           \/ Times(c, day) = 0
           \/ \E b \in Copies : Times(c, day) = Times(b, day)
           \/ \E r \in Runs, b \in Copies :
                /\ Times(c, day) = Times(b, day) + 1
                /\ Busy(r, day) /\ ~Counted(r) /\ (Counted(r) /\ At(r) = day)'
  PROVE  Sound(day)'
<1>1. ASSUME NEW q \in Runs, NEW r \in Runs, Busy(q, day)', Busy(r, day)' PROVE q = r
  BY <1>1 DEF Sound
<1>2. ASSUME NEW r \in Runs, Busy(r, day)' PROVE day \notin marks'
  <2>1. CASE Busy(r, day)
    BY <1>2, <2>1 DEF Sound
  <2>2. CASE ~Busy(r, day)
    BY <1>2, <2>2
  <2>3. QED BY <2>1, <2>2
<1>3. ASSUME NEW c \in Copies'
      PROVE  /\ Times(c, day) <= 1
             /\ Times(c, day) > 0 => day \in marks' \/ \E r \in Runs : (Counted(r) /\ At(r) = day)'
  <2>1. CASE Times(c, day) = 0
    BY <2>1
  <2>2. ASSUME NEW b \in Copies, Times(c, day) = Times(b, day) PROVE <1>3!2
    <3>1. /\ Times(b, day) <= 1
          /\ Times(b, day) > 0 => day \in marks \/ \E r \in Runs : Counted(r) /\ At(r) = day
      BY DEF Sound
    <3>2. QED BY <2>2, <3>1
  <2>3. ASSUME NEW r \in Runs, NEW b \in Copies, Times(c, day) = Times(b, day) + 1,
               Busy(r, day), ~Counted(r), (Counted(r) /\ At(r) = day)'
        PROVE  <1>3!2
    <3>1. ASSUME NEW q \in Runs, Counted(q), At(q) = day PROVE FALSE
      <4>1. Busy(q, day)
        BY <3>1 DEF Counted, Busy, Underway
      <4>2. QED BY <2>3, <3>1, <4>1 DEF Sound
    <3>2. day \notin marks
      BY <2>3 DEF Sound
    <3>3. ~(Times(b, day) > 0)
      BY <3>1, <3>2 DEF Sound
    <3>4. Times(b, day) \in Nat
      BY CopiesType DEF Times, Counts
    <3>5. QED BY <2>3, <3>3, <3>4
  <2>4. QED BY <1>3, <2>1, <2>2, <2>3
<1>4. QED BY <1>1, <1>2, <1>3 DEF Sound

LEMMA OwnSound ==
  ASSUME Typed, [Next]_vars, CountInv, NEW r \in Runs, Own(r),
         NEW day \in (Days \X Groups) \ exposed'
  PROVE  Sound(day)'
<1>0. /\ CountsTaught(r) /\ Sound(day) /\ exposed \subseteq exposed'
      /\ \A q \in Runs \ {r} : runs'[q] = runs[q]
      /\ edits' = edits /\ file \in Copies /\ runs[r].copy \in Copies
  BY OwnData, OwnRun DEF CountInv, Copies, Typed, TypeOK
<1>1. ASSUME NEW q \in Runs \ {r}
      PROVE  /\ Underway(q)' = Underway(q) /\ At(q)' = At(q) /\ Counted(q)' = Counted(q)
             /\ Busy(q, day)' = Busy(q, day)
  BY <1>0 DEF Underway, At, Counted, Busy
<1>2. \A q \in Runs : Busy(q, day)' =>
        \/ Busy(q, day)
        \/ /\ day \notin marks /\ UNCHANGED marks
           /\ \A p \in Runs \ {q} : ~Busy(p, day) /\ ~Busy(p, day)'
  <2>1. ASSUME Busy(r, day)', ~Busy(r, day)
        PROVE  /\ day \notin marks /\ UNCHANGED marks
               /\ \A p \in Runs \ {r} : ~Busy(p, day) /\ ~Busy(p, day)'
    <3>1. Enters(r) /\ At(r)' = day
      BY <1>0, <2>1, OwnCounts DEF Busy
    <3>2. QED BY <1>1, <3>1 DEF Enters
  <2>2. QED BY <1>1, <2>1
<1>3. /\ marks \subseteq marks'
      /\ day \in marks' \ marks => \E q \in Runs : Busy(q, day) /\ ~Busy(q, day)'
  BY <1>0, OwnCounts DEF Busy, Underway
<1>4. \A q \in Runs : Counted(q) /\ At(q) = day => day \in marks' \/ (Counted(q) /\ At(q) = day)'
  BY <1>0, <1>1, OwnCounts
<1>5. ASSUME NEW c \in Copies'
      PROVE  \/ Times(c, day) = 0
             \/ \E b \in Copies : Times(c, day) = Times(b, day)
             \/ \E q \in Runs, b \in Copies :
                  /\ Times(c, day) = Times(b, day) + 1
                  /\ Busy(q, day) /\ ~Counted(q) /\ (Counted(q) /\ At(q) = day)'
  <2>1. Times(NoCounts, day) = 0
    BY DEF Times, NoCounts
  <2>2. c \in Copies \union {NoCounts, file', runs'[r].copy}
    BY <1>0 DEF Copies
  <2>3. CASE Adds(r) /\ c = file'
    <3>1. runs[r].copy \in Counts /\ At(r) \in Days \X Groups
      BY DEF Typed, TypeOK, Run, At
    <3>2. Times(c, day) = IF day = At(r) THEN Times(runs[r].copy, day) + 1
                                         ELSE Times(runs[r].copy, day)
      BY <2>3, <3>1, MoreIs DEF Adds, At
    <3>3. Underway(r) /\ ~Counted(r) /\ Counted(r)' /\ At(r)' = At(r)
      BY <2>3 DEF Adds, Underway, Counted
    <3>4. QED BY <1>0, <3>2, <3>3 DEF Busy
  <2>4. CASE c \in Copies \/ c = NoCounts
    BY <2>1, <2>4
  <2>5. QED BY <1>0, <2>2, <2>3, <2>4, OwnCounts DEF Adds
<1>6. QED BY <1>0, <1>2, <1>3, <1>4, <1>5, SoundKept

LEMMA CountStep == Typed /\ CountInv /\ [Next]_vars => CountInv'
<1>. SUFFICES ASSUME Typed, CountInv, [Next]_vars PROVE CountInv'
  OBVIOUS
<1>1. ASSUME NEW r \in Runs, Own(r) PROVE CountInv'
  <2>1. \A q \in Runs : CountsTaught(q)'
    <3>1. \A q \in Runs \ {r} : runs'[q] = runs[q]
      BY <1>1, OwnRun DEF Typed, TypeOK
    <3>2. \A q \in Runs \ {r} : CountsTaught(q)'
      BY <3>1 DEF CountInv, CountsTaught, At
    <3>3. CountsTaught(r)'
      BY <1>1, OwnCounts DEF CountInv
    <3>4. QED BY <3>2, <3>3
  <2>2. \A day \in (Days \X Groups) \ exposed' : Sound(day)'
    BY <1>1, OwnSound
  <2>3. QED BY <2>1, <2>2 DEF CountInv
<1>2. ASSUME NEW e \in Editors, Load(e) \/ Save(e) PROVE CountInv'
  <2>1. UNCHANGED <<runs, marks, exposed>>
    BY <1>2, EditorData
  <2>2. Copies' \subseteq Copies \union {NoCounts}
    <3>1. CASE Load(e)
      BY <3>1 DEF Load, Copies, Typed, TypeOK
    <3>2. CASE Save(e)
      BY <3>2 DEF Save, Write, Copies, Typed, TypeOK
    <3>3. QED BY <1>2, <3>1, <3>2
  <2>3. ASSUME NEW day \in (Days \X Groups) \ exposed' PROVE Sound(day)'
    <3>1. Sound(day) /\ Times(NoCounts, day) = 0
      BY <2>1 DEF CountInv, Times, NoCounts
    <3>2. QED BY <2>1, <2>2, <3>1 DEF Sound, Busy, Underway, Counted, At
  <2>4. QED BY <2>1, <2>3 DEF CountInv, CountsTaught, At
<1>3. ASSUME NEW p, Crash(p) PROVE CountInv'
  <2>1. /\ UNCHANGED <<file, marks>> /\ exposed \subseteq exposed'
        /\ \A r \in Runs : runs'[r] # runs[r] => runs'[r].pc = "over" /\ runs'[r].copy = NoCounts
        /\ \A e \in Editors : edits'[e] # edits[e] => edits'[e].copy = NoCounts
    BY <1>3, CrashData
  <2>2. Copies' \subseteq Copies \union {NoCounts}
    BY <2>1 DEF Copies
  <2>3. \A r \in Runs : CountsTaught(r)'
    BY <2>1 DEF CountInv, CountsTaught, At
  <2>4. ASSUME NEW day \in (Days \X Groups) \ exposed' PROVE Sound(day)'
    <3>1. Sound(day) /\ Times(NoCounts, day) = 0
      BY <2>1 DEF CountInv, Times, NoCounts
    <3>2. \A r \in Runs : Busy(r, day)' => Busy(r, day)
      BY <2>1 DEF Busy, Underway, At
    <3>3. \A r \in Runs : Counted(r) /\ At(r) = day => (Counted(r) /\ At(r) = day)'
      BY <1>3 DEF Crash, Counted, At
    <3>4. QED BY <2>1, <2>2, <3>1, <3>2, <3>3, SoundKept
  <2>5. QED BY <2>3, <2>4 DEF CountInv
<1>4. CASE UNCHANGED vars
  BY <1>4 DEF vars, CountInv, Sound, CountsTaught, Copies, Busy, Underway, Counted, At
<1>5. QED BY <1>1, <1>2, <1>3, <1>4, NextCases

LEMMA CountInit == Init => CountInv
<1>. SUFFICES ASSUME Init PROVE CountInv
  OBVIOUS
<1>1. \A r \in Runs : ~Underway(r) /\ runs[r].pc = "idle"
  BY ConstantTypes DEF Init, Underway
<1>2. Copies \subseteq {NoCounts}
  BY ConstantTypes DEF Init, Copies
<1>3. \A day \in Days \X Groups : Times(NoCounts, day) = 0
  BY DEF Times, NoCounts
<1>4. QED BY <1>1, <1>2, <1>3 DEF CountInv, Sound, Busy, CountsTaught

\* lesson_counters.py:165-171: a day that is in a counter twice was counted while
\* another run was at it, or counted by a run that did not get to mark it; in
\* whatever order and however often runs and editors of any processes read and
\* write the file, nothing else counts a lesson twice.
THEOREM NotCountedTwice == Spec => []CountedTwiceOnlyIfExposed
<1>1. Typed /\ CountInv => CountedTwiceOnlyIfExposed
  <2>. SUFFICES ASSUME Typed, CountInv, NEW g \in Groups, NEW d \in Days,
                       <<d, g>> \notin exposed
                PROVE  ~(file[g][d] > 1)
    BY DEF CountedTwiceOnlyIfExposed
  <2>1. Times(file, <<d, g>>) <= 1
    BY DEF CountInv, Sound, Copies
  <2>2. file[g][d] \in Nat
    BY DEF Typed, TypeOK, Counts
  <2>3. QED BY <2>1, <2>2 DEF Times
<1>2. QED BY <1>1, CountInit, CountStep, TypeInit, TypeStep, PTL DEF Spec

-----------------------------------------------------------------------------
(* What is lost of the counters *)

(* Who is fresh has a copy of the file as it is. *)
FreshCopies ==
  /\ \A r \in Runs \intersect fresh : runs[r].pc = "writing" => runs[r].copy = file
  /\ \A e \in Editors \intersect fresh : edits[e].pc = "editing" => edits[e].copy = file

(* A run that keeps the file fresh adds its day to it and takes nothing away. *)
LEMMA OwnFile ==
  ASSUME Typed, FreshCopies, NEW r \in Runs, Own(r)
  PROVE  /\ raced => raced'
         /\ raced' \/ file' = file \/ file' = More(file, At(r))
         /\ \/ file' = file /\ fresh' \subseteq fresh \union {r}
            \/ fresh' = {}
         /\ runs'[r].pc = "writing" => runs'[r].copy = file'
<1>0. runs \in [Runs -> Run] /\ runs[r] \in Run
  BY DEF Typed, TypeOK
<1>1. ASSUME NEW pc, pc # "writing", Goes(r, pc) PROVE runs'[r].pc # "writing"
  BY <1>0, <1>1 DEF Goes, Run
<1>2. CASE \E d \in Days : Begin(r, d)
  BY <1>0, <1>2 DEF Begin, Run
<1>3. CASE Check(r)
  <2>1. PICK pc \in {"checking", "fetching"} : Moved(r, pc)
    BY <1>3 DEF Check
  <2>. DEFINE run == [runs[r] EXCEPT !.pc = pc, !.next = runs[r].next + 1,
                                    !.group = Sources[runs[r].next]]
  <2>2. run.pc = pc
    BY <1>0 DEF Run
  <2>3. runs'[r] = run
    BY <1>0, <2>1 DEF Moved
  <2>. HIDE DEF run
  <2>4. QED BY <1>3, <2>2, <2>3 DEF Check
<1>4. CASE CheckFails(r) \/ Fetch(r) \/ Mark(r) \/ Finish(r)
  <2>1. PICK pc \in {"checking", "reading", "marking", "over"} : Goes(r, pc)
    BY <1>4 DEF CheckFails, Fetch, Mark, Finish
  <2>2. runs'[r].pc # "writing"
    BY <1>1, <2>1
  <2>3. UNCHANGED <<file, fresh, raced>>
    BY <1>4 DEF CheckFails, Fetch, Mark, Finish
  <2>4. QED BY <2>2, <2>3
<1>5. CASE ReadFile(r)
  <2>1. UNCHANGED <<file, raced>> /\ fresh' \subseteq fresh \union {r}
    BY <1>5 DEF ReadFile
  <2>2. CASE Goes(r, "checking")
    BY <1>1, <2>1, <2>2
  <2>3. CASE runs' = [runs EXCEPT ![r] = [runs[r] EXCEPT !.pc = "writing", !.copy = file]]
    BY <1>0, <2>1, <2>3 DEF Run
  <2>4. QED BY <1>5, <2>2, <2>3 DEF ReadFile
<1>6. CASE WriteFile(r)
  <2>1. ASSUME NEW pc,
               runs' = [runs EXCEPT ![r] = [runs[r] EXCEPT !.pc = pc, !.copy = NoCounts]]
        PROVE  runs'[r].pc = pc
    BY <1>0, <2>1 DEF Run
  <2>2. runs'[r].pc # "writing" /\ runs[r].pc = "writing"
    BY <1>6, <2>1 DEF WriteFile
  <2>3. CASE Write(r, More(runs[r].copy, At(r)))
    <3>1. r \in fresh => runs[r].copy = file
      BY <2>2 DEF FreshCopies
    <3>2. raced' \/ file' = More(file, At(r))
      BY <2>3, <3>1 DEF Write
    <3>3. raced => raced'
      BY <2>3 DEF Write
    <3>4. \/ file' = file /\ fresh' \subseteq fresh \union {r}
          \/ fresh' = {}
      BY <2>3 DEF Write
    <3>5. QED BY <2>2, <3>2, <3>3, <3>4
  <2>4. CASE UNCHANGED <<file, fresh, raced>>
    BY <2>2, <2>4
  <2>5. QED BY <1>6, <2>3, <2>4 DEF WriteFile, More
<1>7. QED BY <1>2, <1>3, <1>4, <1>5, <1>6 DEF Own, Begin

LEMMA EditorFile ==
  ASSUME Typed, FreshCopies, NEW e \in Editors, Load(e) \/ Save(e)
  PROVE  /\ raced => raced'
         /\ raced' \/ file' = file
         /\ \/ file' = file /\ fresh' \subseteq fresh \union {e}
            \/ fresh' = {}
         /\ \A f \in Editors \ {e} : edits'[f] = edits[f]
         /\ edits'[e].pc = "editing" => edits'[e].copy = file'
<1>0. edits \in [Editors -> Edit]
  BY DEF Typed, TypeOK
<1>1. CASE Load(e)
  BY <1>0, <1>1 DEF Load
<1>2. CASE Save(e)
  <2>1. e \in fresh => edits[e].copy = file
    BY <1>2 DEF FreshCopies, Save
  <2>2. raced' \/ file' = file
    BY <1>2, <2>1 DEF Save, Write
  <2>3. raced => raced'
    BY <1>2 DEF Save, Write
  <2>4. \/ file' = file /\ fresh' \subseteq fresh \union {e}
        \/ fresh' = {}
    BY <1>2 DEF Save, Write
  <2>5. (\A f \in Editors \ {e} : edits'[f] = edits[f]) /\ edits'[e].pc = "over"
    BY <1>0, <1>2 DEF Save
  <2>6. QED BY <2>2, <2>3, <2>4, <2>5
<1>3. QED BY <1>1, <1>2

LEMMA FreshStep == Typed /\ FreshCopies /\ [Next]_vars => FreshCopies'
<1>. SUFFICES ASSUME Typed, FreshCopies, [Next]_vars PROVE FreshCopies'
  OBVIOUS
<1>1. ASSUME NEW r \in Runs, Own(r) PROVE FreshCopies'
  <2>1. edits' = edits /\ \A q \in Runs \ {r} : runs'[q] = runs[q]
    BY <1>1, OwnData, OwnRun DEF Typed, TypeOK
  <2>2. r \notin Editors
    BY CountersAssumption
  <2>3. QED BY <1>1, <2>1, <2>2, OwnFile DEF FreshCopies
<1>2. ASSUME NEW e \in Editors, Load(e) \/ Save(e) PROVE FreshCopies'
  <2>1. runs' = runs /\ e \notin Runs
    BY <1>2, EditorData, CountersAssumption
  <2>2. QED BY <1>2, <2>1, EditorFile DEF FreshCopies
<1>3. ASSUME NEW p, Crash(p) PROVE FreshCopies'
  BY <1>3, CrashData DEF FreshCopies
<1>4. CASE UNCHANGED vars
  BY <1>4 DEF vars, FreshCopies
<1>5. QED BY <1>1, <1>2, <1>3, <1>4, NextCases

LEMMA FreshInit == Init => FreshCopies
  BY DEF Init, FreshCopies

LEMMA FileGrows ==
  ASSUME Typed, FreshCopies, [Next]_vars
  PROVE  /\ raced => raced'
         /\ raced' \/ \A g \in Groups, d \in Days : file'[g][d] >= file[g][d]
<1>0. file \in Counts /\ \A g \in Groups, d \in Days : file[g][d] \in Nat
  BY DEF Typed, TypeOK, Counts
<1>1. ASSUME NEW r \in Runs, Own(r), file' = More(file, At(r)), NEW g \in Groups, NEW d \in Days
      PROVE  file'[g][d] >= file[g][d]
  <2>1. runs[r].day \in Days /\ runs[r].group \in Groups
    BY DEF Typed, TypeOK, Run
  <2>2. Times(file', <<d, g>>) = IF <<d, g>> = At(r) THEN Times(file, <<d, g>>) + 1
                                                     ELSE Times(file, <<d, g>>)
    BY <1>0, <1>1, <2>1, MoreIs DEF At
  <2>3. QED BY <1>0, <2>2 DEF Times
<1>2. ASSUME file' = file PROVE \A g \in Groups, d \in Days : file'[g][d] >= file[g][d]
  BY <1>0, <1>2
<1>3. ASSUME NEW r \in Runs, Own(r)
      PROVE  /\ raced => raced'
             /\ raced' \/ \A g \in Groups, d \in Days : file'[g][d] >= file[g][d]
  BY <1>1, <1>2, <1>3, OwnFile
<1>4. ASSUME NEW e \in Editors, Load(e) \/ Save(e)
      PROVE  /\ raced => raced'
             /\ raced' \/ \A g \in Groups, d \in Days : file'[g][d] >= file[g][d]
  BY <1>2, <1>4, EditorFile
<1>5. ASSUME \/ UNCHANGED vars
             \/ \E p \in {Process[x] : x \in Runs \union Editors} : Crash(p)
      PROVE  UNCHANGED <<file, raced>>
  BY <1>5, CrashData DEF vars
<1>6. QED BY <1>2, <1>3, <1>4, <1>5, NextCases

\* lesson_counters.py:745, web_configurator/app.py:532: as long as everybody who
\* replaces the file has read it as it is, no step of any process takes a day out
\* of the counters.
THEOREM CountsKept == Spec => CountsStay
<1>1. Typed /\ FreshCopies /\ [Next]_vars
        => [\/ raced'
            \/ \A g \in Groups, d \in Days : file'[g][d] >= file[g][d]]_vars
  BY FileGrows
<1>2. QED BY <1>1, TypeInit, TypeStep, FreshInit, FreshStep, PTL DEF Spec, CountsStay

(* A day that is to be marked is in the file. *)
MarksInv ==
  raced \/ /\ \A day \in marks \intersect Taught : Times(file, day) > 0
           /\ \A r \in Runs : Counted(r) => Times(file, At(r)) > 0

LEMMA MarksStep ==
  Typed /\ FreshCopies /\ CountInv /\ MarksInv /\ [Next]_vars => MarksInv'
<1>. SUFFICES ASSUME Typed, FreshCopies, CountInv, MarksInv, [Next]_vars, ~raced'
              PROVE  /\ \A day \in marks' \intersect Taught : Times(file', day) > 0
                     /\ \A r \in Runs : Counted(r)' => Times(file', At(r)') > 0
  BY DEF MarksInv
<1>1. /\ \A day \in marks \intersect Taught : Times(file, day) > 0
      /\ \A r \in Runs : Counted(r) => Times(file, At(r)) > 0
      /\ \A g \in Groups, d \in Days : file'[g][d] >= file[g][d]
  BY FileGrows DEF MarksInv
<1>2. ASSUME NEW day \in Days \X Groups, Times(file, day) > 0 PROVE Times(file', day) > 0
  <2>1. PICK d \in Days, g \in Groups : day = <<d, g>>
    OBVIOUS
  <2>2. file[g][d] \in Nat /\ file'[g][d] \in Nat
    BY TypeStep DEF Typed, TypeOK, Counts
  <2>3. QED BY <1>1, <1>2, <2>1, <2>2 DEF Times
<1>3. /\ marks \subseteq Days \X Groups /\ Taught \subseteq Days \X Groups
      /\ \A r \in Runs : At(r) \in Days \X Groups /\ runs[r].copy \in Counts
  BY CountersAssumption DEF Typed, TypeOK, Run, At
<1>4. ASSUME NEW r \in Runs, Own(r)
      PROVE  /\ \A day \in marks' \intersect Taught : day \in marks \/ Times(file, day) > 0
             /\ \A q \in Runs : Counted(q)' => \/ Counted(q) /\ At(q)' = At(q)
                                               \/ Times(file', At(q)') > 0
  <2>1. CountsTaught(r)
    BY DEF CountInv
  <2>2. ASSUME NEW day \in marks' \intersect Taught, day \notin marks PROVE Times(file, day) > 0
    <3>1. day = At(r) /\ Counted(r)
      BY <1>4, <2>1, <2>2, OwnCounts DEF Counted
    <3>2. QED BY <1>1, <3>1
  <2>3. ASSUME Counted(r)' PROVE Times(file', At(r)') > 0
    <3>1. Adds(r)
      BY <1>4, <2>1, <2>3, OwnCounts
    <3>2. Times(file', At(r)) = Times(runs[r].copy, At(r)) + 1
      BY <1>3, <3>1, MoreIs DEF Adds, At
    <3>3. Times(runs[r].copy, At(r)) \in Nat
      BY <1>3 DEF Times, Counts
    <3>4. QED BY <3>1, <3>2, <3>3 DEF Adds
  <2>4. ASSUME NEW q \in Runs \ {r} PROVE Counted(q)' = Counted(q) /\ At(q)' = At(q)
    <3>1. runs'[q] = runs[q]
      BY <1>4, OwnRun DEF Typed, TypeOK
    <3>2. QED BY <3>1 DEF Counted, At
  <2>5. QED BY <2>2, <2>3, <2>4
<1>5. ASSUME \/ UNCHANGED vars
             \/ \E e \in Editors : Load(e) \/ Save(e)
             \/ \E p \in {Process[x] : x \in Runs \union Editors} : Crash(p)
      PROVE  marks' = marks /\ \A q \in Runs : Counted(q)' => Counted(q) /\ At(q)' = At(q)
  <2>1. CASE UNCHANGED vars
    BY <2>1 DEF vars, Counted, At
  <2>2. CASE \E e \in Editors : Load(e) \/ Save(e)
    BY <2>2, EditorData DEF Counted, At
  <2>3. ASSUME NEW p, Crash(p) PROVE <1>5!2
    BY <2>3, CrashData DEF Counted, At
  <2>4. QED BY <1>5, <2>1, <2>2, <2>3
<1>6. /\ \A day \in marks' \intersect Taught : day \in marks \/ Times(file, day) > 0
      /\ \A q \in Runs : Counted(q)' => \/ Counted(q) /\ At(q)' = At(q)
                                        \/ Times(file', At(q)') > 0
  BY <1>4, <1>5, NextCases
<1>7. QED BY <1>1, <1>2, <1>3, <1>6

\* LessonDayUnavailableError and the check of what apply_lesson_increments returns:
\* whatever crashes, fails or runs at the same time, a day that is marked has its
\* lessons in the file, as long as nobody wrote back a file he had read before a
\* change.
THEOREM MarkedDaysAreCounted == Spec => []MarkedIsCounted
<1>1. Init => MarksInv
  BY DEF Init, MarksInv, Counted, IdleRun
<1>2. MarksInv => MarkedIsCounted
  BY DEF MarksInv, MarkedIsCounted, Times
<1>3. QED BY <1>1, <1>2, CountInit, CountStep, FreshInit, FreshStep, MarksStep,
             TypeInit, TypeStep, PTL DEF Spec
=============================================================================
