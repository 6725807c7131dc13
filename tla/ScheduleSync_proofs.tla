------------------------ MODULE ScheduleSync_proofs ------------------------
(***************************************************************************)
(* Theorems about ScheduleSync for any dates, lessons, sources, audiences  *)
(* and numbers of concurrent calls.                                        *)
(***************************************************************************)
EXTENDS ScheduleSync, TLAPS

-----------------------------------------------------------------------------
(* Types *)

(* A behaviour is about one of the sources and stays with it; an announcement
   carries the day of its event. *)
Typed ==
  /\ source \in Sources
  /\ TypeOK
  /\ \A c \in Callers : calls[c].pc = "announcing" => calls[c].day \in Dates

LEMMA SourceStays ==
  ASSUME [Next]_vars
  PROVE  /\ source' = source
         /\ University' = University /\ Subgroups' = Subgroups
         /\ Offered' = Offered /\ Callers' = Callers
         /\ Schedules' = Schedules /\ EmptySchedule' = EmptySchedule
         /\ Call' = Call /\ NoNews' = NoNews /\ IdleCall' = IdleCall
<1>1. source' = source
  BY DEF Next, vars
<1>2. University' = University /\ Subgroups' = Subgroups /\ Offered' = Offered /\ Callers' = Callers
  BY <1>1 DEF University, Subgroups, Offered, Callers
<1>3. Schedules' = Schedules /\ EmptySchedule' = EmptySchedule /\ NoNews' = NoNews
  BY <1>2 DEF Schedules, Days, EmptySchedule, NoNews
<1>4. Call' = Call /\ IdleCall' = IdleCall
  BY <1>2, <1>3 DEF Call, IdleCall
<1>5. QED BY <1>1, <1>2, <1>3, <1>4

LEMMA SourceFacts ==
  ASSUME Typed
  PROVE  /\ LastDate \in Nat \ {0} /\ Ahead \in Nat \ {0}
         /\ University \in BOOLEAN
         /\ Offered \subseteq Schedules /\ NoSchedule \notin Schedules
         /\ EmptySchedule \in Schedules
         /\ IdleCall \in Call /\ NoNews \in [Subgroups -> SUBSET Dates]
<1>1. /\ LastDate \in Nat \ {0} /\ Ahead \in Nat \ {0} /\ University \in BOOLEAN
  BY SyncAssumption DEF Typed, University
<1>2. Offered \subseteq Schedules /\ NoSchedule \notin Schedules
  BY SyncAssumption DEF Typed, Offered, Schedules, Days, Dates, Subgroups
<1>3. EmptySchedule \in Schedules /\ NoNews \in [Subgroups -> SUBSET Dates]
  BY DEF EmptySchedule, NoNews, Schedules, Days
<1>4. IdleCall \in Call
  BY <1>3 DEF IdleCall, Call, Kinds
<1>5. QED BY <1>1, <1>2, <1>3, <1>4

(* ScheduleComparator.compare yields dates of the window. *)
LEMMA NewsType ==
  ASSUME NEW base, NEW new
  PROVE  News(base, new) \in [Subgroups -> SUBSET Dates]
  BY DEF News, NewsFor, Window

(* The step of the coroutine c: nothing else changes its call, but a failure. *)
Own(c) ==
  \/ \E kind \in Kinds, s \in Offered \union {EmptySchedule} : Start(c, kind, s)
  \/ Receive(c) \/ ReadBaseline(c) \/ SaveCurrent(c) \/ Record(c) \/ SaveBaseline(c)
  \/ \E g \in Subgroups : Announce(c, g)

(* A call starts where its kind says, knowing no baseline yet. *)
LEMMA StartCall ==
  ASSUME Typed, NEW c \in Callers, NEW kind \in Kinds,
         NEW s \in Offered \union {EmptySchedule}, Start(c, kind, s)
  PROVE  /\ calls' = [calls EXCEPT ![c] = calls'[c]]
         /\ calls'[c] \in Call
         /\ calls'[c].kind = kind /\ calls'[c].snapshot = s /\ calls'[c].base = calls[c].base
         /\ \/ calls'[c].pc = "received" /\ kind \in {"sync", "teacher", "refresh"}
            \/ calls'[c].pc = "accepted" /\ kind \in {"manual", "silent"}
            \/ calls'[c].pc = "adopting" /\ kind = "baseline"
<1>. DEFINE pc == CASE kind \in {"sync", "teacher", "refresh"} -> "received"
                    [] kind \in {"manual", "silent"} -> "accepted"
                    [] kind = "baseline" -> "adopting"
<1>1. \/ pc = "received" /\ kind \in {"sync", "teacher", "refresh"}
      \/ pc = "accepted" /\ kind \in {"manual", "silent"}
      \/ pc = "adopting" /\ kind = "baseline"
  BY DEF Kinds
<1>2. s \in Schedules /\ calls \in [Callers -> Call] /\ calls[c] \in Call
  BY SourceFacts DEF Typed, TypeOK
<1>3. calls' = [calls EXCEPT ![c] = [calls[c] EXCEPT !.kind = kind, !.snapshot = s, !.pc = pc]]
  BY <1>2 DEF Start
<1>. HIDE DEF pc
<1>4. QED BY <1>1, <1>2, <1>3 DEF Call

LEMMA OwnType ==
  ASSUME Typed, NEW c \in Callers, Own(c)
  PROVE  /\ calls' = [calls EXCEPT ![c] = calls'[c]]
         /\ calls'[c] \in Call
         /\ calls'[c].pc \in {"recording", "announcing", "settling", "repeated"}
              => calls'[c].base \in Schedules
         /\ calls'[c].pc = "announcing" => calls'[c].day \in Dates
<1>0. /\ calls \in [Callers -> Call] /\ calls[c] \in Call
      /\ calls[c].pc \in {"recording", "announcing", "settling", "repeated"}
           => calls[c].base \in Schedules
      /\ calls[c].pc = "announcing" => calls[c].day \in Dates
      /\ day \in Dates /\ day \in Nat /\ baseline \in Schedules \union {NoSchedule}
  BY DEF Typed, TypeOK, Dates
<1>1. ASSUME NEW kind \in Kinds, NEW s \in Offered \union {EmptySchedule}, Start(c, kind, s)
      PROVE  /\ calls' = [calls EXCEPT ![c] = calls'[c]] /\ calls'[c] \in Call
             /\ calls'[c].pc \in {"received", "accepted", "adopting"}
  BY <1>1, StartCall
<1>2. CASE Receive(c)
  BY <1>0, <1>2, SourceFacts DEF Receive, Moves, Ends, Call, IdleCall
<1>3. CASE ReadBaseline(c)
  BY <1>0, <1>3 DEF ReadBaseline, Call
<1>4. CASE SaveCurrent(c)
  BY <1>0, <1>4, NewsType, SourceFacts DEF SaveCurrent, AfterComparison, Call, IdleCall
<1>5. CASE Record(c)
  <2>1. CASE calls' = [calls EXCEPT ![c] = [calls[c] EXCEPT !.pc = "announcing", !.day = day,
                                                            !.pending = Subgroups]]
    BY <1>0, <1>5, <2>1 DEF Record, Call
  <2>2. CASE calls' = [calls EXCEPT ![c] = [calls[c] EXCEPT !.pc = "repeated"]]
    BY <1>0, <1>5, <2>2 DEF Record, Call
  <2>3. QED BY <1>5, <2>1, <2>2 DEF Record, Moves
<1>6. CASE SaveBaseline(c)
  BY <1>0, <1>6, SourceFacts DEF SaveBaseline, Ends, IdleCall
<1>7. ASSUME NEW g \in Subgroups, Announce(c, g)
      PROVE  /\ calls' = [calls EXCEPT ![c] = calls'[c]] /\ calls'[c] \in Call
             /\ calls'[c].base = calls[c].base /\ calls'[c].day = calls[c].day
  BY <1>0, <1>7 DEF Announce, Call
<1>8. QED BY <1>0, <1>1, <1>2, <1>3, <1>4, <1>5, <1>6, <1>7 DEF Own, Announce

LEMMA OwnData ==
  ASSUME Typed, NEW c \in Callers, Own(c)
  PROVE  /\ day' = day /\ site' = site
         /\ {current', baseline'} \subseteq Schedules \union {NoSchedule}
         /\ {recent', twice', alarmed', excused'} \subseteq BOOLEAN
         /\ events' \subseteq Schedules \X Dates
         /\ told' \in [Subgroups -> [Dates -> SUBSET (Lessons \union {Free})]]
         /\ queued' \subseteq Subgroups \X (Schedules \X Dates)
         /\ {changes', faults'} \subseteq Nat
<1>0. /\ calls[c] \in Call /\ day \in Dates /\ site \in Schedules
      /\ {current, baseline} \subseteq Schedules \union {NoSchedule}
      /\ {recent, twice, alarmed, excused} \subseteq BOOLEAN
      /\ events \subseteq Schedules \X Dates
      /\ told \in [Subgroups -> [Dates -> SUBSET (Lessons \union {Free})]]
      /\ queued \subseteq Subgroups \X (Schedules \X Dates)
      /\ {changes, faults} \subseteq Nat
  BY DEF Typed, TypeOK
<1>a. calls[c].snapshot \in Schedules
  BY <1>0 DEF Call
<1>1. ASSUME NEW kind \in Kinds, NEW s \in Offered \union {EmptySchedule}, Start(c, kind, s)
      PROVE  /\ {changes', faults'} \subseteq Nat
             /\ UNCHANGED <<day, site, current, recent, baseline, events, told, queued, twice,
                            alarmed, excused>>
  BY <1>0, <1>1 DEF Start, Given, Fault
<1>2. CASE Receive(c)
  BY <1>0, <1>2 DEF Receive
<1>3. CASE ReadBaseline(c)
  BY <1>0, <1>3 DEF ReadBaseline
<1>4. CASE SaveCurrent(c)
  BY <1>0, <1>a, <1>4 DEF SaveCurrent
<1>5. CASE Record(c)
  <2>1. events' \subseteq Schedules \X Dates
    BY <1>0, <1>a, <1>5 DEF Record
  <2>2. excused' \in BOOLEAN
    BY <1>0, <1>5 DEF Record
  <2>3. QED BY <1>0, <1>5, <2>1, <2>2 DEF Record
<1>6. CASE SaveBaseline(c)
  <2>1. ASSUME NEW g \in Subgroups, NEW d \in Dates
        PROVE  calls[c].snapshot[d][g] \in Lessons \union {Free}
    BY <1>a DEF Schedules, Days
  <2>2. told' \in [Subgroups -> [Dates -> SUBSET (Lessons \union {Free})]]
    BY <1>0, <1>6, <2>1 DEF SaveBaseline
  <2>3. {baseline'} \subseteq Schedules \union {NoSchedule} /\ alarmed' \in BOOLEAN
    BY <1>0, <1>a, <1>6 DEF SaveBaseline
  <2>4. QED BY <1>0, <1>6, <2>2, <2>3 DEF SaveBaseline
<1>7. ASSUME NEW g \in Subgroups, Announce(c, g)
      PROVE  /\ told' \in [Subgroups -> [Dates -> SUBSET (Lessons \union {Free})]]
             /\ queued' \subseteq Subgroups \X (Schedules \X Dates)
             /\ twice' \in BOOLEAN
             /\ UNCHANGED <<day, site, current, recent, baseline, events, alarmed, excused,
                            changes, faults>>
  <2>1. ASSUME NEW d \in Dates PROVE calls[c].snapshot[d][g] \in Lessons \union {Free}
    BY <1>a DEF Schedules, Days
  <2>2. told' \in [Subgroups -> [Dates -> SUBSET (Lessons \union {Free})]]
    BY <1>0, <1>7, <2>1 DEF Announce
  <2>3. calls[c].day \in Dates
    BY <1>7 DEF Announce, Typed
  <2>4. queued' \subseteq Subgroups \X (Schedules \X Dates)
    BY <1>0, <1>a, <1>7, <2>3 DEF Announce
  <2>5. twice' \in BOOLEAN
    BY <1>7 DEF Announce
  <2>6. QED BY <1>7, <2>2, <2>4, <2>5 DEF Announce
<1>8. QED BY <1>0, <1>1, <1>2, <1>3, <1>4, <1>5, <1>6, <1>7 DEF Own

LEMMA NextCases ==
  ASSUME [Next]_vars
  PROVE  \/ \E s \in Offered : Publish(s)
         \/ Midnight \/ Age
         \/ \E c \in Callers : Own(c)
         \/ \E failed \in SUBSET Callers : Abandon(failed)
         \/ UNCHANGED vars
<1>1. ASSUME NEW c \in Callers, Fail(c) PROVE Abandon({c})
  BY <1>1 DEF Fail
<1>2. CASE Crash
  BY <1>2 DEF Crash
<1>3. QED BY <1>1, <1>2 DEF Next, Own

LEMMA TypeInit == Init => Typed
<1>. SUFFICES ASSUME Init PROVE Typed
  OBVIOUS
<1>1. source \in Sources /\ Offered \subseteq Schedules /\ 1 \in Dates
  BY SyncAssumption DEF Init, Offered, Schedules, Days, Dates, Subgroups
<1>2. EmptySchedule \in Schedules
  BY DEF EmptySchedule, Schedules, Days
<1>3. IdleCall \in Call
  BY <1>2 DEF IdleCall, Call, Kinds, NoNews
<1>4. source \in Sources /\ calls \in [Callers -> Call] /\ \A c \in Callers : calls[c].pc = "idle"
  BY <1>3 DEF Init, IdleCall
<1>5. {recent, twice, alarmed, excused} \subseteq BOOLEAN
  BY DEF Init
<1>6. told \in [Subgroups -> [Dates -> SUBSET (Lessons \union {Free})]]
  BY DEF Init
<1>7. {current, baseline} \subseteq Schedules \union {NoSchedule} /\ site \in Schedules
  BY <1>1 DEF Init
<1>8. {changes, faults} \subseteq Nat /\ day \in Dates /\ events = {} /\ queued = {}
  BY <1>1 DEF Init
<1>9. QED BY <1>1, <1>4, <1>5, <1>6, <1>7, <1>8 DEF Typed, TypeOK

LEMMA TypeStep == Typed /\ [Next]_vars => Typed'
<1>. SUFFICES ASSUME Typed, [Next]_vars PROVE Typed'
  OBVIOUS
<1>. DEFINE BasesKnown(f) ==
       \A c \in Callers :
         /\ f[c].pc \in {"recording", "announcing", "settling", "repeated"} => f[c].base \in Schedules
         /\ f[c].pc = "announcing" => f[c].day \in Dates
<1>0. /\ day \in Dates /\ site \in Schedules
      /\ {current, baseline} \subseteq Schedules \union {NoSchedule}
      /\ {recent, twice, alarmed, excused} \subseteq BOOLEAN
      /\ events \subseteq Schedules \X Dates
      /\ calls \in [Callers -> Call] /\ BasesKnown(calls)
      /\ told \in [Subgroups -> [Dates -> SUBSET (Lessons \union {Free})]]
      /\ queued \subseteq Subgroups \X (Schedules \X Dates)
      /\ {changes, faults} \subseteq Nat
  BY DEF Typed, TypeOK
<1>1. SUFFICES
        /\ day' \in Dates /\ site' \in Schedules
        /\ {current', baseline'} \subseteq Schedules \union {NoSchedule}
        /\ {recent', twice', alarmed', excused'} \subseteq BOOLEAN
        /\ events' \subseteq Schedules \X Dates
        /\ calls' \in [Callers -> Call] /\ BasesKnown(calls')
        /\ told' \in [Subgroups -> [Dates -> SUBSET (Lessons \union {Free})]]
        /\ queued' \subseteq Subgroups \X (Schedules \X Dates)
        /\ {changes', faults'} \subseteq Nat
  BY SourceStays DEF Typed, TypeOK
<1>2. ASSUME NEW s \in Offered, Publish(s) PROVE <1>1!1
  BY <1>0, <1>2, SourceFacts DEF Publish
<1>3. CASE Midnight
  BY <1>0, <1>3, SourceFacts DEF Midnight, Dates
<1>4. CASE Age
  BY <1>0, <1>4 DEF Age
<1>5. ASSUME NEW c \in Callers, Own(c) PROVE <1>1!1
  <2>1. calls' \in [Callers -> Call] /\ BasesKnown(calls')
    BY <1>0, <1>5, OwnType
  <2>2. QED BY <1>0, <1>5, <2>1, OwnData
<1>6. ASSUME NEW failed \in SUBSET Callers, Abandon(failed) PROVE <1>1!1
  <2>1. calls' \in [Callers -> Call] /\ BasesKnown(calls')
    <3>1. \A c \in Callers : calls'[c] \in {calls[c], IdleCall}
      BY <1>6 DEF Abandon
    <3>2. IdleCall \in Call /\ IdleCall.pc = "idle"
      BY SourceFacts DEF IdleCall
    <3>3. QED BY <1>0, <1>6, <3>1, <3>2 DEF Abandon
  <2>2. excused' \in BOOLEAN
    BY <1>0, <1>6 DEF Abandon
  <2>3. QED BY <1>0, <1>6, <2>1, <2>2 DEF Abandon, Fault
<1>7. CASE UNCHANGED vars
  BY <1>0, <1>7 DEF vars
<1>8. QED BY <1>2, <1>3, <1>4, <1>5, <1>6, <1>7, NextCases

\* The variables keep their types, whatever the calendar, the sources and the
\* calls, and a call that announces has compared its snapshot with a baseline
\* (scheduler.py:679).
THEOREM TypeCorrect == Spec => []TypeOK
<1>1. Typed => TypeOK
  BY DEF Typed
<1>2. QED BY <1>1, TypeInit, TypeStep, PTL DEF Spec

-----------------------------------------------------------------------------
(* What a step does to one call *)

LEMMA OthersStay ==
  ASSUME Typed, NEW c \in Callers, Own(c), NEW b \in Callers, b # c
  PROVE  calls'[b] = calls[b]
BY OwnType DEF Typed, TypeOK

(* Besides its own steps a call can only be given up. *)
LEMMA CallSteps ==
  ASSUME Typed, [Next]_vars, NEW c \in Callers
  PROVE  \/ calls'[c] = calls[c]
         \/ Own(c)
         \/ calls'[c] = IdleCall /\ \E failed \in SUBSET Callers : Abandon(failed)
<1>1. CASE \/ \E s \in Offered : Publish(s)
           \/ Midnight \/ Age \/ UNCHANGED vars
  BY <1>1 DEF Publish, Midnight, Age, vars
<1>2. CASE \E b \in Callers : Own(b)
  BY <1>2, OthersStay
<1>3. ASSUME NEW failed \in SUBSET Callers, Abandon(failed)
      PROVE  calls'[c] \in {calls[c], IdleCall}
  BY <1>3 DEF Abandon
<1>4. QED BY <1>1, <1>2, <1>3, NextCases

(* What Announce leaves of a call. *)
LEMMA AnnounceCall ==
  ASSUME Typed, NEW c \in Callers, NEW g \in Subgroups, Announce(c, g)
  PROVE  /\ calls'[c].kind = calls[c].kind
         /\ calls'[c].snapshot = calls[c].snapshot
         /\ calls'[c].base = calls[c].base
         /\ calls'[c].news = calls[c].news
         /\ calls'[c].day = calls[c].day
         /\ calls'[c].pending = calls[c].pending \ {g}
         /\ calls'[c].pc = IF calls[c].pending \ {g} = {} THEN "settling" ELSE "announcing"
<1>1. calls \in [Callers -> Call] /\ calls[c] \in Call
  BY DEF Typed, TypeOK
<1>2. QED BY <1>1 DEF Announce, Call

LEMMA RecordCall ==
  ASSUME Typed, NEW c \in Callers, Record(c)
  PROVE  /\ calls'[c].kind = calls[c].kind
         /\ calls'[c].snapshot = calls[c].snapshot
         /\ calls'[c].base = calls[c].base
         /\ calls'[c].news = calls[c].news
         /\ \/ /\ <<calls[c].snapshot, day>> \notin events
               /\ events' = events \union {<<calls[c].snapshot, day>>}
               /\ calls'[c].pc = "announcing"
               /\ calls'[c].day = day
               /\ calls'[c].pending = Subgroups
            \/ calls'[c].pc = "repeated" /\ excused' = TRUE /\ events' = events
<1>1. calls \in [Callers -> Call] /\ calls[c] \in Call
  BY DEF Typed, TypeOK
<1>2. CASE /\ <<calls[c].snapshot, day>> \notin events
           /\ events' = events \union {<<calls[c].snapshot, day>>}
           /\ calls' = [calls EXCEPT ![c] = [calls[c] EXCEPT !.pc = "announcing", !.day = day,
                                                             !.pending = Subgroups]]
  BY <1>1, <1>2 DEF Call
<1>3. CASE /\ calls' = [calls EXCEPT ![c] = [calls[c] EXCEPT !.pc = "repeated"]]
           /\ excused' = TRUE /\ events' = events
  BY <1>1, <1>3 DEF Call
<1>4. QED BY <1>2, <1>3 DEF Record, Moves

(* Where the other steps of a call lead. *)
LEMMA EarlySteps ==
  ASSUME Typed, NEW c \in Callers, Own(c), ~Record(c), \A g \in Subgroups : ~Announce(c, g)
  PROVE  /\ calls'[c].pc \notin {"announcing", "settling", "repeated"}
         /\ UNCHANGED <<events, queued, twice>>
<1>0. calls \in [Callers -> Call] /\ calls[c] \in Call
  BY DEF Typed, TypeOK
<1>1. ASSUME NEW kind \in Kinds, NEW s \in Offered \union {EmptySchedule}, Start(c, kind, s)
      PROVE  /\ calls'[c].pc \in {"received", "accepted", "adopting"}
             /\ UNCHANGED <<events, queued, twice>>
  BY <1>1, StartCall DEF Start
<1>2. CASE Receive(c)
  BY <1>0, <1>2 DEF Receive, Moves, Ends, Call, IdleCall
<1>3. CASE ReadBaseline(c)
  BY <1>0, <1>3 DEF ReadBaseline, Call
<1>4. CASE SaveCurrent(c)
  BY <1>0, <1>4 DEF SaveCurrent, AfterComparison, Call, IdleCall
<1>5. CASE SaveBaseline(c)
  BY <1>0, <1>5 DEF SaveBaseline, Ends, IdleCall
<1>6. QED BY <1>1, <1>2, <1>3, <1>4, <1>5 DEF Own

-----------------------------------------------------------------------------
(* Once a day *)

Announcing(c) == calls[c].pc = "announcing"
Event(c) == <<calls[c].snapshot, calls[c].day>>

(* The unique index of change_events gives an event to one call, which has yet
   to queue what is pending. *)
EventOwned(c) ==
  Announcing(c) => /\ Event(c) \in events
                   /\ \A g \in calls[c].pending : <<g, Event(c)>> \notin queued

EventsOwned ==
  /\ \A c \in Callers : EventOwned(c)
  /\ \A b, c \in Callers : Announcing(b) /\ Announcing(c) /\ Event(b) = Event(c) => b = c
  /\ \A n \in queued : n[2] \in events

(* A call announces an event that it recorded first. *)
LEMMA AnnouncingSteps ==
  ASSUME Typed, [Next]_vars, NEW c \in Callers, Announcing(c)'
  PROVE  \/ Announcing(c) /\ Event(c)' = Event(c) /\ calls'[c].pending \subseteq calls[c].pending
         \/ Record(c) /\ Event(c)' \notin events /\ Event(c)' \in events'
                      /\ events' = events \union {Event(c)'} 
<1>1. CASE calls'[c] = calls[c]
  BY <1>1 DEF Announcing, Event
<1>2. CASE Record(c)
  BY <1>2, RecordCall DEF Announcing, Event
<1>3. CASE \E g \in Subgroups : Announce(c, g)
  <2>1. PICK g \in Subgroups : Announce(c, g)
    BY <1>3
  <2>2. Announcing(c)
    BY <2>1 DEF Announce, Announcing
  <2>3. Event(c)' = Event(c) /\ calls'[c].pending \subseteq calls[c].pending
    BY <2>1, AnnounceCall DEF Event
  <2>4. QED BY <2>2, <2>3
<1>4. CASE calls'[c] = IdleCall
  BY <1>4 DEF Announcing, IdleCall
<1>5. QED BY <1>1, <1>2, <1>3, <1>4, CallSteps, EarlySteps DEF Announcing

LEMMA EventsGrow ==
  ASSUME Typed, [Next]_vars
  PROVE  /\ events \subseteq events'
         /\ \/ UNCHANGED <<queued, twice>>
            \/ \E c \in Callers, g \in Subgroups : Announce(c, g)
<1>1. ASSUME NEW c \in Callers, Own(c)
      PROVE  /\ events \subseteq events'
             /\ \/ UNCHANGED <<queued, twice>>
                \/ \E g \in Subgroups : Announce(c, g)
  <2>1. CASE Record(c)
    BY <2>1, RecordCall DEF Record
  <2>2. CASE \E g \in Subgroups : Announce(c, g)
    BY <2>2 DEF Announce
  <2>3. QED BY <1>1, <2>1, <2>2, EarlySteps
<1>2. CASE \/ \E s \in Offered : Publish(s)
           \/ Midnight \/ Age \/ UNCHANGED vars
           \/ \E failed \in SUBSET Callers : Abandon(failed)
  BY <1>2 DEF Publish, Midnight, Age, vars, Abandon
<1>3. QED BY <1>1, <1>2, NextCases

LEMMA EventsOwnedStep ==
  Typed /\ EventsOwned /\ OncePerDay /\ [Next]_vars => EventsOwned' /\ OncePerDay'
<1>. SUFFICES ASSUME Typed, EventsOwned, OncePerDay, [Next]_vars
              PROVE  EventsOwned' /\ OncePerDay'
  OBVIOUS
<1>1. Callers' = Callers /\ calls \in [Callers -> Call]
  BY SourceStays DEF Typed, TypeOK
<1>2. ASSUME NEW c \in Callers, NEW g \in Subgroups, Announce(c, g)
      PROVE  /\ g \in calls[c].pending /\ Announcing(c) /\ Event(c) \in events
             /\ queued' \subseteq queued \union {<<g, Event(c)>>}
             /\ <<g, Event(c)>> \notin queued
             /\ OncePerDay'
             /\ calls'[c].pending = calls[c].pending \ {g}
  <2>1. g \in calls[c].pending /\ Announcing(c)
    BY <1>2 DEF Announce, Announcing
  <2>2. <<g, Event(c)>> \notin queued /\ Event(c) \in events
    BY <2>1 DEF EventsOwned, EventOwned
  <2>3. queued' \subseteq queued \union {<<g, Event(c)>>}
    BY <1>2 DEF Announce, Event
  <2>4. OncePerDay'
    BY <1>2, <2>2 DEF Announce, Event, OncePerDay
  <2>5. QED BY <1>2, <2>1, <2>2, <2>3, <2>4, AnnounceCall
<1>3. OncePerDay'
  BY <1>2, EventsGrow DEF OncePerDay
<1>4. \A n \in queued' : n[2] \in events'
  <2>1. CASE UNCHANGED queued
    BY <2>1, EventsGrow DEF EventsOwned
  <2>2. ASSUME NEW c \in Callers, NEW g \in Subgroups, Announce(c, g), NEW n \in queued'
        PROVE  n[2] \in events
    <3>1. n \in queued \/ n = <<g, Event(c)>>
      BY <1>2, <2>2
    <3>2. Event(c) \in events
      BY <1>2, <2>2
    <3>3. QED BY <3>1, <3>2 DEF EventsOwned
  <2>3. QED BY <2>1, <2>2, EventsGrow
<1>5. ASSUME NEW c \in Callers, Announcing(c)'
      PROVE  /\ Event(c)' \in events'
             /\ \A g \in calls'[c].pending : <<g, Event(c)'>> \notin queued'
  <2>1. CASE /\ Announcing(c) /\ Event(c)' = Event(c)
             /\ calls'[c].pending \subseteq calls[c].pending
    <3>1. Event(c) \in events /\ \A g \in calls'[c].pending : <<g, Event(c)>> \notin queued
      BY <2>1 DEF EventsOwned, EventOwned
    <3>2. CASE UNCHANGED queued
      BY <2>1, <3>1, <3>2, EventsGrow
    <3>3. ASSUME NEW b \in Callers, NEW h \in Subgroups, Announce(b, h)
          PROVE  \A g \in calls'[c].pending : <<g, Event(c)>> \notin queued'
      <4>1. CASE b = c
        <5>1. /\ queued' \subseteq queued \union {<<h, Event(c)>>}
              /\ calls'[c].pending = calls[c].pending \ {h}
          BY <1>2, <3>3, <4>1
        <5>2. SUFFICES ASSUME NEW g \in calls'[c].pending
                       PROVE  <<g, Event(c)>> \notin queued'
          OBVIOUS
        <5>3. g # h /\ <<g, Event(c)>> \notin queued
          BY <3>1, <5>1
        <5>4. <<g, Event(c)>> # <<h, Event(c)>>
          BY <5>3
        <5>5. QED BY <5>1, <5>3, <5>4
      <4>2. CASE b # c
        <5>1. Event(b) # Event(c)
          BY <1>2, <2>1, <3>3, <4>2 DEF EventsOwned
        <5>2. queued' \subseteq queued \union {<<h, Event(b)>>}
          BY <1>2, <3>3
        <5>3. SUFFICES ASSUME NEW g \in calls'[c].pending
                       PROVE  <<g, Event(c)>> \notin queued'
          OBVIOUS
        <5>4. <<g, Event(c)>> # <<h, Event(b)>> /\ <<g, Event(c)>> \notin queued
          BY <3>1, <5>1
        <5>5. QED BY <5>2, <5>4
      <4>3. QED BY <4>1, <4>2
    <3>4. QED BY <2>1, <3>1, <3>2, <3>3, EventsGrow
  <2>2. CASE Record(c) /\ Event(c)' \notin events /\ Event(c)' \in events'
    <3>1. UNCHANGED queued
      BY <2>2 DEF Record
    <3>2. QED BY <2>2, <3>1 DEF EventsOwned
  <2>3. QED BY <1>5, <2>1, <2>2, AnnouncingSteps
<1>6. ASSUME NEW b \in Callers, NEW c \in Callers, Announcing(b)', Announcing(c)',
             Event(b)' = Event(c)', b # c
      PROVE  FALSE
  <2>1. ASSUME NEW x \in Callers, NEW y \in Callers, x # y, Record(x), Announcing(x)',
               Event(x)' = Event(y)', Announcing(y)'
        PROVE  FALSE
    <3>1. Event(x)' \notin events
      BY <2>1, AnnouncingSteps DEF Record, Announcing
    <3>2. Own(x)
      BY <2>1 DEF Own
    <3>3. calls'[y] = calls[y]
      BY <2>1, <3>2, OthersStay
    <3>4. Announcing(y) /\ Event(y)' = Event(y)
      BY <2>1, <3>3 DEF Announcing, Event
    <3>5. QED BY <2>1, <3>1, <3>4 DEF EventsOwned, EventOwned
  <2>2. ~Record(b) /\ ~Record(c)
    BY <1>6, <2>1
  <2>3. /\ Announcing(b) /\ Event(b)' = Event(b)
        /\ Announcing(c) /\ Event(c)' = Event(c)
    BY <1>6, <2>2, AnnouncingSteps
  <2>4. QED BY <1>6, <2>3 DEF EventsOwned
<1>7. EventsOwned'
  BY <1>1, <1>4, <1>5, <1>6 DEF EventsOwned, EventOwned, Announcing, Event
<1>8. QED BY <1>3, <1>7

\* idx_change_events_source_key_snapshot_hash_day: an audience gets the
\* notification of a change once a day, for any number of calls that apply
\* schedules at a time and any failures between their steps.
THEOREM AnnouncedOnce == Spec => []OncePerDay
<1>1. Init => EventsOwned /\ OncePerDay
  BY DEF Init, EventsOwned, EventOwned, Announcing, IdleCall, OncePerDay
<1>2. Typed /\ EventsOwned /\ OncePerDay /\ [Next]_vars => (EventsOwned /\ OncePerDay)'
  BY EventsOwnedStep
<1>3. QED BY <1>1, <1>2, TypeInit, TypeStep, PTL DEF Spec

-----------------------------------------------------------------------------
(* A site that stays as it is *)

(* Nothing but what the site shows, and pages without lessons, has been given to
   the college's group, and none of these pages was taken for the baseline. *)
Quiet == changes = 0 /\ ~alarmed /\ ~University

(* A call that has nothing to tell. *)
QuietCall(c) ==
  /\ calls[c].pc \notin {"recording", "announcing", "settling", "repeated"}
  /\ calls[c].snapshot \in {site, EmptySchedule}
  /\ calls[c].base \in {NoSchedule, site}

NothingToTell ==
  Quiet => /\ queued = {}
           /\ baseline \in {NoSchedule, site}
           /\ \A c \in Callers : QuietCall(c)

(* ScheduleComparator.compare finds nothing to tell the college of in the
   schedule it knows, nor in one without lessons. *)
LEMMA NoNewsOfTheSame ==
  ASSUME NEW base \in Schedules, NEW new \in {base, EmptySchedule}, ~University
  PROVE  News(base, new) = NoNews
<1>1. ASSUME NEW g \in Subgroups PROVE NewsFor(g, base, new) = {}
  <2>1. CASE new = base
    BY <2>1 DEF NewsFor
  <2>2. CASE new = EmptySchedule
    BY <2>2 DEF NewsFor, EmptySchedule, Window
  <2>3. QED BY <2>1, <2>2
<1>2. QED BY <1>1 DEF News, NoNews

LEMMA QuietBefore ==
  ASSUME Typed, [Next]_vars, Quiet'
  PROVE  Quiet /\ (changes' = changes)
<1>0. changes \in Nat /\ alarmed \in BOOLEAN /\ University' = University
  BY SourceStays DEF Typed, TypeOK
<1>1. ASSUME NEW c \in Callers, Own(c)
      PROVE  changes' \in {changes, changes + 1} /\ (alarmed => alarmed')
  <2>1. ASSUME NEW kind \in Kinds, NEW s \in Offered \union {EmptySchedule}, Start(c, kind, s)
        PROVE  changes' \in {changes, changes + 1} /\ alarmed' = alarmed
    BY <2>1 DEF Start, Given
  <2>2. CASE Receive(c) \/ ReadBaseline(c) \/ SaveCurrent(c) \/ Record(c)
    BY <2>2 DEF Receive, ReadBaseline, SaveCurrent, Record
  <2>3. CASE SaveBaseline(c)
    BY <2>3 DEF SaveBaseline
  <2>4. CASE \E g \in Subgroups : Announce(c, g)
    BY <2>4 DEF Announce
  <2>5. QED BY <1>1, <2>1, <2>2, <2>3, <2>4 DEF Own
<1>2. ASSUME \/ \E s \in Offered : Publish(s)
             \/ Midnight \/ Age \/ UNCHANGED vars
             \/ \E failed \in SUBSET Callers : Abandon(failed)
      PROVE  changes' \in {changes, changes + 1} /\ alarmed' = alarmed
  BY <1>2 DEF Publish, Midnight, Age, vars, Abandon
<1>3. changes' \in {changes, changes + 1} /\ (alarmed => alarmed')
  BY <1>1, <1>2, NextCases
<1>4. QED BY <1>0, <1>3 DEF Quiet

LEMMA QuietOwnStep ==
  ASSUME Typed, [Next]_vars, Quiet, Quiet', NothingToTell, NEW c \in Callers, Own(c)
  PROVE  queued' = {} /\ baseline' \in {NoSchedule, site} /\ QuietCall(c)'
<1>0. /\ calls \in [Callers -> Call] /\ calls[c] \in Call
      /\ site' = site /\ EmptySchedule' = EmptySchedule /\ changes' = changes
      /\ changes \in Nat
  BY OwnData, SourceStays, QuietBefore DEF Typed, TypeOK
<1>1. queued = {} /\ baseline \in {NoSchedule, site} /\ QuietCall(c)
  BY DEF NothingToTell
<1>2. ASSUME NEW kind \in Kinds, NEW s \in Offered \union {EmptySchedule}, Start(c, kind, s)
      PROVE  QuietCall(c)' /\ UNCHANGED <<queued, baseline>>
  <2>1. s \in {site, EmptySchedule}
    BY <1>0, <1>2 DEF Start, Given
  <2>2. /\ calls'[c].snapshot = s /\ calls'[c].base = calls[c].base
        /\ calls'[c].pc \in {"received", "accepted", "adopting"}
    BY <1>2, StartCall
  <2>3. QED BY <1>0, <1>1, <1>2, <2>1, <2>2 DEF QuietCall, Start
<1>3. CASE Receive(c)
  BY <1>0, <1>1, <1>3 DEF Receive, Moves, Ends, QuietCall, IdleCall, Call
<1>4. CASE ReadBaseline(c)
  BY <1>0, <1>1, <1>4 DEF ReadBaseline, QuietCall, Call
<1>5. CASE SaveCurrent(c)
  <2>1. CASE calls[c].base = NoSchedule
    BY <1>0, <1>1, <1>5, <2>1 DEF SaveCurrent, AfterComparison, QuietCall, IdleCall, Call
  <2>2. CASE calls[c].base # NoSchedule
    <3>1. calls[c].base = site /\ site \in Schedules /\ calls[c].snapshot \in {site, EmptySchedule}
      BY <1>1, <2>2 DEF QuietCall, Typed, TypeOK
    <3>2. News(calls[c].base, calls[c].snapshot) = NoNews
      BY <3>1, NoNewsOfTheSame DEF Quiet
    <3>3. calls'[c] = IdleCall
      BY <1>0, <1>5, <2>2, <3>2 DEF SaveCurrent, AfterComparison
    <3>4. QED BY <1>0, <1>1, <1>5, <3>3 DEF SaveCurrent, QuietCall, IdleCall
  <2>3. QED BY <2>1, <2>2
<1>6. ~Record(c) /\ \A g \in Subgroups : ~Announce(c, g)
  BY <1>1 DEF Record, Announce, QuietCall
<1>7. CASE SaveBaseline(c)
  <2>1. calls[c].snapshot = EmptySchedule => site = EmptySchedule
    BY <1>0, <1>7 DEF SaveBaseline, Quiet
  <2>2. baseline' = site
    BY <1>1, <1>7, <2>1 DEF SaveBaseline, QuietCall
  <2>3. calls'[c] = IdleCall
    BY <1>0, <1>7 DEF SaveBaseline, Ends
  <2>4. QED BY <1>0, <1>1, <1>7, <2>2, <2>3 DEF SaveBaseline, QuietCall, IdleCall
<1>8. QED BY <1>1, <1>2, <1>3, <1>4, <1>5, <1>6, <1>7
          DEF Own, Receive, ReadBaseline, SaveCurrent

LEMMA NothingToTellStep == Typed /\ NothingToTell /\ [Next]_vars => NothingToTell'
<1>. SUFFICES ASSUME Typed, NothingToTell, [Next]_vars, Quiet'
              PROVE  /\ queued' = {} /\ baseline' \in {NoSchedule, site'}
                     /\ \A c \in Callers : QuietCall(c)'
  BY SourceStays DEF NothingToTell, QuietCall
<1>1. /\ Quiet /\ changes' = changes /\ EmptySchedule' = EmptySchedule
      /\ queued = {} /\ baseline \in {NoSchedule, site} /\ changes \in Nat
      /\ \A c \in Callers : QuietCall(c)
  BY QuietBefore, SourceStays DEF NothingToTell, Typed, TypeOK
<1>2. CASE \/ Midnight \/ Age \/ UNCHANGED vars
  BY <1>1, <1>2 DEF Midnight, Age, vars, QuietCall
<1>3. ASSUME NEW s \in Offered PROVE ~Publish(s)
  BY <1>1 DEF Publish
<1>4. ASSUME NEW c \in Callers, Own(c)
      PROVE  /\ queued' = {} /\ baseline' \in {NoSchedule, site'}
             /\ \A b \in Callers : QuietCall(b)'
  <2>1. queued' = {} /\ baseline' \in {NoSchedule, site} /\ QuietCall(c)' /\ site' = site
    BY <1>1, <1>4, QuietOwnStep, OwnData
  <2>2. ASSUME NEW b \in Callers, b # c PROVE QuietCall(b)'
    BY <1>1, <1>4, <2>1, <2>2, OthersStay DEF QuietCall
  <2>3. QED BY <2>1, <2>2
<1>5. ASSUME NEW failed \in SUBSET Callers, Abandon(failed)
      PROVE  /\ queued' = {} /\ baseline' \in {NoSchedule, site'}
             /\ \A c \in Callers : QuietCall(c)'
  <2>1. UNCHANGED <<queued, baseline, site>> /\ \A c \in Callers : calls'[c] \in {calls[c], IdleCall}
    BY <1>5 DEF Abandon
  <2>2. QED BY <1>1, <2>1 DEF QuietCall, IdleCall
<1>6. QED BY <1>2, <1>3, <1>4, <1>5, NextCases

\* scheduler.py:634, 656-702: while the site shows one schedule and nobody imports
\* another, the subscribers of the college's groups are told of no change,
\* whatever pages come back empty, whatever fails and whenever the day changes,
\* unless the nightly job took an empty page for the baseline.
THEOREM QuietSiteTellsNothing == Spec => []QuietSite
<1>1. Init => NothingToTell
  BY DEF Init, NothingToTell, QuietCall, IdleCall
<1>2. NothingToTell => QuietSite
  BY DEF NothingToTell, QuietSite, Quiet
<1>3. QED BY <1>1, <1>2, NothingToTellStep, TypeInit, TypeStep, PTL DEF Spec

-----------------------------------------------------------------------------
(* What the subscribers know *)

Notifies(c) == calls[c].kind \notin {"baseline", "refresh"}
Telling(c) == calls[c].pc \in {"announcing", "settling"}

(* The dates that are or will be compared. *)
Coming == {d \in Dates : day <= d}

(* What a call carries fits where it is, and only calls that notify compare with
   the baseline.  A date that was news is still one when its turn comes. *)
CallFits(c) ==
  LET call == calls[c] IN
  /\ call.kind = "baseline" => call.pc \in {"idle", "adopting"}
  /\ call.kind = "refresh" => call.pc \in {"idle", "received", "saving"}
  /\ call.pc = "settling" => call.pending = {}
  /\ call.pc = "repeated" => excused
  /\ call.pc \in {"recording", "announcing", "settling"}
       => \A g \in Subgroups : \A d \in call.news[g] \intersect Coming :
            d \in NewsFor(g, call.base, call.snapshot)

OneAtATime ==
  \A b, c \in Callers :
    Notifies(b) /\ Applying(b) /\ Notifies(c) /\ Applying(c) => b = c

(* The baseline is what the subscribers take for the schedule, except while a
   call tells them of its successor; so is the baseline a call compares with;
   and of the news of a call that tells they know what is no longer pending. *)
BaselineKnown ==
  baseline # NoSchedule /\ (\A c \in Callers : ~Telling(c))
    => \A g \in Subgroups, d \in Coming : baseline[d][g] \in told[g][d]
BaseKnown(c) ==
  Notifies(c) /\ calls[c].pc = "saving" /\ calls[c].base # NoSchedule
    => \A g \in Subgroups, d \in Coming : calls[c].base[d][g] \in told[g][d]
NewsTold(c) ==
  Telling(c) => \A g \in Subgroups \ calls[c].pending : \A d \in calls[c].news[g] \intersect Coming :
                  calls[c].snapshot[d][g] \in told[g][d]

CallsFit == \A c \in Callers : CallFits(c)
Informed ==
  /\ OneAtATime
  /\ BaselineKnown
  /\ \A c \in Callers : BaseKnown(c) /\ NewsTold(c)
Aware == CallsFit /\ (excused \/ Informed)

(* What is excused stays so. *)
LEMMA ExcusedStays ==
  ASSUME Typed, [Next]_vars, excused
  PROVE  excused'
<1>1. ASSUME NEW c \in Callers, Own(c) PROVE excused'
  <2>1. CASE \E kind \in Kinds, s \in Offered \union {EmptySchedule} : Start(c, kind, s)
    BY <2>1 DEF Start
  <2>2. CASE Receive(c) \/ ReadBaseline(c) \/ SaveCurrent(c) \/ SaveBaseline(c)
    BY <2>2 DEF Receive, ReadBaseline, SaveCurrent, SaveBaseline
  <2>3. CASE Record(c)
    BY <2>3, RecordCall DEF Record
  <2>4. CASE \E g \in Subgroups : Announce(c, g)
    BY <2>4 DEF Announce
  <2>5. QED BY <1>1, <2>1, <2>2, <2>3, <2>4 DEF Own
<1>2. CASE \/ \E s \in Offered : Publish(s)
           \/ Midnight \/ Age \/ UNCHANGED vars
  BY <1>2 DEF Publish, Midnight, Age, vars
<1>3. ASSUME NEW failed \in SUBSET Callers, Abandon(failed) PROVE excused'
  BY <1>3 DEF Abandon
<1>4. QED BY <1>1, <1>2, <1>3, NextCases

LEMMA ComingShrinks ==
  ASSUME Typed, [Next]_vars
  PROVE  day' \in {day, day + 1} /\ Coming' \subseteq Coming
<1>1. day' \in {day, day + 1}
  <2>1. ASSUME NEW c \in Callers, Own(c) PROVE day' = day
    BY <2>1, OwnData
  <2>2. CASE \/ \E s \in Offered : Publish(s)
             \/ Midnight \/ Age \/ UNCHANGED vars
             \/ \E failed \in SUBSET Callers : Abandon(failed)
    BY <2>2 DEF Publish, Midnight, Age, vars, Abandon
  <2>3. QED BY <2>1, <2>2, NextCases
<1>2. day \in Nat /\ Dates \subseteq Nat
  BY DEF Typed, TypeOK, Dates
<1>3. ASSUME NEW d \in Dates, day' <= d PROVE day <= d
  BY <1>1, <1>2, <1>3
<1>4. QED BY <1>1, <1>3 DEF Coming

(* A date stays in the window until it has passed. *)
LEMMA NewsKeeps ==
  ASSUME Typed, [Next]_vars, NEW g, NEW base, NEW new, NEW d \in Coming',
         d \in NewsFor(g, base, new)
  PROVE  d \in NewsFor(g, base, new)'
<1>1. day \in Nat /\ d \in Nat /\ Ahead \in Nat /\ University' = University
  BY SourceStays, SourceFacts DEF Typed, TypeOK, NewsFor, Window, Dates
<1>2. QED BY <1>1, ComingShrinks DEF NewsFor, Window, Coming

LEMMA OwnFits ==
  ASSUME Typed, [Next]_vars, NEW c \in Callers, Own(c), CallFits(c)
  PROVE  CallFits(c)'
<1>0. /\ calls \in [Callers -> Call] /\ calls[c] \in Call
      /\ day' = day /\ Subgroups' = Subgroups /\ University' = University
      /\ excused => excused'
  BY OwnData, SourceStays, ExcusedStays DEF Typed, TypeOK
<1>1. ASSUME NEW kind \in Kinds, NEW s \in Offered \union {EmptySchedule}, Start(c, kind, s)
      PROVE  CallFits(c)'
  BY <1>1, StartCall DEF CallFits
<1>2. CASE Receive(c)
  BY <1>0, <1>2 DEF Receive, Moves, Ends, CallFits, IdleCall, Call
<1>3. CASE ReadBaseline(c)
  BY <1>0, <1>3 DEF ReadBaseline, CallFits, Call
<1>4. CASE SaveCurrent(c)
  <2>. DEFINE base == calls[c].base
              new == calls[c].snapshot
  <2>1. CASE calls'[c] = IdleCall
    BY <2>1 DEF CallFits, IdleCall
  <2>2. ASSUME NEW pc \in {"adopting", "recording"}, pc = AfterComparison(c, News(base, new)),
               calls' = [calls EXCEPT ![c] = [calls[c] EXCEPT !.news = News(base, new), !.pc = pc]]
        PROVE  CallFits(c)'
    <3>1. /\ calls'[c].kind = calls[c].kind /\ calls'[c].pc = pc
          /\ calls'[c].base = base /\ calls'[c].snapshot = new
          /\ calls'[c].news = News(base, new)
      BY <1>0, <2>2 DEF Call
    <3>2. calls[c].pc = "saving"
      BY <1>4 DEF SaveCurrent
    <3>3. pc = "recording" => base # NoSchedule
      BY <2>2 DEF AfterComparison
    <3>4. calls[c].kind \notin {"baseline", "refresh"}
      BY <2>2, <3>2 DEF CallFits, AfterComparison
    <3>5. ASSUME NEW g \in Subgroups, NEW d \in calls'[c].news[g], pc = "recording"
          PROVE  d \in NewsFor(g, base, new)
      BY <3>1, <3>3, <3>5 DEF News
    <3>6. ASSUME NEW g \in Subgroups, NEW d \in calls'[c].news[g], pc = "recording"
          PROVE  d \in NewsFor(g, calls[c].base, calls[c].snapshot)'
      BY <1>0, <3>1, <3>5, <3>6 DEF NewsFor, Window
    <3>7. QED BY <1>0, <2>2, <3>1, <3>4, <3>6 DEF CallFits
  <2>3. QED BY <1>0, <1>4, <2>1, <2>2 DEF SaveCurrent, AfterComparison
<1>a. ASSUME calls[c].pc \in {"recording", "announcing"},
             /\ calls'[c].base = calls[c].base /\ calls'[c].snapshot = calls[c].snapshot
             /\ calls'[c].news = calls[c].news,
             NEW g \in Subgroups, NEW d \in calls'[c].news[g] \intersect Coming'
      PROVE  d \in NewsFor(g, calls[c].base, calls[c].snapshot)'
  <2>1. d \in calls[c].news[g] \intersect Coming
    BY <1>0, <1>a DEF Coming
  <2>2. d \in NewsFor(g, calls[c].base, calls[c].snapshot)
    BY <1>a, <2>1 DEF CallFits
  <2>3. QED BY <1>0, <1>a, <2>2 DEF NewsFor, Window
<1>5. CASE Record(c)
  <2>1. calls[c].pc = "recording"
    BY <1>5 DEF Record
  <2>2. QED BY <1>0, <1>5, <1>a, <2>1, RecordCall DEF CallFits
<1>6. CASE SaveBaseline(c)
  BY <1>0, <1>6 DEF SaveBaseline, Ends, CallFits, IdleCall
<1>7. ASSUME NEW g \in Subgroups, Announce(c, g) PROVE CallFits(c)'
  <2>1. calls[c].pc = "announcing"
    BY <1>7 DEF Announce
  <2>2. QED BY <1>0, <1>7, <1>a, <2>1, AnnounceCall DEF CallFits
<1>8. QED BY <1>1, <1>2, <1>3, <1>4, <1>5, <1>6, <1>7 DEF Own

LEMMA CallsFitStep == Typed /\ CallsFit /\ [Next]_vars => CallsFit'
<1>. SUFFICES ASSUME Typed, CallsFit, [Next]_vars, NEW c \in Callers PROVE CallFits(c)'
  BY SourceStays DEF CallsFit
<1>1. CASE calls'[c] = calls[c]
  <2>. DEFINE call == calls[c]
  <2>1. ASSUME NEW g \in Subgroups, NEW base, NEW new, NEW d \in call.news[g] \intersect Coming',
               base = call.base, new = call.snapshot,
               call.pc \in {"recording", "announcing", "settling"}
        PROVE  d \in NewsFor(g, base, new)'
    BY <2>1, ComingShrinks, NewsKeeps DEF CallsFit, CallFits
  <2>2. ASSUME NEW g \in Subgroups, NEW d \in call.news[g] \intersect Coming',
               call.pc \in {"recording", "announcing", "settling"}
        PROVE  d \in NewsFor(g, call.base, call.snapshot)'
    BY <1>1, <2>1, <2>2 DEF NewsFor, Window
  <2>3. excused => excused'
    BY ExcusedStays
  <2>4. CallFits(c)
    BY DEF CallsFit
  <2>5. QED BY <1>1, <2>2, <2>3, <2>4, SourceStays DEF CallFits
<1>2. CASE Own(c)
  BY <1>2, OwnFits DEF CallsFit
<1>3. CASE calls'[c] = IdleCall
  BY <1>3 DEF CallFits, IdleCall
<1>4. QED BY <1>1, <1>2, <1>3, CallSteps

(* Before it tells anybody a call leaves alone what the subscribers know; one that
   reads the baseline finds them knowing it, unless another call notifies. *)
LEMMA EarlyInformed ==
  ASSUME Typed, [Next]_vars, CallsFit, Informed, ~excused', NEW c \in Callers, Own(c),
         ~SaveBaseline(c), \A g \in Subgroups : ~Announce(c, g)
  PROVE  /\ UNCHANGED <<told, baseline>> /\ ~Telling(c)
         /\ (Notifies(c) /\ Applying(c))'
              => \/ Notifies(c) /\ Applying(c)
                 \/ \A b \in Callers \ {c} : ~(Notifies(b) /\ Applying(b))
         /\ BaseKnown(c)' /\ NewsTold(c)'
<1>0. /\ calls \in [Callers -> Call] /\ calls[c] \in Call /\ CallFits(c)
      /\ day' = day /\ Subgroups' = Subgroups /\ Coming' = Coming
  BY OwnData, SourceStays DEF CallsFit, Typed, TypeOK, Coming
<1>1. CASE \E kind \in Kinds, s \in Offered \union {EmptySchedule} : Start(c, kind, s)
  <2>1. PICK kind \in Kinds, s \in Offered \union {EmptySchedule} : Start(c, kind, s)
    BY <1>1
  <2>2. UNCHANGED <<told, baseline>> /\ calls[c].pc = "idle"
    BY <2>1 DEF Start
  <2>3. \/ calls'[c].pc \in {"received", "accepted"}
        \/ ~Notifies(c)' /\ calls'[c].pc = "adopting"
    BY <2>1, StartCall DEF Notifies
  <2>4. QED BY <2>2, <2>3 DEF Telling, Applying, BaseKnown, NewsTold
<1>2. CASE Receive(c)
  <2>1. \/ calls'[c].pc \in {"idle", "accepted"}
        \/ calls'[c].pc = "saving" /\ calls'[c].kind = "refresh"
    BY <1>0, <1>2 DEF Receive, Moves, Ends, Call, IdleCall
  <2>2. UNCHANGED <<told, baseline>> /\ calls[c].pc = "received"
    BY <1>2 DEF Receive
  <2>3. QED BY <2>1, <2>2 DEF Telling, Applying, Notifies, BaseKnown, NewsTold
<1>3. CASE ReadBaseline(c)
  <2>1. /\ UNCHANGED <<told, baseline>> /\ calls[c].pc = "accepted"
        /\ calls'[c].pc = "saving" /\ calls'[c].base = baseline
    BY <1>0, <1>3 DEF ReadBaseline, Call
  <2>2. \A b \in Callers \ {c} : ~(Notifies(b) /\ Applying(b))
    BY <1>3 DEF ReadBaseline, Notifies
  <2>3. \A b \in Callers : ~Telling(b)
    <3>1. ASSUME NEW b \in Callers, Telling(b) PROVE b # c /\ Notifies(b) /\ Applying(b)
      BY <2>1, <3>1 DEF Telling, Applying, Notifies, CallsFit, CallFits
    <3>2. QED BY <2>2, <3>1
  <2>4. baseline # NoSchedule =>
          \A g \in Subgroups, d \in Coming : baseline[d][g] \in told[g][d]
    BY <2>3 DEF Informed, BaselineKnown
  <2>5. BaseKnown(c)'
    BY <1>0, <2>1, <2>4 DEF BaseKnown
  <2>6. QED BY <2>1, <2>2, <2>3, <2>5 DEF Telling, NewsTold
<1>4. CASE SaveCurrent(c)
  <2>1. UNCHANGED <<told, baseline>> /\ calls[c].pc = "saving"
    BY <1>4 DEF SaveCurrent
  <2>2. \/ calls'[c].pc = "idle"
        \/ calls'[c].pc \in {"adopting", "recording"} /\ calls'[c].kind = calls[c].kind
    BY <1>0, <1>4 DEF SaveCurrent, AfterComparison, Call, IdleCall
  <2>3. QED BY <2>1, <2>2 DEF Telling, Applying, Notifies, BaseKnown, NewsTold
<1>5. CASE Record(c)
  <2>1. UNCHANGED <<told, baseline>> /\ calls[c].pc = "recording"
    BY <1>5 DEF Record
  <2>2. calls'[c].pc = "announcing" /\ calls'[c].pending = Subgroups /\ calls'[c].kind = calls[c].kind
    BY <1>5, RecordCall
  <2>3. QED BY <1>0, <2>1, <2>2 DEF Telling, Applying, Notifies, BaseKnown, NewsTold
<1>6. QED BY <1>1, <1>2, <1>3, <1>4, <1>5 DEF Own

(* When a call tells an audience, no other call that notifies is under way. *)
LEMMA AnnounceInformed ==
  ASSUME Typed, [Next]_vars, CallsFit, Informed, NEW c \in Callers,
         NEW g \in Subgroups, Announce(c, g)
  PROVE  Informed'
<1>0. /\ calls \in [Callers -> Call] /\ calls[c] \in Call /\ CallFits(c) /\ Own(c)
      /\ Subgroups' = Subgroups /\ Coming' = Coming /\ Callers' = Callers
      /\ told \in [Subgroups -> [Dates -> SUBSET (Lessons \union {Free})]]
  <2>1. Own(c)
    BY DEF Own
  <2>2. QED BY <2>1, OwnData, SourceStays DEF CallsFit, Typed, TypeOK, Coming
<1>1. /\ Telling(c) /\ Notifies(c) /\ Applying(c)
      /\ Telling(c)' /\ Notifies(c)' /\ Applying(c)'
  <2>1. /\ calls[c].pc = "announcing" /\ calls'[c].kind = calls[c].kind
        /\ calls'[c].pc \in {"announcing", "settling"}
    <3>1. calls[c].pc = "announcing"
      BY DEF Announce
    <3>2. QED BY <3>1, AnnounceCall
  <2>2. calls[c].kind \notin {"baseline", "refresh"}
    BY <1>0, <2>1 DEF CallFits
  <2>3. QED BY <2>1, <2>2 DEF Telling, Notifies, Applying
<1>2. \A b \in Callers \ {c} : calls'[b] = calls[b] /\ ~(Notifies(b) /\ Applying(b)) /\ ~Telling(b)
  <2>1. ASSUME NEW b \in Callers \ {c} PROVE calls'[b] = calls[b] /\ ~(Notifies(b) /\ Applying(b))
    BY <1>0, <1>1, OthersStay DEF Informed, OneAtATime
  <2>2. ASSUME NEW b \in Callers \ {c}, Telling(b) PROVE Notifies(b) /\ Applying(b)
    BY <2>2 DEF CallsFit, CallFits, Telling, Notifies, Applying
  <2>3. QED BY <2>1, <2>2
<1>3. OneAtATime'
  <2>1. ASSUME NEW b \in Callers, Notifies(b)', Applying(b)' PROVE b = c
    BY <1>2, <2>1 DEF Notifies, Applying
  <2>2. ASSUME NEW a \in Callers, NEW b \in Callers,
               Notifies(a)', Applying(a)', Notifies(b)', Applying(b)'
        PROVE  a = b
    BY <2>1, <2>2
  <2>3. QED BY <1>0, <2>2 DEF OneAtATime
<1>4. BaselineKnown'
  BY <1>0, <1>1 DEF BaselineKnown
<1>5. \A b \in Callers : BaseKnown(b)'
  BY <1>1, <1>2 DEF BaseKnown, Notifies, Applying, Telling
<1>6. \A b \in Callers \ {c} : NewsTold(b)'
  BY <1>2 DEF NewsTold, Telling
<1>7. NewsTold(c)'
  <2>. DEFINE call == calls[c]
  <2>1. /\ calls'[c].pending = call.pending \ {g}
        /\ calls'[c].news = call.news /\ calls'[c].snapshot = call.snapshot
    BY AnnounceCall
  <2>2. ASSUME NEW h \in Subgroups \ (call.pending \ {g}), NEW d \in call.news[h] \intersect Coming
        PROVE  call.snapshot[d][h] \in told'[h][d]
    <3>1. CASE h = g
      <4>1. d \in NewsOf(call, g)
        BY <2>2, <3>1, <1>0 DEF Announce, CallFits, NewsOf
      <4>2. d \in Dates
        BY <2>2 DEF Coming
      <4>3. told'[g] = [e \in Dates |-> IF e \in NewsOf(call, g) THEN {call.snapshot[e][g]}
                                                                 ELSE told[g][e]]
        BY <1>0 DEF Announce
      <4>4. QED BY <3>1, <4>1, <4>2, <4>3
    <3>2. CASE h # g
      <4>1. told'[h] = told[h] /\ h \notin call.pending
        BY <1>0, <2>2, <3>2 DEF Announce
      <4>2. QED BY <1>1, <2>2, <4>1 DEF Informed, NewsTold
    <3>3. QED BY <3>1, <3>2
  <2>3. QED BY <1>0, <2>1, <2>2 DEF NewsTold
<1>8. QED BY <1>0, <1>3, <1>4, <1>5, <1>6, <1>7 DEF Informed

(* A schedule becomes the baseline when the subscribers know it. *)
LEMMA SavedIsKnown ==
  ASSUME Typed, CallsFit, Informed, ~excused, NEW c \in Callers, SaveBaseline(c),
         NEW g \in Subgroups, NEW d \in Dates
  PROVE  /\ told[g][d] \subseteq told'[g][d]
         /\ d \in Coming => calls[c].snapshot[d][g] \in told'[g][d]
<1>. DEFINE call == calls[c]
<1>1. told'[g][d] = IF call.pc # "adopting" /\ d \in call.news[g]
                      THEN told[g][d] ELSE told[g][d] \union {call.snapshot[d][g]}
  BY DEF SaveBaseline
<1>2. CASE call.pc = "settling" /\ d \in call.news[g] /\ d \in Coming
  <2>1. call.pending = {}
    BY <1>2 DEF CallsFit, CallFits
  <2>2. call.snapshot[d][g] \in told[g][d]
    BY <1>2, <2>1 DEF Informed, NewsTold, Telling
  <2>3. QED BY <1>1, <2>2
<1>3. call.pc \in {"adopting", "settling"}
  BY DEF SaveBaseline, CallsFit, CallFits
<1>4. QED BY <1>1, <1>2, <1>3

LEMMA SaveInformed ==
  ASSUME Typed, [Next]_vars, CallsFit, Informed, ~excused, NEW c \in Callers, SaveBaseline(c)
  PROVE  Informed'
<1>0. /\ Own(c) /\ Subgroups' = Subgroups /\ Coming' = Coming /\ Callers' = Callers
      /\ Coming \subseteq Dates
  <2>1. Own(c)
    BY DEF Own
  <2>2. QED BY <2>1, OwnData, SourceStays DEF Coming
<1>1. \A b \in Callers : calls'[b] \in {calls[b], IdleCall}
  BY DEF SaveBaseline, Ends, Typed, TypeOK
<1>2. OneAtATime'
  <2>1. ASSUME NEW b \in Callers, Notifies(b)', Applying(b)' PROVE Notifies(b) /\ Applying(b)
    BY <1>1, <2>1 DEF Notifies, Applying, IdleCall
  <2>2. QED BY <1>0, <2>1 DEF Informed, OneAtATime
<1>3. BaselineKnown'
  <2>1. baseline' = calls[c].snapshot
    BY DEF SaveBaseline
  <2>2. QED BY <1>0, <2>1, SavedIsKnown DEF BaselineKnown
<1>4. ASSUME NEW b \in Callers PROVE BaseKnown(b)'
  <2>1. CASE calls'[b] = calls[b]
    BY <1>0, <2>1, SavedIsKnown DEF Informed, BaseKnown, Notifies
  <2>2. CASE calls'[b] = IdleCall
    BY <2>2 DEF BaseKnown, IdleCall
  <2>3. QED BY <1>1, <2>1, <2>2
<1>5. ASSUME NEW b \in Callers PROVE NewsTold(b)'
  <2>1. CASE calls'[b] = calls[b]
    BY <1>0, <2>1, SavedIsKnown DEF Informed, NewsTold, Telling
  <2>2. CASE calls'[b] = IdleCall
    BY <2>2 DEF NewsTold, Telling, IdleCall
  <2>3. QED BY <1>1, <2>1, <2>2
<1>6. QED BY <1>0, <1>2, <1>3, <1>4, <1>5 DEF Informed

LEMMA OwnInformed ==
  ASSUME Typed, [Next]_vars, CallsFit, Informed, ~excused', NEW c \in Callers, Own(c)
  PROVE  Informed'
<1>0. ~excused /\ Subgroups' = Subgroups /\ Coming' = Coming /\ Callers' = Callers
  BY ExcusedStays, OwnData, SourceStays DEF Coming
<1>1. CASE SaveBaseline(c)
  BY <1>0, <1>1, SaveInformed
<1>2. CASE \E g \in Subgroups : Announce(c, g)
  BY <1>2, AnnounceInformed
<1>3. CASE ~SaveBaseline(c) /\ \A g \in Subgroups : ~Announce(c, g)
  <2>1. /\ UNCHANGED <<told, baseline>> /\ ~Telling(c)
        /\ (Notifies(c) /\ Applying(c))'
             => \/ Notifies(c) /\ Applying(c)
                \/ \A b \in Callers \ {c} : ~(Notifies(b) /\ Applying(b))
        /\ BaseKnown(c)' /\ NewsTold(c)'
    BY <1>3, EarlyInformed
  <2>2. \A b \in Callers \ {c} : calls'[b] = calls[b]
    BY OthersStay
  <2>3. OneAtATime'
    <3>1. ASSUME NEW a \in Callers, NEW b \in Callers \ {c},
                 Notifies(a)', Applying(a)', Notifies(b)', Applying(b)'
          PROVE  a = b
      <4>1. Notifies(b) /\ Applying(b)
        BY <2>2, <3>1 DEF Notifies, Applying
      <4>2. CASE a = c
        <5>1. Notifies(a) /\ Applying(a)
          BY <2>1, <3>1, <4>1, <4>2
        <5>2. QED BY <4>1, <5>1 DEF Informed, OneAtATime
      <4>3. CASE a # c
        <5>1. Notifies(a) /\ Applying(a)
          BY <2>2, <3>1, <4>3 DEF Notifies, Applying
        <5>2. QED BY <4>1, <5>1 DEF Informed, OneAtATime
      <4>4. QED BY <4>2, <4>3
    <3>2. QED BY <1>0, <3>1 DEF OneAtATime
  <2>4. BaselineKnown'
    <3>1. (\A b \in Callers : ~Telling(b)') => \A b \in Callers : ~Telling(b)
      BY <2>1, <2>2 DEF Telling
    <3>2. QED BY <1>0, <2>1, <3>1 DEF Informed, BaselineKnown
  <2>5. ASSUME NEW b \in Callers \ {c} PROVE BaseKnown(b)' /\ NewsTold(b)'
    BY <1>0, <2>1, <2>2 DEF Informed, BaseKnown, NewsTold, Telling, Notifies
  <2>6. QED BY <1>0, <2>1, <2>3, <2>4, <2>5 DEF Informed
<1>4. QED BY <1>1, <1>2, <1>3

LEMMA AwareStep == Typed /\ Aware /\ [Next]_vars => Aware'
<1>. SUFFICES ASSUME Typed, CallsFit, Informed, [Next]_vars, ~excused' PROVE Informed'
  BY CallsFitStep, ExcusedStays DEF Aware
<1>0. Subgroups' = Subgroups /\ Coming' \subseteq Coming /\ Callers' = Callers
  BY SourceStays, ComingShrinks
<1>1. CASE \/ \E s \in Offered : Publish(s)
           \/ Midnight \/ Age \/ UNCHANGED vars
  <2>1. UNCHANGED <<calls, told, baseline>>
    BY <1>1 DEF Publish, Midnight, Age, vars
  <2>2. OneAtATime'
    BY <1>0, <2>1 DEF Informed, OneAtATime, Notifies, Applying
  <2>3. BaselineKnown'
    BY <1>0, <2>1 DEF Informed, BaselineKnown, Telling
  <2>4. ASSUME NEW c \in Callers PROVE BaseKnown(c)' /\ NewsTold(c)'
    BY <1>0, <2>1 DEF Informed, BaseKnown, NewsTold, Notifies, Telling
  <2>5. QED BY <1>0, <2>2, <2>3, <2>4 DEF Informed
<1>2. ASSUME NEW c \in Callers, Own(c) PROVE Informed'
  BY <1>2, OwnInformed
<1>3. ASSUME NEW failed \in SUBSET Callers, Abandon(failed) PROVE Informed'
  <2>1. UNCHANGED <<told, baseline>> /\ \A c \in Callers : calls'[c] \in {calls[c], IdleCall}
    BY <1>3 DEF Abandon
  <2>2. ASSUME NEW c \in Callers, Telling(c) PROVE Telling(c)'
    BY <1>3, <2>2 DEF Abandon, Telling
  <2>3. OneAtATime'
    <3>1. ASSUME NEW b \in Callers, Notifies(b)', Applying(b)' PROVE Notifies(b) /\ Applying(b)
      BY <2>1, <3>1 DEF Notifies, Applying, IdleCall
    <3>2. QED BY <1>0, <3>1 DEF Informed, OneAtATime
  <2>4. BaselineKnown'
    BY <1>0, <2>1, <2>2 DEF Informed, BaselineKnown
  <2>5. ASSUME NEW c \in Callers PROVE BaseKnown(c)' /\ NewsTold(c)'
    <3>1. CASE calls'[c] = calls[c]
      BY <1>0, <2>1, <3>1 DEF Informed, BaseKnown, NewsTold, Notifies, Telling
    <3>2. CASE calls'[c] = IdleCall
      BY <3>2 DEF BaseKnown, NewsTold, Telling, IdleCall
    <3>3. QED BY <2>1, <3>1, <3>2
  <2>6. QED BY <1>0, <2>3, <2>4, <2>5 DEF Informed
<1>4. QED BY <1>1, <1>2, <1>3, NextCases

LEMMA AwareInit == Init => Aware
<1>. SUFFICES ASSUME Init PROVE Aware
  OBVIOUS
<1>1. \A c \in Callers : calls[c] = IdleCall
  BY DEF Init
<1>2. CallsFit /\ OneAtATime
  BY <1>1 DEF CallsFit, CallFits, OneAtATime, Applying, IdleCall
<1>3. BaselineKnown /\ \A c \in Callers : BaseKnown(c) /\ NewsTold(c)
  BY <1>1 DEF Init, BaselineKnown, BaseKnown, NewsTold, Telling, IdleCall
<1>4. QED BY <1>2, <1>3 DEF Aware, Informed

(* A call deals with its snapshot when it finds no news, or saves the baseline. *)
LEMMA DealtWithIsKnown ==
  ASSUME Typed, Aware, [Next]_vars, NEW c \in Callers, Deals(c), ~excused'
  PROVE  Known(calls[c].snapshot)
<1>. DEFINE call == calls[c]
<1>0. /\ CallsFit /\ Informed /\ ~excused /\ Window \subseteq Coming
      /\ calls \in [Callers -> Call]
      /\ call.pc \notin {"idle", "received"} /\ call.kind \in {"sync", "teacher", "manual"}
      /\ calls'[c].pc = "idle" /\ faults' = faults
  BY ExcusedStays DEF Aware, Window, Coming, Deals, Typed, TypeOK
<1>1. Own(c)
  <2>1. ASSUME NEW failed \in SUBSET Callers, Abandon(failed) PROVE FALSE
    BY <1>0, <2>1 DEF Abandon, Fault, Typed, TypeOK
  <2>2. calls'[c] # calls[c]
    BY <1>0
  <2>3. QED BY <2>1, <2>2, CallSteps
<1>2. SUFFICES ASSUME NEW g \in Subgroups, NEW d \in Window,
                      call.snapshot[d][g] # Free \/ University
               PROVE  call.snapshot[d][g] \in told'[g][d]
  BY DEF Known
<1>3. CASE SaveBaseline(c)
  BY <1>0, <1>3, SavedIsKnown DEF Coming
<1>4. CASE SaveCurrent(c)
  <2>1. /\ told' = told
        /\ AfterComparison(c, News(call.base, call.snapshot)) = "idle"
        /\ call.pc = "saving"
    BY <1>0, <1>4 DEF SaveCurrent
  <2>2. call.base # NoSchedule /\ News(call.base, call.snapshot) = NoNews
    BY <1>0, <2>1 DEF AfterComparison
  <2>3. NewsFor(g, call.base, call.snapshot) = {}
    BY <2>2 DEF News, NoNews
  <2>4. call.snapshot[d][g] = call.base[d][g]
    BY <1>2, <2>3 DEF NewsFor
  <2>5. call.base[d][g] \in told[g][d]
    BY <1>0, <2>1, <2>2 DEF Informed, BaseKnown, Notifies
  <2>6. QED BY <2>1, <2>4, <2>5
<1>5. ~(\E kind \in Kinds, s \in Offered \union {EmptySchedule} : Start(c, kind, s)) /\ ~Receive(c)
  BY <1>0 DEF Start, Receive
<1>6. ~ReadBaseline(c) /\ ~Record(c) /\ \A h \in Subgroups : ~Announce(c, h)
  <2>1. ~ReadBaseline(c)
    BY <1>0 DEF ReadBaseline, Call
  <2>2. ~Record(c)
    BY <1>0, RecordCall
  <2>3. \A h \in Subgroups : ~Announce(c, h)
    BY <1>0, AnnounceCall
  <2>4. QED BY <2>1, <2>2, <2>3
<1>7. QED BY <1>1, <1>3, <1>4, <1>5, <1>6 DEF Own

\* README.md:88, scheduler.py:656-702: once a call has dealt with a snapshot, the
\* subscribers were told of what it changes, unless a call failed after it had
\* recorded its change, two calls that notify overlapped, or a schedule came back
\* within a day.
THEOREM SubscribersKnow == Spec => SubscribersKnowUnlessExcused
<1>1. Typed /\ Aware /\ [Next]_vars
        => [\A c \in Callers : Deals(c) => excused' \/ Known(calls[c].snapshot)]_vars
  BY DealtWithIsKnown
<1>2. QED BY <1>1, TypeInit, TypeStep, AwareInit, AwareStep, PTL
          DEF Spec, SubscribersKnowUnlessExcused
=============================================================================
