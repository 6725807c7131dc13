---------------------------- MODULE ScheduleSync ----------------------------
(***************************************************************************)
(* How a source's schedule reaches its subscribers (src/src/scheduler.py,  *)
(* db.py, schedule_service.py, notifier.py): apply_snapshot stores what    *)
(* the site or an administrator gives, compares it with the baseline,      *)
(* records the change, queues the notifications and moves the baseline,    *)
(* while the nightly job replaces the baseline on its own.                 *)
(*                                                                         *)
(* The module follows one source; sources do not depend on each other      *)
(* here.  Every await on SQLite or the site separates two steps, and any   *)
(* of them may raise.                                                      *)
(***************************************************************************)
EXTENDS Naturals, FiniteSets

CONSTANTS
  LastDate,     \* the dates of the schedule: 1..LastDate
  Ahead,        \* dates that are compared: 2 (3 on a Saturday), from today
  Lessons,      \* what an audience may have on a date
  Free,         \* no lessons
  Sources,      \* the sources a behaviour may be about: whether it is a group
                \* of the university, its audiences, the schedules the site
                \* and the administrators give, and the coroutines that apply
                \* schedules, one call after another
  NoSchedule,   \* nothing stored yet
  \* Bounds of the model.
  MaxChanges,   \* new schedules on the site and from administrators
  MaxFaults     \* empty pages, exceptions, cancellations, crashes

VARIABLE source  \* the source this behaviour is about, one of Sources

(* A cancelled day is news to a group of the university, and each of its      *)
(* subgroups gets its own notification; the college has one audience.         *)
University == source.university
Subgroups == source.subgroups
Offered == source.offered
Callers == source.callers

Dates == 1..LastDate
Days == [Subgroups -> Lessons \union {Free}]
Schedules == [Dates -> Days]
EmptySchedule == [d \in Dates |-> [g \in Subgroups |-> Free]]

(***************************************************************************)
(* sync      _sync_source, in sync_current_snapshot                        *)
(* teacher   _sync_source, from the timer of a teacher                     *)
(* manual    apply_manual_snapshot, with notifications                     *)
(* silent    apply_manual_snapshot, without                                *)
(* refresh   save_admin_snapshot of "current"                              *)
(* baseline  _save_baseline_for_source; save_admin_snapshot of the baseline*)
(***************************************************************************)
Kinds == {"sync", "teacher", "manual", "silent", "refresh", "baseline"}

ASSUME SyncAssumption ==
  /\ {LastDate, Ahead} \subseteq Nat \ {0}
  /\ {MaxChanges, MaxFaults} \subseteq Nat
  /\ Free \notin Lessons
  /\ \A s \in Sources :
       /\ s.university \in BOOLEAN
       /\ s.university \/ Cardinality(s.subgroups) = 1
       /\ LET schedules == [1..LastDate -> [s.subgroups -> Lessons \union {Free}]] IN
          NoSchedule \notin schedules /\ s.offered \subseteq schedules

VARIABLES
  day,       \* today
  site,      \* the schedule the site shows
  current,   \* the latest snapshot of type current
  recent,    \* it is younger than EMPTY_FETCH_GRACE_PERIOD
  baseline,  \* the latest snapshot of type daily_baseline
  events,    \* change_events: <<snapshot, day>>
  calls,     \* [Callers -> Call]
  told,      \* history: what an audience may take a date for: what it was told
             \* last, and what became the baseline since without being news
  queued,    \* history: <<audience, event>> whose notification was queued
  twice,     \* history: such a notification was queued again
  alarmed,   \* history: a page without lessons became the baseline
  excused,   \* history: two calls that notify overlapped, one failed after it
             \* had recorded its change, or a schedule came back within a day
  changes,   \* new schedules so far
  faults     \* faults so far

vars == <<source, day, site, current, recent, baseline, events, calls, told, queued,
          twice, alarmed, excused, changes, faults>>

(***************************************************************************)
(* received    the snapshot is there, the latest one is read next          *)
(* accepted    the baseline is read next                                   *)
(* saving      the snapshot is saved as the current one next               *)
(* adopting    it becomes the baseline without notifications next          *)
(* recording   record_change is next                                       *)
(* announcing  the audiences in pending get their notification             *)
(* settling    the snapshot becomes the baseline next, its change queued   *)
(* repeated    the same, its change recorded before                        *)
(***************************************************************************)
Call == [pc : {"idle", "received", "accepted", "saving", "adopting", "recording",
               "announcing", "settling", "repeated"},
         kind : Kinds,
         snapshot : Schedules,
         base : Schedules \union {NoSchedule},
         news : [Subgroups -> SUBSET Dates],
         day : Nat,
         pending : SUBSET Subgroups]

NoNews == [g \in Subgroups |-> {}]
IdleCall == [pc |-> "idle", kind |-> "sync", snapshot |-> EmptySchedule, base |-> NoSchedule,
             news |-> NoNews, day |-> 0, pending |-> {}]

CanFail == faults < MaxFaults
Fault == CanFail /\ faults' = faults + 1

(* From the reading of the baseline to its replacement. *)
Applying(c) ==
  calls[c].pc \in {"saving", "adopting", "recording", "announcing", "settling", "repeated"}

Init ==
  /\ source \in Sources
  /\ day = 1
  /\ site \in Offered
  /\ current = NoSchedule
  /\ recent = FALSE
  /\ baseline = NoSchedule
  /\ events = {}
  /\ calls = [c \in Callers |-> IdleCall]
  /\ told = [g \in Subgroups |-> [d \in Dates |-> {}]]
  /\ queued = {}
  /\ twice = FALSE
  /\ alarmed = FALSE
  /\ excused = FALSE
  /\ changes = 0
  /\ faults = 0

-----------------------------------------------------------------------------
(* The site and the time *)

Publish(s) ==
  /\ s # site
  /\ changes < MaxChanges
  /\ site' = s
  /\ changes' = changes + 1
  /\ UNCHANGED <<day, current, recent, baseline, events, calls, told, queued,
                 twice, alarmed, excused, faults>>

Midnight ==
  /\ day < LastDate
  /\ day' = day + 1
  /\ UNCHANGED <<site, current, recent, baseline, events, calls, told, queued,
                 twice, alarmed, excused, changes, faults>>

Age ==
  /\ recent
  /\ recent' = FALSE
  /\ UNCHANGED <<day, site, current, baseline, events, calls, told, queued,
                 twice, alarmed, excused, changes, faults>>

-----------------------------------------------------------------------------
(* ScheduleComparator.compare *)

Window == {d \in Dates : day <= d /\ d < day + Ahead}

(* Mutant: a cancelled day is news for everybody. *)
NewsForCancelled(g, base, new) == {d \in Window : new[d][g] # base[d][g]}

(* Mutant: a day that had no lessons before is not compared. *)
NewsForBusy(g, base, new) ==
  {d \in Window : new[d][g] # base[d][g] /\ base[d][g] # Free /\ new[d][g] # Free}

(* The dates in whose lessons the audience g finds news. *)
NewsFor(g, base, new) ==
  {d \in Window :
     /\ new[d][g] # base[d][g]
     /\ new[d][g] # Free \/ University}

News(base, new) ==
  [g \in Subgroups |-> IF base = NoSchedule THEN {} ELSE NewsFor(g, base, new)]

-----------------------------------------------------------------------------
(* The steps of a call *)

Moves(c, pc) == calls' = [calls EXCEPT ![c].pc = pc]
Ends(c) == calls' = [calls EXCEPT ![c] = IdleCall]

(* The lock of sync_current_snapshot: a pass is skipped while another runs. *)
LockFree(kind) ==
  kind = "sync" => \A b \in Callers : calls[b].kind = "sync" => calls[b].pc = "idle"

(* A page of the site, now and then one without lessons, or an administrator's
   draft. *)
Given(kind, s) ==
  IF kind \in {"manual", "silent"}
    THEN s \in Offered /\ changes < MaxChanges /\ changes' = changes + 1 /\ UNCHANGED faults
    ELSE \/ s = site /\ UNCHANGED <<changes, faults>>
         \/ s = EmptySchedule /\ s # site /\ Fault /\ UNCHANGED changes

Start(c, kind, s) ==
  /\ calls[c].pc = "idle" /\ LockFree(kind)
  /\ Given(kind, s)
  /\ calls' = [calls EXCEPT ![c] =
       [@ EXCEPT !.kind = kind, !.snapshot = s,
                 !.pc = CASE kind \in {"sync", "teacher", "refresh"} -> "received"
                          [] kind \in {"manual", "silent"} -> "accepted"
                          [] kind = "baseline" -> "adopting"]]
  /\ UNCHANGED <<day, site, current, recent, baseline, events, told, queued, twice, alarmed, excused>>

(* looks_like_stale_site_glitch *)
StaleSiteGlitch(s) ==
  /\ s = EmptySchedule
  /\ current \notin {NoSchedule, EmptySchedule}
  /\ recent

Receive(c) ==
  /\ calls[c].pc = "received"
  /\ \/ StaleSiteGlitch(calls[c].snapshot) /\ Ends(c)
     \/ ~StaleSiteGlitch(calls[c].snapshot) /\ Moves(c, IF calls[c].kind = "refresh" THEN "saving" ELSE "accepted")
  /\ UNCHANGED <<day, site, current, recent, baseline, events, told, queued, twice,
                 alarmed, excused, changes, faults>>

ReadBaseline(c) ==
  /\ calls[c].pc = "accepted"
  /\ calls' = [calls EXCEPT ![c] = [@ EXCEPT !.base = baseline, !.pc = "saving"]]
  /\ excused' = (excused \/ \E b \in Callers \ {c} : Applying(b) /\ calls[b].kind \notin {"baseline", "refresh"})
  /\ UNCHANGED <<day, site, current, recent, baseline, events, told, queued, twice,
                 alarmed, changes, faults>>

(* What follows the comparison. *)
AfterComparison(c, news) ==
  IF calls[c].kind = "refresh" \/ (calls[c].base # NoSchedule /\ news = NoNews) THEN "idle"
  ELSE IF calls[c].base = NoSchedule \/ calls[c].kind = "silent" THEN "adopting"
  ELSE "recording"

SaveCurrent(c) ==
  LET call == calls[c]
      news == News(call.base, call.snapshot)
      pc == AfterComparison(c, news)
  IN
  /\ call.pc = "saving"
  /\ current' = call.snapshot
  /\ recent' = TRUE
  /\ calls' = [calls EXCEPT ![c] =
       IF pc = "idle" THEN IdleCall ELSE [@ EXCEPT !.news = news, !.pc = pc]]
  /\ UNCHANGED <<day, site, baseline, events, told, queued, twice, alarmed, excused, changes, faults>>

(* Mutant: a change is announced whether or not it was recorded before. *)
RecordAlways(c) ==
  /\ calls[c].pc = "recording"
  /\ events' = events \union {<<calls[c].snapshot, day>>}
  /\ calls' = [calls EXCEPT ![c] = [@ EXCEPT !.pc = "announcing", !.day = day,
                                      !.pending = Subgroups]]
  /\ UNCHANGED <<day, site, current, recent, baseline, told, queued, twice,
                 alarmed, excused, changes, faults>>

(* record_change: the index allows one event of a snapshot a day. *)
Record(c) ==
  /\ calls[c].pc = "recording"
  /\ LET event == <<calls[c].snapshot, day>> IN
     \/ /\ event \notin events
        /\ events' = events \union {event}
        /\ calls' = [calls EXCEPT ![c] = [@ EXCEPT !.pc = "announcing", !.day = day,
                                            !.pending = Subgroups]]
        /\ UNCHANGED excused
     \/ /\ event \in events
        /\ Moves(c, "repeated")
        /\ excused' = TRUE
        /\ UNCHANGED events
  /\ UNCHANGED <<day, site, current, recent, baseline, told, queued, twice, alarmed, changes, faults>>

(* A subgroup's news is what differs when its turn comes, if any. *)
NewsOf(call, g) == IF University THEN NewsFor(g, call.base, call.snapshot) ELSE call.news[g]

(* Broadcaster.broadcast to the audience g: all its notifications are queued in
   one transaction. *)
Announce(c, g) ==
  LET call == calls[c]
      news == <<g, <<call.snapshot, call.day>>>>
      left == call.pending \ {g}
  IN
  /\ call.pc = "announcing"
  /\ g \in call.pending
  /\ told' = [told EXCEPT ![g] =
       [d \in Dates |-> IF d \in NewsOf(call, g) THEN {call.snapshot[d][g]} ELSE @[d]]]
  /\ queued' = IF NewsOf(call, g) = {} THEN queued ELSE queued \union {news}
  /\ twice' = (twice \/ news \in queued)
  /\ calls' = [calls EXCEPT ![c] = [@ EXCEPT !.pending = left,
                                             !.pc = IF left = {} THEN "settling" ELSE "announcing"]]
  /\ UNCHANGED <<day, site, current, recent, baseline, events, alarmed, excused, changes, faults>>

(* What the audiences were not told of the new baseline, they may have seen. *)
SaveBaseline(c) ==
  LET call == calls[c] IN
  /\ call.pc \in {"adopting", "settling", "repeated"}
  /\ baseline' = call.snapshot
  /\ told' = [g \in Subgroups |-> [d \in Dates |->
       IF call.pc # "adopting" /\ d \in call.news[g]
         THEN told[g][d]
         ELSE told[g][d] \union {call.snapshot[d][g]}]]
  /\ alarmed' = (alarmed \/ (call.snapshot = EmptySchedule /\ site # EmptySchedule))
  /\ Ends(c)
  /\ UNCHANGED <<day, site, current, recent, events, queued, twice, excused, changes, faults>>

(* An exception or a cancellation; a crash of the process ends every call. *)
Abandon(failed) ==
  /\ failed # {}
  /\ Fault
  /\ calls' = [c \in Callers |-> IF c \in failed THEN IdleCall ELSE calls[c]]
  /\ excused' = (excused \/ \E c \in failed : calls[c].pc \in {"announcing", "settling", "repeated"})
  /\ UNCHANGED <<day, site, current, recent, baseline, events, told, queued, twice, alarmed, changes>>

Fail(c) == calls[c].pc # "idle" /\ Abandon({c})
Crash == Abandon({c \in Callers : calls[c].pc # "idle"})

Next ==
  /\ UNCHANGED source
  /\ \/ \E s \in Offered : Publish(s)
     \/ Midnight \/ Age
     \/ \E c \in Callers :
          \/ \E kind \in Kinds, s \in Offered \union {EmptySchedule} : Start(c, kind, s)
          \/ Receive(c) \/ ReadBaseline(c) \/ SaveCurrent(c) \/ Record(c)
          \/ SaveBaseline(c) \/ Fail(c)
          \/ \E g \in Subgroups : Announce(c, g)
     \/ Crash

Spec == Init /\ [][Next]_vars
-----------------------------------------------------------------------------
(* Properties *)

\* The variables have their types, and a call that announces has compared its
\* snapshot with a baseline (scheduler.py:679).
TypeOK ==
  /\ day \in Dates
  /\ site \in Schedules
  /\ {current, baseline} \subseteq Schedules \union {NoSchedule}
  /\ {recent, twice, alarmed, excused} \subseteq BOOLEAN
  /\ events \subseteq Schedules \X Dates
  /\ calls \in [Callers -> Call]
  /\ \A c \in Callers :
       calls[c].pc \in {"recording", "announcing", "settling", "repeated"} => calls[c].base \in Schedules
  /\ told \in [Subgroups -> [Dates -> SUBSET (Lessons \union {Free})]]
  /\ queued \subseteq Subgroups \X (Schedules \X Dates)
  /\ {changes, faults} \subseteq Nat

\* idx_change_events_source_key_snapshot_hash_day: however many calls apply a
\* schedule at a time, an audience gets its change once a day.
OncePerDay == ~twice

\* As long as nobody publishes a new schedule nobody is told of a change,
\* whatever fails - unless the nightly job, which does not ask
\* looks_like_stale_site_glitch, took an empty page for the baseline.  (The
\* university's groups are told of cancelled days, so an empty page that comes
\* before any other or after the grace period is news to them.)
QuietSite == changes = 0 /\ queued # {} => alarmed \/ University

(* The call c has dealt with its snapshot, and its subscribers know of it what
   is near enough to be compared. *)
Deals(c) ==
  /\ calls[c].kind \in {"sync", "teacher", "manual"}
  /\ calls[c].pc \notin {"idle", "received"}
  /\ calls'[c].pc = "idle"
  /\ faults' = faults
Known(s) ==
  \A g \in Subgroups, d \in Window :
    s[d][g] # Free \/ University => s[d][g] \in told'[g][d]

\* ocr_import.py:463-467: when an import with notifications returns a summary of
\* changes, the administrator reads that they were sent to the subscribers.
ReportedIsSent ==
  [][\A c \in Callers :
       Deals(c) /\ calls[c].kind = "manual" /\ calls[c].pc \in {"settling", "repeated"}
       => Known(calls[c].snapshot)]_vars

\* README.md:88: once a call has dealt with a snapshot, the subscribers were told
\* of what it changes, but for what the code gives up: after an exception between
\* the recording of a change and the baseline, after two calls that overlapped, or
\* when a schedule of the same day comes back.  Empty pages, midnight, the
\* nightly job and every other exception lose nothing.
SubscribersKnowUnlessExcused ==
  [][\A c \in Callers : Deals(c) => excused' \/ Known(calls[c].snapshot)]_vars
=============================================================================
