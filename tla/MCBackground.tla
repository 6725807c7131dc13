---------------------------- MODULE MCBackground ----------------------------
(***************************************************************************)
(* What runs beside the bots, for TLC.  A behaviour is about one part of   *)
(* it: the lesson counters, the job queues, the alerts about outages, the  *)
(* reports of errors, the archive of days, the catalogue of groups, the    *)
(* directory of teachers or the sheets of photos.  The parts share no      *)
(* state, and the others stand still.                                      *)
(***************************************************************************)
EXTENDS MCLessonCounters, TLC

CONSTANTS
    cleanup, counter, c1, c2, site, sync, e1, e2, e3, a, u, d1, x1, x2,
    anna, ada, eva, A, E,
    JobIds, Falling, MaxAttempts, Consumers, MaxBreaks,                         \* JobQueue
    Watched, MaxReports, MaxAlertFaults,                                        \* SystemAlerts
    Errors, Window, Hour, Budget, KnownLimit, Pruned, MaxClock, Skipped, MaxSpawned,    \* ErrorReports
    ArchiveDays, BatchLimit, MaxSnapshots, MaxRestarts,                         \* ScheduleArchive
    Names, Departments, Imported, MaxTroubles,                                  \* GroupCatalog
    Teachers, Unlisted, MaxMoves, MaxLosses,                                    \* TeacherDirectory
    Classes, Admins, PhotoDays, MaxMishaps                                      \* OcrImport

(* The site has to fail once, the synchronisation twice. *)
Needed == site :> 1 @@ sync :> 2

ASSUME BackgroundAssumption ==
    /\ MaxAttempts \in Nat
    /\ \A c \in Watched : Needed[c] \in Nat \ {0}
    /\ "nobody" \notin Admins
    /\ Window \in Nat /\ Hour \in Nat /\ Window <= Hour
    /\ Budget \in Nat /\ KnownLimit \in Nat /\ Pruned \in 0..KnownLimit /\ Budget < KnownLimit + 2 - Pruned
    /\ ArchiveDays \subseteq Nat /\ BatchLimit \in Nat

(* A group of the only department, and one of the university. *)
HomeOf == a :> d1 @@ u :> "university"

(* A person of each site has the same name, another one the surname. *)
NameOf == anna :> A @@ ada :> A @@ eva :> E
SurnameOf == A :> "i" @@ E :> "i"
OriginOf == anna :> "college" @@ ada :> "university" @@ eva :> "university"

(* One sheet has both groups, the other one of them on another day. *)
SheetOf == x1 :> [day |-> 1, groups |-> Classes] @@ x2 :> [day |-> 2, groups |-> {a}]

(* Databases of an older version: empty, of a source with an id, of one that had none. *)
Old(key, time, kind, days) ==
    [key |-> key, time |-> time, kind |-> kind, days |-> days, dates |-> {}, lessons |-> TRUE, projected |-> FALSE]
Histories ==
    {<<>>,
     <<Old("real", 2, "daily_baseline", {1, 2}), Old("real", 2, "current", {1})>>,
     <<Old("pending", 3, "current", {1}), Old("real", 3, "other", {2})>>}

(* What is accepted: imports under the name, the site's under the id, a baseline. *)
Observations ==
    {s \in [key : {"pending", "real"}, time : {2, 3, 4}, kind : {"current"}, days : {ArchiveDays},
            dates : {{1}, ArchiveDays}, lessons : BOOLEAN, projected : {TRUE}]
       : s.lessons = (s.key = "real" \/ s.time # 3)}
    \cup [key : {"pending"}, time : {3}, kind : {"daily_baseline"}, days : {ArchiveDays},
          dates : {ArchiveDays}, lessons : {TRUE}, projected : {TRUE}]

VARIABLES
    focus,
    queue, hand, job, failures, breaks,
    states, reports, alerts, told, recent, unsure, slips,
    clock, attached, spawned, heard, sent, dropped, tells, muted,
    snapshots, archive, references, position, backfill, promoted, restarts,
    published, known, guessed, failed, origins, pc, follows, due, table, sitePage, subs, shown, forgotten, troubles,
    teachers, preps, cache, bound, pass, read, stale, moves, losses,
    followed, listed, kept, sheets, ocrFails, mishaps

Queues == INSTANCE JobQueue
Outages == INSTANCE SystemAlerts WITH Confirmations <- Needed
Reporter == INSTANCE ErrorReports WITH known <- heard
Archive == INSTANCE ScheduleArchive WITH Legacies <- Histories, Accepted <- Observations
Catalogue == INSTANCE GroupCatalog WITH Home <- HomeOf, page <- sitePage
Directory == INSTANCE TeacherDirectory WITH
    Name <- NameOf, Surname <- SurnameOf, Origin <- OriginOf, listed <- teachers, subs <- bound
Photos == INSTANCE OcrImport WITH Sheet <- SheetOf

queueVars == <<queue, hand, job, failures, breaks>>
alertVars == <<states, reports, alerts, told, recent, unsure, slips>>
reporterVars == <<clock, attached, spawned, heard, sent, dropped, tells, muted>>
archiveVars == <<snapshots, archive, references, position, backfill, promoted, restarts>>
catalogueVars == <<published, known, guessed, failed, origins, pc, follows, due, table, sitePage, subs, shown,
                   forgotten, troubles>>
directoryVars == <<teachers, preps, cache, bound, pass, read, stale, moves, losses>>
photoVars == <<followed, listed, kept, sheets, ocrFails, mishaps>>
allVars == <<focus, vars, queueVars, alertVars, reporterVars, archiveVars, catalogueVars, directoryVars, photoVars>>

BackgroundInit ==
    /\ focus \in {"lessons", "queues", "outages", "errors", "archive", "catalogue", "directory", "photos"}
    /\ Init /\ Queues!Init /\ Outages!Init /\ Reporter!Init
    /\ Archive!Init /\ Catalogue!Init /\ Directory!Init /\ Photos!Init
    /\ focus # "archive" => snapshots = <<>>
    /\ focus # "catalogue" => published = {}
    /\ focus # "directory" => teachers = {}
    /\ focus # "photos" => listed = {} /\ kept = [c \in Classes |-> [k \in {"pending", "real"} |-> {}]]

BackgroundNext ==
    /\ UNCHANGED focus
    /\ \/ /\ focus = "lessons" /\ Next
          /\ UNCHANGED <<queueVars, alertVars, reporterVars, archiveVars, catalogueVars, directoryVars, photoVars>>
       \/ /\ focus = "queues" /\ Queues!Next
          /\ UNCHANGED <<vars, alertVars, reporterVars, archiveVars, catalogueVars, directoryVars, photoVars>>
       \/ /\ focus = "outages" /\ Outages!Next
          /\ UNCHANGED <<vars, queueVars, reporterVars, archiveVars, catalogueVars, directoryVars, photoVars>>
       \/ /\ focus = "errors" /\ Reporter!Next
          /\ UNCHANGED <<vars, queueVars, alertVars, archiveVars, catalogueVars, directoryVars, photoVars>>
       \/ /\ focus = "archive" /\ Archive!Next
          /\ UNCHANGED <<vars, queueVars, alertVars, reporterVars, catalogueVars, directoryVars, photoVars>>
       \/ /\ focus = "catalogue" /\ Catalogue!Next
          /\ UNCHANGED <<vars, queueVars, alertVars, reporterVars, archiveVars, directoryVars, photoVars>>
       \/ /\ focus = "directory" /\ Directory!Next
          /\ UNCHANGED <<vars, queueVars, alertVars, reporterVars, archiveVars, catalogueVars, photoVars>>
       \/ /\ focus = "photos" /\ Photos!Next
          /\ UNCHANGED <<vars, queueVars, alertVars, reporterVars, archiveVars, catalogueVars, directoryVars>>

BackgroundSpec == BackgroundInit /\ [][BackgroundNext]_allVars
-----------------------------------------------------------------------------
\* A published job is run or has used up its attempts (message_broker.py:112-174), the
\* administrators hear of every outage and of its end (system_status.py:378-514), and of no
\* error once the bot is stopping (error_reporting.py:94-96).
FailuresAreKnown ==
    /\ Queues!JobKept /\ Queues!GaveUpHonestly
    /\ Outages!AdminsKnow
    /\ Reporter!SilentWhenStopping

\* An outage is told after as many failures in a row as it takes (system_status.py:408-433).
OutageConfirmed == Outages!OutageConfirmed

\* What goes by the clock: the archive has the newest observation of a day, the references
\* the earliest ones (schedule_archive.py:16-117, archive_backfill.py:34-135); an error is
\* told once in a window and within the budget of an hour (error_reporting.py:74-188).
TimesRespected ==
    /\ Archive!ArchiveIsLatest /\ Archive!ReferencesAreEarliest
    /\ Reporter!ToldOnceInWindow /\ Reporter!BudgetHolds

\* What a site showed is known or tried again, a site that is away loses nobody, waiting
\* subscribers are moved (group_catalog.py:65-348, schedule_search.py:98-279); a sheet of
\* photos is worked off, group by group (ocr_import.py:576-622).
CatalogueHolds ==
    /\ Catalogue!MissingIsRetried /\ Catalogue!PendingAreFollowed
    /\ Directory!EachSiteKept
    /\ Photos!SheetWorkedOff

\* What is known by a name comes to those who follow it, and only to them: teachers without
\* a namesake (schedule_search.py:150-169), imports of a group, which leave the other days
\* of the week alone (ocr_import.py:347-735).
NamesMatch == Directory!OnlyNamesake /\ Photos!ImportsAreFollowed /\ Photos!OtherDaysStay
=============================================================================
