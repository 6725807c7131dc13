--------------------------- MODULE ScheduleArchive ---------------------------
(***************************************************************************)
(* The archive of days the mini app shows (schedule_archive.py,             *)
(* archive_backfill.py, save_snapshot and the promotions of pending sources *)
(* in db.py).  A snapshot that was accepted writes its days in the          *)
(* transaction that keeps it; the snapshots of older versions are worked    *)
(* off in batches after every start.  Sites, imports and the backfill bring *)
(* the observations of a day in any order.                                  *)
(***************************************************************************)
EXTENDS Naturals, Sequences, FiniteSets

CONSTANTS
    Legacies,       \* the snapshots a database may start with
    Accepted,       \* the snapshots that synchronisations and imports bring
    ArchiveDays,    \* dates
    BatchLimit,     \* limit of run_batch
    MaxSnapshots,   \* bound: snapshots
    MaxRestarts     \* bound: starts after the first

VARIABLES
    snapshots,      \* schedule_snapshots: [key, time, kind, days, dates, lessons, projected]
    archive,        \* schedule_day_archive: rows [key, day, kind, id, time, origin]
    references,     \* schedule_day_references: rows [key, day, kind, id, time]
    position,       \* schedule_archive_backfill.last_id
    backfill,       \* the task runs
    promoted,       \* the pending source has become the real one
    restarts

vars == <<snapshots, archive, references, position, backfill, promoted, restarts>>

Keys == {"pending", "real"}

\* The date of a moment; two moments make a day.
DateOf(time) == time \div 2

Init ==
    /\ snapshots \in Legacies /\ archive = {} /\ references = {}
    /\ position = 0 /\ backfill = TRUE /\ promoted = FALSE /\ restarts = 0

SameDay(r, q) == r.key = q.key /\ r.day = q.day /\ r.kind = q.kind

\* Mutant: what comes later replaces what is there.
LaterCall(n, r) == TRUE

Newer(n, r) == n.time > r.time

\* Mutant: of two observations the later one becomes the reference.
LastSeen(n, r) == n.time > r.time

Earlier(n, r) == n.time < r.time

\* The backfill prefers a current snapshot to a baseline of the same moment.
Wins(rule, n, r) ==
    \/ rule = "earliest" /\ Earlier(n, r)
    \/ rule \in {"newest", "backfill"} /\ Newer(n, r)
    \/ /\ rule = "backfill" /\ n.time = r.time
       /\ n.origin = "legacy_current" /\ r.origin = "legacy_baseline"

\* INSERT .. ON CONFLICT(source_key, date_iso, week_variant) DO UPDATE .. WHERE ..
Upserted(table, rows, rule) ==
    {r \in table : ~\E n \in rows : SameDay(r, n) /\ Wins(rule, n, r)}
    \cup {n \in rows : \A r \in table : SameDay(r, n) => Wins(rule, n, r)}

\* Days without lessons are no reference, nor are days that were over.
ReferenceKinds(snapshot, day) ==
    IF ~snapshot.lessons \/ day < DateOf(snapshot.time) THEN {}
    ELSE {"first_seen"} \cup IF day = DateOf(snapshot.time) THEN {"day_start"} ELSE {}

\* archive_accepted_snapshot: only the dates that were observed.
Archived(s) == IF s.kind = "current" THEN s.days \cap s.dates ELSE {}

Save(s) ==
    LET id == Len(snapshots) + 1 IN
    /\ Len(snapshots) < MaxSnapshots
    /\ snapshots' = Append(snapshots, s)
    /\ archive' = Upserted(archive,
           {[key |-> s.key, day |-> d, kind |-> "day", id |-> id, time |-> s.time, origin |-> "accepted"] : d \in Archived(s)},
           "newest")
    /\ references' = Upserted(references,
           UNION {{[key |-> s.key, day |-> d, kind |-> k, id |-> id, time |-> s.time] : k \in ReferenceKinds(s, d)}
                  : d \in Archived(s)},
           "earliest")
    /\ UNCHANGED <<position, backfill, promoted, restarts>>

\* Mutant: snapshots that have written their days are worked off as well.
EveryKind(s) == s.kind \in {"current", "daily_baseline"}

\* What the backfill takes: the days stand for those that pass its checks.
Backfilled(s) == ~s.projected /\ s.kind \in {"current", "daily_baseline"}

Origin(s) == IF s.kind = "current" THEN "legacy_current" ELSE "legacy_baseline"

\* The days of a snapshot that the backfill comes to.
DaysOf(id) ==
    {[key |-> snapshots[id].key, day |-> d, kind |-> "day", id |-> id, time |-> snapshots[id].time,
      origin |-> Origin(snapshots[id])]
     : d \in (IF Backfilled(snapshots[id]) THEN snapshots[id].days ELSE {})}

\* The archive after the snapshots up to `last`, in the order of their ids.
WorkedOff(last) ==
    LET Work[id \in position..last] ==
            IF id = position THEN archive ELSE Upserted(Work[id - 1], DaysOf(id), "backfill")
    IN  Work[last]

\* One batch, with the new position in one transaction; a batch that was interrupted has
\* not happened.
RunBatch ==
    LET last == IF position + BatchLimit < Len(snapshots) THEN position + BatchLimit ELSE Len(snapshots)
    IN  /\ backfill
        /\ archive' = WorkedOff(last)
        /\ position' = last
        /\ backfill' = (last - position >= BatchLimit)
        /\ UNCHANGED <<snapshots, references, promoted, restarts>>

Restart ==
    /\ restarts < MaxRestarts /\ restarts' = restarts + 1
    /\ backfill' = TRUE
    /\ UNCHANGED <<snapshots, archive, references, position, promoted>>

\* Mutant: the rows of the new key give way, newer or not.
RowsReplaced(table) ==
    {[r EXCEPT !.key = "real"] : r \in {q \in table : q.key = "pending"}}
    \cup {r \in table : r.key = "real" /\ ~\E q \in table : q.key = "pending" /\ SameDay(r, [q EXCEPT !.key = "real"])}

\* UPDATE OR IGNORE .. SET source_key: a row whose day the new key has stays behind.
Renamed(table) ==
    {IF r.key = "pending" /\ ~\E q \in table : SameDay(q, [r EXCEPT !.key = "real"])
       THEN [r EXCEPT !.key = "real"] ELSE r : r \in table}

\* The last snapshots of a teacher are copied if the new key has none of the kind.
Copies ==
    LET Of(key, kind) == {i \in DOMAIN snapshots : snapshots[i].key = key /\ snapshots[i].kind = kind}
        Copied(kind) ==
            IF Of("real", kind) # {} \/ Of("pending", kind) = {} THEN <<>>
            ELSE <<[snapshots[CHOOSE i \in Of("pending", kind) : \A j \in Of("pending", kind) : j <= i]
                        EXCEPT !.key = "real", !.projected = FALSE]>>
    IN  Copied("current") \o Copied("daily_baseline")

\* promote_pending_group_subscription (no copies), promote_pending_teacher_subscription.
Promote(teacher) ==
    /\ ~promoted /\ promoted' = TRUE
    /\ archive' = Renamed(archive)
    /\ references' = Renamed(references)
    /\ snapshots' = snapshots \o (IF teacher THEN Copies ELSE <<>>)
    /\ UNCHANGED <<position, backfill, restarts>>

Next ==
    \/ \E s \in Accepted : Save(s)
    \/ RunBatch \/ Restart
    \/ \E teacher \in BOOLEAN : Promote(teacher)

Spec == Init /\ [][Next]_vars
-----------------------------------------------------------------------------
\* The snapshots that have given a day to a source: accepted ones the dates they were
\* observed for, older ones all their days once the backfill has come to them.
Given(key, day) ==
    {i \in DOMAIN snapshots :
        /\ snapshots[i].key = key \/ (promoted /\ key = "real")
        /\ IF snapshots[i].projected THEN day \in Archived(snapshots[i])
           ELSE i <= position /\ Backfilled(snapshots[i]) /\ day \in snapshots[i].days}

\* A row that could not follow the promotion, or was written under the old key after
\* it, though it is the better one.
LeftBehind(table, day, Better(_, _)) ==
    promoted /\ \E r \in table : r.key = "pending" /\ r.day = day /\
        \A q \in table : q.key = "real" /\ q.day = day => ~Better(q, r)

\* The archive has the newest observation of every day that was given, whatever the
\* order of site, imports, batches and restarts; and a baseline only if no current
\* snapshot of older times is as new.
ArchiveIsLatest ==
    \A day \in ArchiveDays, key \in Keys :
        LeftBehind(archive, day, Newer) \/ (promoted /\ key = "pending") \/
        LET given == Given(key, day)
            rows == {r \in archive : r.key = key /\ r.day = day}
        IN  /\ (rows = {}) = (given = {})
            /\ \A r \in rows :
                  /\ r.id \in given /\ \A i \in given : snapshots[i].time <= r.time
                  /\ r.origin = "legacy_baseline" =>
                        ~\E i \in given : ~snapshots[i].projected /\ snapshots[i].kind = "current"
                                          /\ snapshots[i].time = r.time

\* A reference is the earliest accepted observation of its kind, and never one made
\* after the day.
ReferencesAreEarliest ==
    \A day \in ArchiveDays, key \in Keys, kind \in {"first_seen", "day_start"} :
        LeftBehind({r \in references : r.kind = kind}, day, Earlier) \/ (promoted /\ key = "pending") \/
        LET given == {i \in Given(key, day) : snapshots[i].projected /\ kind \in ReferenceKinds(snapshots[i], day)}
            rows == {r \in references : r.key = key /\ r.day = day /\ r.kind = kind}
        IN  /\ (rows = {}) = (given = {})
            /\ \A r \in rows : r.id \in given /\ \A i \in given : snapshots[i].time >= r.time
=============================================================================
