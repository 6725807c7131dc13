----------------------------- MODULE OcrImport -----------------------------
(***************************************************************************)
(* Schedules from photos (OcrScheduleImporter of ocr_import.py): a sheet    *)
(* has one day of several groups, each group finds its source and is merged *)
(* with the latest snapshot of this moment; the confirmation, much later,   *)
(* passes the groups on one after the other.  Meanwhile the site is read,   *)
(* another administrator confirms his own photo and the subscribers of a    *)
(* name move to the id of their group.                                      *)
(*                                                                          *)
(* A snapshot is modelled by the days it has.                               *)
(***************************************************************************)
EXTENDS Naturals, FiniteSets

CONSTANTS
    Classes,        \* groups
    Admins,         \* the administrators with a draft: Telegram's and VK's
    Sheet,          \* [Admins -> [day : PhotoDays, groups : SUBSET Classes]]
    PhotoDays,      \* days
    MaxMishaps      \* bound: recognitions or applications that fail, crashes

VARIABLES
    followed,   \* group -> the kind of source its subscribers have: "pending", "real"
    listed,     \* groups whose id the catalogue knows
    kept,       \* group -> kind of source -> days of the latest snapshot; {}: none
    sheets,     \* administrator -> his sheet
    ocrFails,   \* consecutive_failures is above zero
    mishaps

vars == <<followed, listed, kept, sheets, ocrFails, mishaps>>

SourceKinds == {"pending", "real"}
NoSheet == [step |-> "none"]
Mishap == mishaps < MaxMishaps /\ mishaps' = mishaps + 1

Init ==
    /\ listed \in SUBSET Classes
    /\ followed = [g \in Classes |-> IF g \in listed THEN "real" ELSE "pending"]
    /\ kept \in {[g \in Classes |-> [k \in SourceKinds |-> IF k = followed[g] THEN days ELSE {}]]
                 : days \in {{}, PhotoDays}}
    /\ sheets = [x \in Admins |-> NoSheet] /\ ocrFails = FALSE /\ mishaps = 0

At(x, step) == sheets[x].step = step

\* Mutant: the catalogue is asked before the subscriptions.
ByCatalog(g) == IF g \in listed THEN "real" ELSE "pending"

\* _resolve_source: whoever is subscribed decides.
Resolved(g) == followed[g]

\* parse_summary_text: which of the sheet's groups have a name that can be read.
Readable(x) == SUBSET Sheet[x].groups

\* The recognition is over: every group that can be told is merged with its snapshot.
\* A name that cannot be read has no source.
BuildDraft(x) ==
    /\ At(x, "none") /\ ocrFails' = FALSE
    /\ \E readable \in Readable(x) :
          sheets' = [sheets EXCEPT ![x] =
              [step |-> "draft", left |-> readable, done |-> {}, refused |-> {},
               drafts |-> [g \in readable |-> [kind |-> Resolved(g), base |-> kept[g][Resolved(g)],
                                               late |-> FALSE, moved |-> FALSE]]]]
    /\ UNCHANGED <<followed, listed, kept, mishaps>>

\* _record_failure: no draft comes of it.
RecognitionFails(x) ==
    /\ At(x, "none") /\ Mishap /\ ocrFails' = TRUE
    /\ UNCHANGED <<followed, listed, kept, sheets>>

Cancel(x) ==
    /\ At(x, "draft") /\ sheets' = [sheets EXCEPT ![x] = NoSheet]
    /\ UNCHANGED <<followed, listed, kept, ocrFails, mishaps>>

\* apply_summary refuses a sheet without any source.
Confirm(x) ==
    /\ At(x, "draft") /\ sheets[x].left # {}
    /\ sheets' = [sheets EXCEPT ![x].step = "applying"]
    /\ UNCHANGED <<followed, listed, kept, ocrFails, mishaps>>

\* Whoever has merged with an older snapshot is late.
Outdated(g, k, but) ==
    [x \in Admins |->
        IF x # but /\ sheets[x] # NoSheet /\ g \in sheets[x].left /\ sheets[x].drafts[g].kind = k
          THEN [sheets[x] EXCEPT !.drafts[g].late = TRUE] ELSE sheets[x]]

\* Mutant: the photo is taken for the whole schedule.
PhotoOnly(base, day) == {day}

\* merge_ocr_days.
Merged(base, day) == base \cup {day}

ApplyGroup(x, g) ==
    /\ At(x, "applying") /\ g \in sheets[x].left
    /\ LET draft == sheets[x].drafts[g] IN
          /\ kept' = [kept EXCEPT ![g][draft.kind] = Merged(draft.base, Sheet[x].day)]
          /\ sheets' = [Outdated(g, draft.kind, x) EXCEPT
                           ![x].left = @ \ {g}, ![x].done = @ \cup {g}]
    /\ UNCHANGED <<followed, listed, ocrFails, mishaps>>

\* Mutant: the first error ends the sheet.
SheetStops(x, g) == [sheets EXCEPT ![x].left = {}, ![x].refused = {g}]

\* apply_manual_snapshot raises: the group is reported and the next one follows.
GroupRefused(x, g) == [sheets EXCEPT ![x].left = @ \ {g}, ![x].refused = @ \cup {g}]

ApplyFails(x, g) ==
    /\ At(x, "applying") /\ g \in sheets[x].left /\ Mishap
    /\ sheets' = GroupRefused(x, g)
    /\ UNCHANGED <<followed, listed, kept, ocrFails>>

Report(x) ==
    /\ At(x, "applying") /\ sheets[x].left = {}
    /\ sheets' = [sheets EXCEPT ![x] = NoSheet]
    /\ UNCHANGED <<followed, listed, kept, ocrFails, mishaps>>

Crash ==
    /\ Mishap /\ sheets' = [x \in Admins |-> NoSheet] /\ ocrFails' = FALSE
    /\ UNCHANGED <<followed, listed, kept>>

\* _sync_source of a group with an id.
SiteSync(g) ==
    /\ followed[g] = "real"
    /\ kept' = [kept EXCEPT ![g]["real"] = PhotoDays]
    /\ sheets' = Outdated(g, "real", "nobody")
    /\ UNCHANGED <<followed, listed, ocrFails, mishaps>>

\* The catalogue finds the group, then its subscribers are moved.
Listed(g) ==
    /\ g \notin listed /\ listed' = listed \cup {g}
    /\ UNCHANGED <<followed, kept, sheets, ocrFails, mishaps>>

Promote(g) ==
    /\ g \in listed /\ followed[g] = "pending" /\ followed' = [followed EXCEPT ![g] = "real"]
    /\ sheets' = [x \in Admins |->
          IF sheets[x] # NoSheet /\ g \in sheets[x].left
            THEN [sheets[x] EXCEPT !.drafts[g].moved = TRUE] ELSE sheets[x]]
    /\ UNCHANGED <<listed, kept, ocrFails, mishaps>>

Next ==
    \/ \E x \in Admins :
          \/ BuildDraft(x) \/ RecognitionFails(x) \/ Cancel(x) \/ Confirm(x) \/ Report(x)
          \/ \E g \in Classes : ApplyGroup(x, g) \/ ApplyFails(x, g)
    \/ \E g \in Classes : SiteSync(g) \/ Listed(g) \/ Promote(g)
    \/ Crash

Spec == Init /\ [][Next]_vars
-----------------------------------------------------------------------------
Applied(x, c) ==
    At(x, "applying") /\ c \in sheets[x].left /\ sheets'[x].step = "applying" /\ c \in sheets'[x].done

\* The days that are not on the photo stay as they are, unless the site or the other
\* administrator was in between (ocr_schedule.py:1622-1626).
OtherDaysStay ==
    [][\A x \in Admins, c \in Classes :
          Applied(x, c) /\ ~sheets[x].drafts[c].late =>
              kept[c][sheets[x].drafts[c].kind] \subseteq kept'[c][sheets[x].drafts[c].kind]]_vars

\* An import comes to the source the group's subscribers have, unless they were moved
\* after the recognition: nobody is told then (ocr_import.py:665-735, db.py:1266).
ImportsAreFollowed ==
    [][\A x \in Admins, c \in Classes :
          Applied(x, c) /\ ~sheets[x].drafts[c].moved => sheets[x].drafts[c].kind = followed[c]]_vars

\* The report of a sheet is about every group that had a source: it was applied or is
\* named as refused, whatever failed before it (ocr_import.py:593-622).
SheetWorkedOff ==
    \A x \in Admins :
        sheets[x] # NoSheet => sheets[x].left \cup sheets[x].done \cup sheets[x].refused = DOMAIN sheets[x].drafts
=============================================================================
