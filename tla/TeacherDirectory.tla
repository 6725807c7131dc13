-------------------------- MODULE TeacherDirectory --------------------------
(***************************************************************************)
(* The directory of teachers (schedule_search.py) and the subscriptions    *)
(* that wait for one (scheduler.py:325): names come from the college and   *)
(* from the university, either of which may be away, and an imported       *)
(* teacher gets his subscribers' key once the name means one person.       *)
(***************************************************************************)
EXTENDS Naturals, FiniteSets

CONSTANTS
    Teachers,       \* people the sites may list
    Name,           \* teacher -> full name
    Surname,        \* name -> surname
    Origin,         \* teacher -> the site that lists him
    Unlisted,       \* names of imported teachers with subscribers
    MaxMoves,       \* bound: changes of the sites
    MaxLosses       \* bound: sites that are away, saves that fail, restarts

VARIABLES
    listed,     \* teachers on the sites
    preps,      \* _prep_items: teachers in memory
    cache,      \* search_targets
    subs,       \* imported name -> "pending" or the teacher
    pass,       \* names the promotion under way still has to look up
    read,       \* history: what the last successful reading of each site showed
    stale,      \* history: a reading was not saved
    moves, losses

vars == <<listed, preps, cache, subs, pass, read, stale, moves, losses>>

Origins == {Origin[t] : t \in Teachers}
Of(o, set) == {t \in set : Origin[t] = o}
Pending == {n \in Unlisted : subs[n] = "pending"}
Loses(k) == losses + k <= MaxLosses /\ losses' = losses + k

Init ==
    /\ listed \in SUBSET Teachers
    /\ preps = {} /\ cache = {} /\ subs = [n \in Unlisted |-> "pending"] /\ pass = {}
    /\ read = {} /\ stale = FALSE /\ moves = 0 /\ losses = 0

\* Teachers come and go.
SiteChanges(t) ==
    /\ moves < MaxMoves /\ moves' = moves + 1
    /\ listed' = IF t \in listed THEN listed \ {t} ELSE listed \cup {t}
    /\ UNCHANGED <<preps, cache, subs, pass, read, stale, losses>>

\* Mutant: what cannot be read is not there.
NobodyThere(o) == {}

\* The memory and the table together.
Known(o) == Of(o, preps \cup cache)

\* _fetch_pairs: a site that is away keeps what was known of it.
Fetched(away) == UNION {IF o \in away THEN Known(o) ELSE Of(o, listed) : o \in Origins}

\* _populate_preps and _save_pairs_to_db, whose failure is only logged; with both sites
\* away and nothing known nothing is replaced.
Load(away, unsaved) ==
    LET fetched == Fetched(away)
        failed == away = Origins /\ fetched = {}
    IN  /\ preps' = IF failed THEN preps ELSE fetched
        /\ cache' = IF failed \/ unsaved > 0 THEN cache ELSE fetched
        /\ read' = UNION {IF o \in away THEN Of(o, read) ELSE Of(o, listed) : o \in Origins}
        /\ stale' = (stale \/ unsaved > 0)
        /\ Loses(Cardinality(away) + unsaved)

\* _ensure_preps_loaded, by any search.
Search ==
    /\ preps = {} /\ \E away \in SUBSET Origins, unsaved \in 0..1 : Load(away, unsaved)
    /\ UNCHANGED <<listed, subs, pass, moves>>

\* promote_pending_teacher_subscribers reads the sites first, refresh_teachers: nobody
\* listed at all changes nothing.
Refresh ==
    /\ pass = {} /\ Pending # {} /\ pass' = Pending
    /\ \E away \in SUBSET Origins, unsaved \in 0..1 :
          \/ Fetched(away) # {} /\ Load(away, unsaved)
          \/ Fetched(away) = {} /\ unsaved = 0 /\ Loses(Cardinality(away)) /\ UNCHANGED <<preps, cache, read, stale>>
    /\ UNCHANGED <<listed, subs, moves>>

\* Mutant: somebody of that surname, as find would do.
SameSurname(n) == {t \in preps : Surname[Name[t]] = Surname[n]}

\* Mutant: a namesake does not matter.
OneOfThem(n) == {t \in preps : Name[t] = n}

\* find_site_teacher: the full name, unless two of that name are listed (_ambiguous_preps).
Found(n) == {t \in preps : Name[t] = n /\ \A u \in preps : Name[u] = n => u = t}

\* An empty memory is read anew first, if it can be (Search).
Promote(n) ==
    /\ n \in pass /\ pass' = pass \ {n}
    /\ \/ Found(n) = {} /\ UNCHANGED subs
       \/ \E t \in Found(n) : subs' = [subs EXCEPT ![n] = t]
    /\ UNCHANGED <<listed, preps, cache, read, stale, moves, losses>>

Restart ==
    /\ Loses(1) /\ preps' = {} /\ pass' = {}
    /\ UNCHANGED <<listed, cache, subs, read, stale, moves>>

Next ==
    \/ \E t \in Teachers : SiteChanges(t)
    \/ Search
    \/ Refresh
    \/ \E n \in Unlisted : Promote(n)
    \/ Restart

Spec == Init /\ [][Next]_vars
-----------------------------------------------------------------------------
\* A site that is away takes nobody with it (schedule_search.py:247-279): the memory and
\* the table hold what the last reading of each site showed.
EachSiteKept ==
    ~stale => /\ preps # {} => preps = read
              /\ cache = read

\* A subscription moves only to a person who was the only one of that full name in the
\* last readings, never to a namesake (:150-156); a reading that was not saved may hide one.
OnlyNamesake ==
    [][\A n \in Unlisted : subs[n] = "pending" /\ subs'[n] # "pending" =>
          stale \/ {t \in read : Name[t] = n} = {subs'[n]}]_vars
=============================================================================
