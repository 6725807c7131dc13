---------------------------- MODULE GroupCatalog ----------------------------
(***************************************************************************)
(* The catalogue of groups (GroupCatalog of group_catalog.py), its jobs in  *)
(* scheduler.py and the groups that imports bring (ocr_import.py).  The bot *)
(* keeps the catalogue in memory, the pages of the web configurator read    *)
(* the site anew, and both replace the table of groups as a whole.  Groups  *)
(* that only a photo has shown have no id.                                  *)
(***************************************************************************)
EXTENDS Naturals, FiniteSets

CONSTANTS
    Names,          \* groups
    Departments,    \* of the college
    Home,           \* [Names -> Departments \cup {"university"}]
    Imported,       \* groups of whose schedule photos are taken
    MaxTroubles     \* bound: failed saves, restarts

VARIABLES
    published,  \* groups of the site
    known,      \* the bot's catalogue: groups with an id
    guessed,    \* the bot's catalogue: groups without
    failed,     \* _failed_department_ids
    origins,    \* _failed_origins
    pc,         \* of the bot's jobs: "idle", "saving" after the site was read, "promoting"
    follows,    \* whether the job promotes after saving
    due,        \* pending subscriptions the promotion has read
    table,      \* groups: [known, guessed]
    page,       \* what a web page is about to save, {} if nothing
    subs,       \* group -> kinds of its subscriptions, "pending" and "real"
    shown,      \* history: groups the site had when the bot last read it
    forgotten,  \* history: pending subscriptions at a refresh that promotes nobody
    troubles

vars == <<published, known, guessed, failed, origins, pc, follows, due, table, page, subs,
          shown, forgotten, troubles>>

catalogue == <<known, guessed, failed, origins, pc, follows, due, shown>>

College == {g \in Names : Home[g] # "university"}

Trouble == troubles < MaxTroubles /\ troubles' = troubles + 1

\* A process starts with ensure_loaded: the start of the bot is its first refresh.
Init ==
    /\ published \in {{}, College}
    /\ known = {} /\ guessed = {} /\ failed = {} /\ origins = FALSE
    /\ pc = "starting" /\ follows = FALSE /\ due = {}
    /\ table = [known |-> {}, guessed |-> {}] /\ page = {}
    /\ subs = [g \in Names |-> {}]
    /\ shown = {} /\ forgotten = {} /\ troubles = 0

Publish(g) ==
    /\ g \notin published /\ published' = published \cup {g}
    /\ UNCHANGED <<catalogue, table, page, subs, forgotten, troubles>>

\* _fetch_from_site: the part that cannot be read comes from the memory and the table,
\* but the groups of a department that cannot be read are left out.
Fetched(cached, out, lost, uni) ==
    (IF out THEN cached \cap College ELSE {g \in published \cap College : Home[g] \notin lost})
    \cup ((IF uni THEN cached ELSE published) \ College)

\* _bootstrap_from_subscriptions.
Subscribed == {g \in Names : "real" \in subs[g]}

\* refresh: at the start, by the job, and for the failed origins.  The promotion follows
\* a planned refresh, and one for the origins if they have recovered.
ReadSite(out, lost, uni, cause) ==
    LET cached == known \cup table.known
        read == Fetched(cached, out, lost, uni)
    IN  /\ shown' = published
        /\ origins' = (out \/ uni)
        /\ forgotten' = IF cause = "start" THEN {g \in Names : "pending" \in subs[g]} ELSE forgotten
        /\ IF out /\ uni /\ read = {}
             THEN /\ failed' = failed
                  /\ known' = IF table.guessed # {} THEN {} ELSE Subscribed
                  /\ guessed' = IF table.guessed # {} THEN table.guessed
                                ELSE IF Subscribed # {} THEN {} ELSE guessed
                  /\ pc' = IF table.guessed = {} /\ Subscribed # {} THEN "saving" ELSE "idle"
                  /\ follows' = FALSE
             ELSE /\ known' = read /\ guessed' = {} /\ failed' = lost /\ pc' = "saving"
                  /\ follows' = (cause = "plan" \/ (cause = "origins" /\ ~out /\ ~uni))

Refresh ==
    /\ \E out, uni \in BOOLEAN, lost \in SUBSET Departments :
          /\ out => lost = {}
          /\ \E cause \in {"start", "plan", "origins"} :
                /\ pc = IF cause = "start" THEN "starting" ELSE "idle"
                /\ cause = "origins" => origins
                /\ ReadSite(out, lost, uni, cause)
    /\ UNCHANGED <<published, due, table, page, subs, troubles>>

\* The start and the lookups of an empty catalogue promote nobody.
RefreshEmpty ==
    /\ pc = "idle" /\ known \cup guessed = {}
    /\ \E out, uni \in BOOLEAN, lost \in SUBSET Departments :
          (out => lost = {}) /\ ReadSite(out, lost, uni, "start")
    /\ UNCHANGED <<published, due, table, page, subs, troubles>>

\* Mutant: a department is tried once more and then left to the next refresh.
TriedOnce(read) == failed' = {}

StillFailed(read) == failed' = failed \ read

\* retry_failed_departments; what cannot be read stays on the list.
RetryDepartments ==
    /\ pc = "idle" /\ ~origins /\ failed # {}
    /\ \E read \in SUBSET failed :
          LET found == {g \in published : Home[g] \in read} IN
          /\ StillFailed(read)
          /\ known' = known \cup found /\ guessed' = guessed \ found
          /\ shown' = shown \cup found
          /\ pc' = (IF read # {} THEN "saving" ELSE "idle") /\ follows' = (read # {})
    /\ UNCHANGED <<published, origins, due, table, page, subs, forgotten, troubles>>

\* save_groups replaces the table; groups without an id are not in the payload.
Save ==
    /\ pc = "saving"
    /\ \/ table' = [known |-> known, guessed |-> {}] /\ UNCHANGED troubles
       \/ Trouble /\ UNCHANGED table
    /\ pc' = (IF follows THEN "promoting" ELSE "idle") /\ follows' = FALSE
    /\ due' = IF follows THEN {g \in Names : "pending" \in subs[g]} ELSE {}
    /\ UNCHANGED <<published, known, guessed, failed, origins, page, subs, shown, forgotten>>

\* Mutant: only the subscriptions nobody else has under the real key are moved.
MovesAlone(g) == g \in known /\ "real" \notin subs[g]

Moves(g) == g \in known

\* _promote_pending_group_subscribers, one group after the other.
Promote(g) ==
    /\ pc = "promoting" /\ g \in due /\ due' = due \ {g}
    /\ subs' = IF Moves(g) /\ "pending" \in subs[g] THEN [subs EXCEPT ![g] = {"real"}] ELSE subs
    /\ forgotten' = IF Moves(g) THEN forgotten \ {g} ELSE forgotten
    /\ UNCHANGED <<published, known, guessed, failed, origins, pc, follows, table, page, shown, troubles>>

PromotionEnds ==
    /\ pc = "promoting" /\ due = {} /\ pc' = "idle"
    /\ UNCHANGED <<published, known, guessed, failed, origins, follows, due, table, page, subs, shown,
                   forgotten, troubles>>

Restart ==
    /\ Trouble
    /\ known' = {} /\ guessed' = {} /\ failed' = {} /\ origins' = FALSE
    /\ pc' = "starting" /\ follows' = FALSE /\ due' = {} /\ shown' = {}
    /\ UNCHANGED <<published, table, page, subs, forgotten>>

\* A page of the web configurator: its catalogue lives for the request.
PageReads ==
    /\ page = {}
    /\ \E out, uni \in BOOLEAN, lost \in SUBSET Departments :
          (out => lost = {}) /\ page' = Fetched(table.known, out, lost, uni)
    /\ UNCHANGED <<published, catalogue, table, subs, forgotten, troubles>>

PageSaves ==
    /\ page # {} /\ page' = {}
    /\ table' = [known |-> page, guessed |-> {}]
    /\ UNCHANGED <<published, catalogue, subs, forgotten, troubles>>

\* /group_setup: find_group knows a group with or without an id.
Subscribe(g) ==
    /\ pc # "starting" /\ g \in known \cup guessed
    /\ subs' = [subs EXCEPT ![g] = @ \cup {IF g \in known THEN "real" ELSE "pending"}]
    /\ UNCHANGED <<published, catalogue, table, page, forgotten, troubles>>

\* register_pending_source of an import, and add_pending_groups: no lock is taken.
Import(g) ==
    /\ pc # "starting"
    /\ table' = [table EXCEPT !.guessed = IF g \in table.known THEN @ ELSE @ \cup {g}]
    /\ guessed' = IF g \in known THEN guessed ELSE guessed \cup {g}
    /\ UNCHANGED <<published, known, failed, origins, pc, follows, due, page, subs, shown, forgotten, troubles>>

Next ==
    \/ Refresh \/ RefreshEmpty \/ RetryDepartments \/ Save \/ PromotionEnds \/ Restart
    \/ PageReads \/ PageSaves
    \/ \E g \in Names : Publish(g) \/ Promote(g) \/ Subscribe(g)
    \/ \E g \in Imported : Import(g)

Spec == Init /\ [][Next]_vars
-----------------------------------------------------------------------------
\* A group the site showed and the bot does not know is on the way: its department or
\* its site is on the list of what is tried again (group_catalog.py:214-248), whatever
\* the pages of the web have left in the table and wherever the bot was restarted.
MissingIsRetried ==
    \A g \in shown \ known : pc # "starting" => origins \/ Home[g] \in failed

\* Subscribers under the name of a group whose id is known are about to be moved, unless
\* the id has come with a refresh at a start or a site cannot be read (scheduler.py:293-320).
PendingAreFollowed ==
    \A g \in known : "pending" \in subs[g] =>
        g \in forgotten \/ origins \/ g \in due \/ (pc = "saving" /\ follows)
=============================================================================
