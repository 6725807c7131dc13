----------------------------- MODULE VkDialogue -----------------------------
(***************************************************************************)
(* The private dialogue of an administrator with the VK bot:                *)
(* all_messages_handler of vk_bot.py, from the mode of the dialogue         *)
(* (peer_modes) and the drafts of its scenarios to what leaves it.          *)
(*                                                                         *)
(* The dispatcher handles the messages of a dialogue one by one             *)
(* (VkUpdates), so a message is one step, except where its handler waits    *)
(* for something that may fail: `busy` is that wait, and meanwhile only a   *)
(* failure, a timeout or a restart comes in.  Old keyboards stay on the     *)
(* screen: any button may be pressed in any mode.                           *)
(*                                                                         *)
(* A draft is the sequence of the messages it was made of, each named by    *)
(* its number among those that carry content.  "main_menu" stands for every *)
(* screen of a subscriber on which the bot expects no text (settings,       *)
(* schedule, personalisation), "admin_menu" for those of the administrator. *)
(* Left out: conversations, the answers to feedback, editors, pages of lists. *)
(***************************************************************************)
EXTENDS Naturals, Sequences, SequencesExt, FiniteSets

CONSTANTS
    Answers,        \* how many answers the forms "lesson", "delete", "delete_one" ask for
    Platforms, Audiences,  \* of a campaign, "all" among each
    Jobs,           \* names of operations in the background, "broadcast" among them
    MaxTyped,       \* bound: messages with content
    MaxPages        \* MAX_OCR_IMAGES

VARIABLES
    mode,           \* peer_modes
    drafts,         \* kind of scenario -> draft, for those that have one
    target,         \* to whom the draft of a campaign goes
    images,         \* admin_ocr_summary_images
    sub,            \* what the user row is subscribed to
    choice,         \* teacher_choices: what the chosen teacher is for
    jobs,           \* admin_running_jobs
    busy,           \* what the handler at work waits for
    shown,          \* the preview that stands: shown for confirmation, not yet left
    sent,           \* what left the dialogue last
    defaulted,      \* a campaign was shown again, as if it went to every platform
    lost,           \* the preview of the draft has not arrived: an older one stands
    sheet,          \* photos sent since the summary scenario was entered
    typed

vars == <<mode, drafts, target, images, sub, choice, jobs, busy, shown, sent,
          defaulted, lost, sheet, typed>>

Nothing == [op |-> "nothing", draft |-> <<>>]
Everyone == [platform |-> "all", audience |-> "all"]

\* Modes that take every text but "/start", then those whose turn comes later.
Captive == {"broadcast_input", "broadcast_preview", "ocr_input", "ocr_preview",
            "summary_input", "summary_preview", "json_input", "json_preview",
            "import_input", "lesson", "delete", "delete_one"}
AdminModes == Captive \cup {"import_preview", "admin_menu", "user_search", "user_results"}
Modes == AdminModes \cup {"main_menu", "group_select", "teacher_choice", "sticker",
                          "report_input", "report_confirm", "audience_select",
                          "schedule_search", "search_result"}
Searching == mode = "schedule_search" \/ (mode = "teacher_choice" /\ choice = "search")
Turn ==
    CASE mode \in Captive -> 1
      [] mode = "sticker" -> 2
      [] mode = "report_input" -> 3
      [] mode \in {"audience_select", "search_result"} \/ Searching -> 4
      [] OTHER -> 5

\* Who has no subscription is asked for one, unless he is at work as an administrator.
PassesGate == sub # "none" \/ mode \in AdminModes
\* A command that the handler looks for at the given turn is seen as one.
Heard(turn) == busy = Nothing /\ Turn > turn /\ PassesGate

Pop(f, kinds) == [k \in DOMAIN f \ kinds |-> f[k]]
Put(f, kind, d) == [k \in DOMAIN f \cup {kind} |-> IF k = kind THEN d ELSE f[k]]
Preview(kind, d, to) == [kind |-> kind, draft |-> d, to |-> to]
Empty == [k \in {} |-> <<>>]

FileKinds == {"import"} \cup DOMAIN Answers
Kinds == {"report", "broadcast", "ocr", "summary", "query"} \cup FileKinds

NoPreview == Preview("none", <<>>, Everyone)

Init ==
    /\ mode = "main_menu" /\ drafts = Empty /\ target = Everyone /\ images = <<>>
    /\ sub \in {"none", "group", "teacher"} /\ choice = "none" /\ jobs = {}
    /\ busy = Nothing /\ shown = NoPreview /\ sent = NoPreview
    /\ defaulted = FALSE /\ lost = FALSE /\ sheet = {} /\ typed = 0

Types == typed < MaxTyped /\ typed' = typed + 1
Message == typed + 1
\* Another screen: the previews of the one that is left, and some drafts, are gone.
Screen(m, popped) ==
    /\ mode' = m
    /\ drafts' = Pop(drafts, popped)
    /\ shown' = NoPreview
    /\ choice' = "none" /\ target' = Everyone /\ defaulted' = FALSE /\ lost' = FALSE
Same == UNCHANGED <<sub, jobs, busy>>
SamePages == UNCHANGED <<images, sheet>>
Mute == sent' = NoPreview
Quiet == Same /\ SamePages /\ Mute /\ UNCHANGED typed
Opens(m, popped) == Screen(m, popped) /\ Quiet
SameScreen == UNCHANGED <<mode, drafts, shown, choice, target, defaulted, lost>>
\* Mode and draft are stored first: if VK takes no message, the handler ends with an error
\* and the preview that stood before still stands.
Shows(p) ==
    \/ shown' = p /\ lost' = FALSE
    \/ UNCHANGED shown /\ lost' = TRUE
\* The draft is what has been typed so far, and a preview of it waits for an answer.
Previewed(m, kind, d) ==
    /\ mode' = m
    /\ drafts' = Put(drafts, kind, d)
    /\ Shows(Preview(kind, d, Everyone))
    /\ choice' = "none" /\ target' = Everyone /\ defaulted' = FALSE

\* A scenario begins with an empty draft.
Begins(m, kind) ==
    /\ mode' = m
    /\ drafts' = Put(drafts, kind, <<>>)
    /\ shown' = NoPreview /\ choice' = "none" /\ lost' = FALSE
    /\ UNCHANGED <<target, defaulted>>

-----------------------------------------------------------------------------
(* Menus and subscriptions *)

\* "/start": the only command that every mode obeys.
Start ==
    /\ busy = Nothing
    /\ Opens(IF sub = "none" THEN "group_select" ELSE "main_menu", {"broadcast", "report"})

\* "Back to the menu" ends every scenario; in a choice of people it only leaves the choice.
ToMenu ==
    /\ Heard(1) /\ mode # "teacher_choice"
    /\ Screen("main_menu", Kinds \ {"report"})
    /\ images' = <<>> /\ sheet' = {}
    /\ Same /\ Mute /\ UNCHANGED typed

LeaveChoice ==
    /\ busy = Nothing /\ mode = "teacher_choice"
    /\ Opens("main_menu", {})

\* Settings, schedules, notifications, a sticker that is given: a screen is shown.
ShowScreen ==
    /\ Heard(1)
    /\ Opens("main_menu", {})

AskSticker ==
    /\ Heard(2)
    /\ Opens("sticker", {})

\* A text or button of someone without a subscription is a group's or teacher's name.
Subscribed(s) ==
    /\ sub' = s
    /\ Screen("main_menu", {})
    /\ Mute /\ SamePages /\ UNCHANGED <<jobs, busy, typed>>

AskChoice(purpose) ==
    /\ mode' = "teacher_choice" /\ choice' = purpose
    /\ UNCHANGED <<drafts, shown, target, defaulted, lost>> /\ Quiet

Subscribe ==
    /\ busy = Nothing /\ ~PassesGate
    /\ \/ \E s \in {"group", "teacher"} : Subscribed(s)
       \/ AskChoice("subscribe")
       \/ Opens("group_select", {})

\* One of several people of that name is chosen.
Choose ==
    /\ busy = Nothing /\ mode = "teacher_choice"
    /\ \/ choice = "subscribe" /\ Subscribed("teacher")
       \/ choice = "search" /\ Opens("search_result", {})

Unsubscribe ==
    /\ Heard(2)
    /\ sub' = "none"
    /\ Screen("group_select", {})
    /\ Mute /\ SamePages /\ UNCHANGED <<jobs, busy, typed>>

AskRoom ==
    /\ Heard(2) /\ sub = "teacher"
    /\ Opens("audience_select", {})

RoomGiven ==
    /\ Heard(3) /\ mode = "audience_select"
    /\ Opens("main_menu", {})

AskSearch ==
    /\ Heard(3)
    /\ Opens("schedule_search", {})

Search ==
    /\ Heard(3) /\ Searching
    /\ \/ \E m \in {"search_result", "schedule_search"} : Opens(m, {})
       \/ AskChoice("search")

-----------------------------------------------------------------------------
(* Reports: typed, shown, then sent or cancelled *)

AskReport ==
    /\ Heard(2)
    /\ Opens("report_input", {})

\* "/feedback text" at once, or the text that was asked for.
ReportTyped ==
    /\ Heard(2) /\ Types
    /\ Previewed("report_confirm", "report", <<Message>>)
    /\ Same /\ SamePages /\ Mute

\* Mutant: the mode is left as it is.
CancelDraftOnly ==
    /\ Heard(2) /\ mode \in {"report_input", "report_confirm"}
    /\ drafts' = Pop(drafts, {"report"})
    /\ UNCHANGED <<mode, shown, choice, target, defaulted, lost>> /\ Quiet

CancelReport ==
    /\ Heard(2) /\ mode \in {"report_input", "report_confirm"}
    /\ Opens("main_menu", {"report"})

\* The draft is gone before the report is stored: a failure then loses it.
SendReport ==
    /\ Heard(3) /\ mode = "report_confirm"
    /\ \/ sent' = Preview("report", drafts["report"], Everyone)
       \/ Mute
    /\ Screen("main_menu", {"report"})
    /\ UNCHANGED <<sub, jobs, busy, typed>>
    /\ SamePages

-----------------------------------------------------------------------------
(* The administrator: menus, searches, operations in the background *)

AdminMenu ==
    /\ busy = Nothing /\ Turn > 3
    /\ \E popped \in {{}, {"broadcast"}, {"broadcast", "lesson", "delete", "delete_one", "query"}} :
          Opens("admin_menu", popped)

\* Status, errors, statistics, editors, downloads: each of its own screen.
Heeded == Heard(4)
AdminScreen ==
    /\ Heeded
    /\ Opens("admin_menu", {})

AskUser ==
    /\ Heeded
    /\ Opens("user_search", {"query"})

FindUser ==
    /\ Heeded /\ mode = "user_search"
    /\ \/ Opens("user_search", {"query"})
       \/ Begins("user_results", "query") /\ Quiet

\* Another page (nobody may be left on it), another search, everybody.
LeaveResults ==
    /\ Heeded /\ mode = "user_results"
    /\ \/ \E popped \in {{}, {"query"}} : Opens("user_search", popped)
       \/ Opens("admin_menu", {"query"})

\* spawn_admin_job: a second operation of the same name is not started.
SpawnJob(name) == name \notin jobs /\ jobs' = jobs \cup {name}

StartJob(name) ==
    /\ Heeded /\ SpawnJob(name)
    /\ SameScreen /\ Mute /\ SamePages /\ UNCHANGED <<sub, busy, typed>>

JobEnds(name) ==
    /\ name \in jobs /\ jobs' = jobs \ {name}
    /\ SameScreen /\ Mute /\ SamePages /\ UNCHANGED <<sub, busy, typed>>

-----------------------------------------------------------------------------
(* A campaign: text, then target and text again, then confirmation *)

AskCampaign ==
    /\ Heeded
    /\ Opens("broadcast_input", {"broadcast"})

CancelCampaign ==
    /\ busy = Nothing /\ mode \in {"broadcast_input", "broadcast_preview"}
    /\ Opens("admin_menu", {"broadcast"})

CampaignTyped ==
    /\ busy = Nothing /\ mode = "broadcast_input" /\ Types
    /\ Previewed("broadcast_preview", "broadcast", <<Message>>)
    /\ Same /\ SamePages /\ Mute

\* Another text, or a message without one (a sticker, a photo), is answered with a preview
\* for every platform, whatever was chosen.
CampaignAgain ==
    /\ busy = Nothing /\ mode = "broadcast_preview"
    /\ \/ Types /\ drafts' = Put(drafts, "broadcast", <<Message>>)
       \/ UNCHANGED <<typed, drafts>>
    /\ Shows(Preview("broadcast", drafts'["broadcast"], [target EXCEPT !.platform = "all"]))
    /\ defaulted' = TRUE
    /\ UNCHANGED <<mode, choice, target>>
    /\ Same /\ SamePages /\ Mute

\* Mutant: a preview of the platform alone.
PlatformAlone(to) ==
    /\ busy = Nothing /\ mode = "broadcast_preview"
    /\ target' = to /\ defaulted' = FALSE
    /\ Shows(Preview("broadcast", drafts["broadcast"], [to EXCEPT !.audience = "all"]))
    /\ UNCHANGED <<mode, drafts, choice, typed>>
    /\ Same /\ SamePages /\ Mute

CampaignTarget(to) ==
    /\ busy = Nothing /\ mode = "broadcast_preview"
    /\ to.platform = target.platform \/ to.audience = target.audience
    /\ target' = to /\ defaulted' = FALSE
    /\ Shows(Preview("broadcast", drafts["broadcast"], to))
    /\ UNCHANGED <<mode, drafts, choice, typed>>
    /\ Same /\ SamePages /\ Mute

\* While another broadcast runs, the campaign is neither sent nor kept.
SendCampaign ==
    /\ busy = Nothing /\ mode = "broadcast_preview"
    /\ IF "broadcast" \in jobs THEN UNCHANGED jobs /\ Mute
       ELSE /\ SpawnJob("broadcast")
            /\ sent' = Preview("broadcast", drafts["broadcast"], target)
    /\ Screen("admin_menu", {"broadcast"})
    /\ UNCHANGED <<sub, busy, typed>>
    /\ SamePages

-----------------------------------------------------------------------------
(* Timetables from photos: one sheet, a summary of several, ready JSON *)

Waits(op, d) == busy' = [op |-> op, draft |-> d]

AskPhoto ==
    /\ Heeded
    /\ Opens("ocr_input", {"ocr"})

\* A photo sent outside the scenarios of photos enters that of one sheet.
Photo ==
    /\ busy = Nothing /\ Types
    /\ mode \notin {"broadcast_input", "broadcast_preview", "summary_input",
                    "summary_preview", "json_input", "json_preview"}
    /\ IF mode \in {"ocr_input", "ocr_preview"} THEN SameScreen ELSE Screen("ocr_input", {"ocr"})
    /\ Waits("photo", <<Message>>)
    /\ Mute /\ UNCHANGED <<sub, jobs>> /\ SamePages

\* Mutant: the photos of an earlier sheet are still there.
SummaryKeepsPhotos ==
    /\ Heeded
    /\ Screen("summary_input", {"summary"})
    /\ sheet' = {}
    /\ Same /\ Mute /\ UNCHANGED <<typed, images>>

AskSummary ==
    /\ Heeded
    /\ Screen("summary_input", {"summary"})
    /\ images' = <<>> /\ sheet' = {}
    /\ Same /\ Mute /\ UNCHANGED typed

\* A page joins those kept so far before it is recognised with them.
Page ==
    /\ busy = Nothing /\ mode \in {"summary_input", "summary_preview"} /\ Types
    /\ Len(images) < MaxPages
    /\ images' = Append(images, Message) /\ sheet' = sheet \cup {Message}
    /\ Waits("pages", images')
    /\ SameScreen
    /\ Mute /\ UNCHANGED <<sub, jobs>>

AskJson ==
    /\ Heeded
    /\ Screen("json_input", {"summary"})
    /\ images' = <<>> /\ sheet' = {}
    /\ Same /\ Mute /\ UNCHANGED typed

\* JSON needs no recognition, only parsing and matching of names.
Json ==
    /\ busy = Nothing /\ mode \in {"json_input", "json_preview"} /\ Types
    /\ \/ Previewed("json_preview", "summary", <<Message>>) /\ sheet' = {Message}
       \/ SameScreen /\ UNCHANGED sheet
    /\ Same /\ Mute /\ UNCHANGED images

Recognised ==
    /\ \/ busy.op = "photo" /\ Previewed("ocr_preview", "ocr", busy.draft)
       \/ busy.op = "pages" /\ Previewed("summary_preview", "summary", busy.draft)
    /\ busy' = Nothing
    /\ Mute /\ UNCHANGED <<sub, jobs, typed>> /\ SamePages

\* Not recognised, too late, or the handler was ended: what was there before stays.
\* The file may have been saved, and only its copy in the database not.
WaitFails ==
    /\ busy # Nothing /\ busy' = Nothing
    /\ \/ Mute
       \/ busy.op \in FileKinds /\ sent' = Preview(busy.op, busy.draft, Everyone)
    /\ SameScreen
    /\ UNCHANGED <<sub, jobs, typed>> /\ SamePages

CancelPhotos ==
    /\ busy = Nothing
    /\ \/ mode \in {"ocr_input", "ocr_preview"} /\ Opens("admin_menu", {"ocr"})
       \/ /\ mode \in {"summary_input", "summary_preview", "json_input", "json_preview"}
          /\ Screen("admin_menu", {"summary"})
          /\ images' = <<>> /\ sheet' = {}
          /\ Same /\ Mute /\ UNCHANGED typed

Applies(kind) ==
    /\ Waits("apply", drafts[kind])
    /\ sent' = Preview(kind, drafts[kind], Everyone)

\* What is saved is the draft; the scenario waits for the result.
ConfirmPhotos ==
    /\ busy = Nothing
    /\ \/ mode = "ocr_preview" /\ Applies("ocr")
       \/ mode \in {"summary_preview", "json_preview"} /\ Applies("summary")
    /\ SameScreen
    /\ UNCHANGED <<sub, jobs, typed>> /\ SamePages

Applied ==
    /\ busy.op = "apply" /\ busy' = Nothing
    /\ IF mode = "ocr_preview" THEN Screen("admin_menu", {"ocr"}) /\ SamePages
       ELSE Screen("admin_menu", {"summary"}) /\ images' = <<>> /\ sheet' = {}
    /\ Mute /\ UNCHANGED <<sub, jobs, typed>>

-----------------------------------------------------------------------------
(* The file of lesson counters: import, add or edit, delete *)

Answered(k) == Len(drafts[k]) = Answers[k]

AskImport ==
    /\ Heeded
    /\ Opens("import_input", {"import"})

Import ==
    /\ busy = Nothing /\ mode = "import_input" /\ Types
    /\ Previewed("import_preview", "import", <<Message>>)
    /\ Same /\ SamePages /\ Mute

CancelImport ==
    /\ busy = Nothing /\ mode \in {"import_input", "import_preview"}
    /\ Opens("admin_menu", {"import"})

\* Mutant: the form goes on where it was left.
LessonGoesOn(k) ==
    /\ Heeded
    /\ IF k \in DOMAIN drafts THEN Screen(k, {}) ELSE Begins(k, k)
    /\ Quiet

AskLesson(k) ==
    /\ Heeded
    /\ Begins(k, k) /\ Quiet

\* The next answer of the form; the last one is followed by the preview.
Answer(k) ==
    /\ busy = Nothing /\ mode = k /\ Types /\ ~Answered(k)
    /\ LET d == Append(drafts[k], Message) IN
          /\ drafts' = Put(drafts, k, d)
          /\ IF Len(d) = Answers[k] THEN Shows(Preview(k, d, Everyone))
             ELSE shown' = NoPreview /\ lost' = FALSE
    /\ UNCHANGED <<mode, choice, target, defaulted>>
    /\ Same /\ SamePages /\ Mute

CancelLesson(k) ==
    /\ busy = Nothing /\ mode = k
    /\ Opens("admin_menu", {k})

\* The file is read, the form entered; what follows may find the result wrong or fail.
ConfirmFile ==
    /\ busy = Nothing
    /\ \/ mode \in DOMAIN Answers /\ Answered(mode) /\ Waits(mode, drafts[mode])
       \/ mode = "import_preview" /\ Waits("import", drafts["import"])
    /\ SameScreen /\ Mute /\ UNCHANGED <<sub, jobs, typed>> /\ SamePages

FileSaved ==
    /\ busy.op \in FileKinds /\ busy' = Nothing
    /\ \/ sent' = Preview(busy.op, busy.draft, Everyone)
       \/ busy.op # "import" /\ Mute
    /\ Screen("admin_menu", {busy.op})
    /\ UNCHANGED <<sub, jobs, typed>> /\ SamePages

-----------------------------------------------------------------------------
\* Modes, drafts and jobs live in memory only.
Restart ==
    /\ Screen("main_menu", Kinds)
    /\ images' = <<>> /\ sheet' = {} /\ jobs' = {} /\ busy' = Nothing
    /\ Mute /\ UNCHANGED <<sub, typed>>

Targets == [platform : Platforms, audience : Audiences]

Next ==
    \/ Start \/ ToMenu \/ LeaveChoice \/ ShowScreen \/ AskSticker \/ Subscribe \/ Choose
    \/ Unsubscribe \/ AskRoom \/ RoomGiven \/ AskSearch \/ Search
    \/ AskReport \/ ReportTyped \/ CancelReport \/ SendReport
    \/ AdminMenu \/ AdminScreen \/ AskUser \/ FindUser \/ LeaveResults
    \/ \E name \in Jobs : StartJob(name) \/ JobEnds(name)
    \/ AskCampaign \/ CancelCampaign \/ CampaignTyped \/ CampaignAgain \/ SendCampaign
    \/ \E to \in Targets : CampaignTarget(to)
    \/ AskPhoto \/ Photo \/ AskSummary \/ Page \/ AskJson \/ Json
    \/ Recognised \/ WaitFails \/ CancelPhotos \/ ConfirmPhotos \/ Applied
    \/ AskImport \/ Import \/ CancelImport
    \/ \E k \in DOMAIN Answers : AskLesson(k) \/ Answer(k) \/ CancelLesson(k)
    \/ ConfirmFile \/ FileSaved \/ Restart

\* The scenario whose draft a mode is about.
DraftOf ==
    [report_confirm |-> "report", broadcast_preview |-> "broadcast",
     ocr_preview |-> "ocr", summary_preview |-> "summary", json_preview |-> "summary",
     import_preview |-> "import", lesson |-> "lesson", delete |-> "delete",
     delete_one |-> "delete_one", user_results |-> "query"]

\* A mode and its draft come and go together, whatever buttons of old screens are
\* pressed: a question is asked about a draft that is there (for one that is gone the
\* handler has its "the data is out of date"), and unless its preview was lost, about the
\* draft that was shown.
QuestionAboutDraft ==
    mode \in DOMAIN DraftOf =>
        /\ DraftOf[mode] \in DOMAIN drafts
        /\ ~lost =>
             /\ shown # NoPreview => shown.kind = DraftOf[mode] /\ shown.draft = drafts[shown.kind]
             /\ mode \notin DOMAIN Answers \cup {"user_results"} => shown # NoPreview

\* What leaves the dialogue is what the preview that stands shows, target and all, unless
\* the preview of the draft was lost; a campaign that was shown again after its first
\* preview goes to the platform that had been chosen, and shows all of them.
SentAsShown ==
    [][sent' # NoPreview =>
        \/ sent' = shown
        \/ defaulted /\ sent' = [shown EXCEPT !.to.platform = target.platform]
        \/ lost]_vars

\* A summary is made of the pages sent since the scenario was entered.
OneSheet == "summary" \in DOMAIN drafts => ToSet(drafts["summary"]) \subseteq sheet

Spec == Init /\ [][Next]_vars
=============================================================================
