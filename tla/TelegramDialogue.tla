-------------------------- MODULE TelegramDialogue --------------------------
(***************************************************************************)
(* Texts and buttons of an administrator in the Telegram bot                *)
(* (telegram_bot.py): reports, campaigns, lesson forms, imports of lessons, *)
(* searches, the subscription of a room, donations.                         *)
(*                                                                         *)
(* There is no mode: a scenario waits for a text on its own (the awaiting_* *)
(* sets), several may wait, and a text goes to the first of them in the     *)
(* order of handle_text_message.  Handlers interleave where they wait: a    *)
(* name is looked up with a form in hand, a preview is on its way, a file   *)
(* is read long before it is written.  Buttons of old messages may be       *)
(* pressed at any time.  Photos have a module of their own.                 *)
(*                                                                         *)
(* A draft is a sequence of texts, each named by its number (0 is the       *)
(* answer of the button "skip"); the draft of a campaign is its text and    *)
(* its target.  A form is an object: handlers that hold it change it in     *)
(* place, and what one of them stores may be a form of long ago.            *)
(***************************************************************************)
EXTENDS Naturals, Sequences, SequencesExt, FiniteSets

CONSTANTS
    Plays,          \* sets of scenarios; a behaviour plays one of them
    Steps,          \* form -> how many answers it asks for
    Targets,        \* platforms and audiences of a campaign, Everyone among them
    Everyone,
    Tasks,          \* handlers that may be at work at a time
    MaxTexts,       \* bound: texts
    MaxForms,       \* bound: forms that are opened
    MaxResets       \* bound: restarts

VARIABLES
    scenarios,      \* those played
    awaiting,       \* the awaiting_* sets of this administrator
    written,        \* scenario -> draft (admin_*_drafts, user_report_drafts); a form's number
    forms,          \* the forms that were opened, by their numbers
    task,           \* the handlers at work
    preview,        \* scenario -> the draft whose preview was shown last
    out,            \* what the last step let out: sent, set, or on its way to the file
    gone,           \* the texts of reports, campaigns and settings that are out
    unseen,         \* scenarios whose draft was another when a preview arrived, or was lost
    texts, resets   \* counters of the bounds

vars == <<scenarios, awaiting, written, forms, task, preview, out, gone, unseen, texts, resets>>

Order == <<"report", "audience", "lesson", "delete", "delete_one", "donate",
           "import", "campaign", "users">>
Forms == {"lesson", "delete", "delete_one"}
Files == Forms \cup {"import"}
\* A draft of these is shown and has to be confirmed.
Confirmed == Files \cup {"report", "campaign"}

Free == [pc |-> "free", kind |-> "none", draft |-> <<>>, form |-> 0]
NoOut == [kind |-> "none", draft |-> <<>>]
None == [k \in {} |-> <<>>]

Without(f, kinds) == [k \in DOMAIN f \ kinds |-> f[k]]
With(f, kind, d) == [k \in DOMAIN f \cup {kind} |-> IF k = kind THEN d ELSE f[k]]

\* `step` is the number of the last answer; later ones of an earlier round may be there.
Blank(k) == [kind |-> k, answers |-> <<>>, step |-> 0]
Answered(f, a) ==
    [kind |-> f.kind, step |-> f.step + 1,
     answers |-> IF f.step < Len(f.answers) THEN ReplaceAt(f.answers, f.step + 1, a)
                 ELSE Append(f.answers, a)]
Form(k) == forms[written[k]]
Draft(k) == IF k \in Forms THEN Form(k).answers ELSE written[k]
Unfinished(k) == k \in Forms /\ Form(k).step # Steps[k]

Init ==
    /\ scenarios \in Plays
    /\ awaiting = {} /\ written = None /\ forms = <<>> /\ task = [t \in Tasks |-> Free]
    /\ preview = None /\ out = NoOut /\ gone = <<>> /\ unseen = {}
    /\ texts = 0 /\ resets = 0

At(t, pc) == task[t].pc = pc
Goes(t, pc, k, d, i) ==
    task' = [task EXCEPT ![t] = [pc |-> pc, kind |-> k, draft |-> d, form |-> i]]
Ends(t) == task' = [task EXCEPT ![t] = Free]
Showing(k) == {t \in Tasks : At(t, "showing") /\ task[t].kind = k}
Out(k, d) == out' = [kind |-> k, draft |-> d]
Leaves(k, d) == Out(k, d) /\ gone' = Append(gone, d[1])
Silent == out' = NoOut /\ UNCHANGED gone
Text == texts + 1
Types == texts < MaxTexts /\ texts' = texts + 1
NoText == UNCHANGED <<texts, resets>>

-----------------------------------------------------------------------------
(* Buttons and commands that change what is expected *)

Button(w, d) ==
    /\ awaiting' = w /\ written' = d
    /\ Silent /\ NoText /\ UNCHANGED <<task, preview, unseen>>

\* A scenario is opened.  The last report stays, with its buttons.
Ask(k) ==
    /\ k \notin Forms /\ UNCHANGED forms
    /\ Button(awaiting \cup {k}, IF k = "report" THEN written ELSE Without(written, {k}))

AskForm(k) ==
    /\ k \in Forms
    /\ Len(forms) < MaxForms /\ forms' = Append(forms, Blank(k))
    /\ Button(awaiting \cup {k}, With(written, k, Len(forms) + 1))

Cancel(k) == Button(awaiting \ {k}, Without(written, {k})) /\ UNCHANGED forms

\* "close" and "back": three scenarios end, whatever else waits.
Back == LET ends == {"users", "campaign", "lesson"} IN
        Button(awaiting \ ends, Without(written, ends)) /\ UNCHANGED forms

\* "/start", "/cancel", the menu.
Reset == Button({}, None) /\ UNCHANGED forms

\* The number of lessons that are over need not be given: it is the last but one answer.
Skip ==
    /\ "lesson" \in DOMAIN written /\ Form("lesson").step = Steps["lesson"] - 2
    /\ forms' = [forms EXCEPT ![written["lesson"]] = Answered(@, 0)]
    /\ Button(awaiting, written)

-----------------------------------------------------------------------------
(* A text, and the scenario that takes it *)

\* A form that waits for its confirmation lets texts through.
Asking == {k \in awaiting : k \in Forms => Unfinished(k)}
Takes(k) == k \in Asking /\ \A i, j \in DOMAIN Order :
                                Order[i] = k /\ Order[j] \in Asking => i <= j

\* The draft is replaced, then its preview is sent.
Stores(t, k, d) ==
    /\ written' = With(written, k, d) /\ awaiting' = awaiting \ {k}
    /\ IF k \in Confirmed THEN Goes(t, "showing", k, d, 0) ELSE Ends(t)
    /\ Silent /\ UNCHANGED <<forms, preview, unseen>>

\* A form is changed and stored, then its preview or the next question is sent.
StoresForm(t, k, i, f) ==
    /\ forms' = [forms EXCEPT ![i] = f] /\ written' = With(written, k, i)
    /\ IF f.step = Steps[k] THEN Goes(t, "showing", k, f.answers, 0) ELSE Ends(t)
    /\ Silent /\ UNCHANGED <<awaiting, preview, unseen>>

Given(t, k) == At(t, "free") /\ Takes(k) /\ Types /\ UNCHANGED resets

\* Names of rooms and users, and those of groups, have to be looked up first.
LooksUp(t, k, i) ==
    /\ Goes(t, "looking", k, <<Text>>, i)
    /\ Silent /\ UNCHANGED <<awaiting, written, forms, preview, unseen>>
LookUp(t, k) == k \in {"audience", "users"} /\ Given(t, k) /\ LooksUp(t, k, 0)
LookGroupUp(t, k) ==
    /\ k \in Forms /\ Given(t, k)
    /\ Form(k).step = 0 /\ LooksUp(t, k, written[k])

Answer(t, k) ==
    /\ k \in Forms /\ Given(t, k)
    /\ Form(k).step # 0 /\ StoresForm(t, k, written[k], Answered(Form(k), Text))

NewDraft(k) == IF k = "campaign" THEN <<Text, Everyone>> ELSE <<Text>>
TakeText(t, k) ==
    /\ k \in {"report", "import", "campaign"} /\ Given(t, k)
    /\ Stores(t, k, NewDraft(k))

\* "/feedback text", "/bugreport text".
Report(t) ==
    /\ "report" \in scenarios /\ At(t, "free") /\ Types
    /\ UNCHANGED resets /\ Stores(t, "report", NewDraft("report"))

\* The invoice is sent at once.
Donate ==
    /\ Takes("donate") /\ Types
    /\ awaiting' = awaiting \ {"donate"}
    /\ Leaves("donate", <<Text>>)
    /\ UNCHANGED <<written, forms, task, preview, unseen, resets>>

\* The form of before the search gets the group and goes on with the question after it.
\* Answers given meanwhile stay in it; it is stored whatever was cancelled or opened since.
GroupFound(t) ==
    /\ At(t, "looking") /\ task[t].kind \in Forms /\ NoText
    /\ LET i == task[t].form IN
       StoresForm(t, task[t].kind, i, Answered([forms[i] EXCEPT !.step = 0], task[t].draft[1]))

UserFound(t) ==
    /\ At(t, "looking") /\ task[t].kind = "users" /\ NoText
    /\ Stores(t, "users", task[t].draft)

RoomFound(t) ==
    /\ At(t, "looking") /\ task[t].kind = "audience" /\ Ends(t)
    /\ awaiting' = awaiting \ {"audience"}
    /\ Leaves("audience", task[t].draft)
    /\ NoText /\ UNCHANGED <<written, forms, preview, unseen>>

NotFound(t) ==
    /\ At(t, "looking") /\ Ends(t)
    /\ IF task[t].kind = "users"
       THEN awaiting' = awaiting \ {"users"} /\ written' = Without(written, {"users"})
       ELSE UNCHANGED <<awaiting, written>>
    /\ Silent /\ NoText /\ UNCHANGED <<forms, preview, unseen>>

\* The target of a campaign is changed in its draft, then its preview.
Retarget(t, to) ==
    /\ At(t, "free") /\ "campaign" \in DOMAIN written \cap DOMAIN preview
    /\ LET d == <<written["campaign"][1], to>> IN
          /\ written' = With(written, "campaign", d)
          /\ Goes(t, "showing", "campaign", d, 0)
    /\ Silent /\ NoText /\ UNCHANGED <<awaiting, forms, preview, unseen>>

\* A preview arrives, or Telegram has refused it: the draft stays, and so does the
\* preview of before, with its buttons.
Compares(k) ==
    unseen' = IF k \in DOMAIN written /\ (k \notin DOMAIN preview' \/ preview'[k] # Draft(k))
              THEN unseen \cup {k} ELSE unseen \ {k}
Shown(t) ==
    /\ At(t, "showing") /\ Ends(t) /\ Compares(task[t].kind)
    /\ Silent /\ NoText /\ UNCHANGED <<awaiting, written, forms>>
Show(t) == preview' = With(preview, task[t].kind, task[t].draft) /\ Shown(t)
Lost(t) == UNCHANGED preview /\ Shown(t)

-----------------------------------------------------------------------------
(* Confirmation: the buttons of a preview, the last or an earlier one *)

Pressed(k) == k \in DOMAIN written \cap DOMAIN preview

\* A report and a campaign are taken out of their place before anything is awaited;
\* a failure after that loses the report.
Send(k) ==
    /\ k \in {"report", "campaign"} /\ Pressed(k)
    /\ awaiting' = IF k = "campaign" THEN awaiting \ {k} ELSE awaiting
    /\ written' = Without(written, {k})
    /\ Leaves(k, written[k]) \/ Silent
    /\ NoText /\ UNCHANGED <<forms, task, preview, unseen>>

Writes(t, k, pc) ==
    /\ At(t, "free") /\ Pressed(k)
    /\ Goes(t, pc, k, Draft(k), 0)
    /\ Out(k, Draft(k)) /\ UNCHANGED gone
    /\ NoText /\ UNCHANGED <<awaiting, written, forms, preview, unseen>>

\* The file is read and the draft entered.  Nobody asks how far the form is: a lesson
\* passes with its name and the numbers left out; the numbers are its last two answers.
Confirm(t) ==
    \/ Writes(t, "import", "writing")
    \/ Writes(t, "lesson", "writing") /\ Len(Draft("lesson")) >= Steps["lesson"] - 2

\* Deletions are written before anything is awaited.  Without its group, the form of a
\* group deletes the groups that have no number; a lesson is deleted by its whole name.
Delete(t) ==
    \/ Writes(t, "delete", "closing")
    \/ Writes(t, "delete_one", "closing") /\ Len(Draft("delete_one")) = Steps["delete_one"]

\* "Save anyway" validates nothing.
ConfirmForced(t) == Writes(t, "lesson", "closing")

Write(t) ==
    /\ At(t, "writing") /\ task' = [task EXCEPT ![t].pc = "closing"]
    /\ Silent /\ NoText /\ UNCHANGED <<awaiting, written, forms, preview, unseen>>

\* Validation, lookup or the write failed, or the database did not take an import.
NotWritten(t) ==
    /\ At(t, "writing") \/ (At(t, "closing") /\ task[t].kind = "import")
    /\ Ends(t)
    /\ Silent /\ NoText /\ UNCHANGED <<awaiting, written, forms, preview, unseen>>

\* The scenario ends, with whatever draft it has by now.
Close(t) ==
    /\ At(t, "closing") /\ Ends(t)
    /\ awaiting' = awaiting \ {task[t].kind}
    /\ written' = Without(written, {task[t].kind})
    /\ Silent /\ NoText /\ UNCHANGED <<forms, preview, unseen>>

-----------------------------------------------------------------------------
\* All of it lives in memory only.
Restart ==
    /\ resets < MaxResets /\ resets' = resets + 1
    /\ awaiting' = {} /\ written' = None /\ forms' = <<>> /\ task' = [t \in Tasks |-> Free]
    /\ Silent /\ UNCHANGED <<preview, unseen, texts>>

Next ==
    /\ UNCHANGED scenarios
    /\ \/ Back \/ Reset \/ Skip \/ Donate \/ Restart
       \/ \E k \in scenarios : Ask(k) \/ AskForm(k) \/ Cancel(k) \/ Send(k)
       \/ \E t \in Tasks, k \in scenarios :
             LookUp(t, k) \/ LookGroupUp(t, k) \/ Answer(t, k) \/ TakeText(t, k)
       \/ \E t \in Tasks, to \in Targets : Retarget(t, to)
       \/ \E t \in Tasks :
             \/ Report(t) \/ GroupFound(t) \/ UserFound(t) \/ RoomFound(t) \/ NotFound(t)
             \/ Show(t) \/ Lost(t)
             \/ Confirm(t) \/ Delete(t) \/ ConfirmForced(t)
             \/ Write(t) \/ NotWritten(t) \/ Close(t)

Spec == Init /\ [][Next]_vars

-----------------------------------------------------------------------------
\* The last preview shows the draft, a newer one is on its way, or one was lost or
\* arrived after a newer one.
AsShown(k, d) ==
    \/ k \in DOMAIN preview /\ d = preview[k]
    \/ Showing(k) # {} \/ k \in unseen

\* What is sent or saved after a confirmation is what was shown for it last, whatever
\* was opened, cancelled and answered in between; except that a form which is being
\* answered again is taken as far as it is.
SentAsShown ==
    [][out'.kind \in Confirmed => AsShown(out'.kind, out'.draft) \/ Unfinished(out'.kind)]_vars

\* A text ends up in one place, once: a second tap or a second scenario that waits for
\* a text never sends what has been sent.
TextUsedOnce == IsInjective(gone)
=============================================================================
