------------------------------- MODULE MCBots -------------------------------
(***************************************************************************)
(* The dialogues of the two bots for TLC.  A behaviour plays one of six    *)
(* parts: the VK dialogue, the photos of an administrator in Telegram, his *)
(* other scenarios there, the reports of users, the donations, a chat of   *)
(* many.  They share no state, and the other parts stand still.            *)
(***************************************************************************)
EXTENDS Naturals

CONSTANTS
    h1, h2,
    Platforms, Audiences, Jobs, MaxTyped, MaxPages,   \* VkDialogue
    Handlers, MaxPhotos, MaxSheet, MaxStops,                       \* TelegramPhotos
    Tasks, Addressees, MaxTexts, MaxForms, MaxResets,              \* TelegramDialogue
    VkUsers, TelegramUsers, Operators, Bot,
    MaxReported, MaxAnswers, MaxBreakdowns,                        \* Feedback
    Charges, Treasurers, MaxSetbacks, MaxRows,                     \* Donations
    Slots, People, Choices, MaxCommands, MaxFailures               \* GroupChats

(* A chat without a row has no subscription that looks like one. *)
ASSUME ChoicesAssumption == "no row" \notin Choices

(* The forms ask for more; what is next does not depend on how many are left. *)
ShortForms == [lesson |-> 2, delete |-> 1, delete_one |-> 2]
ShortSteps == [lesson |-> 3, delete |-> 1, delete_one |-> 2]

(* Scenarios meet in the order in which a text is offered to them. *)
Companies == {{"report", "lesson"}, {"delete", "audience"}, {"delete_one", "import"},
              {"donate", "import"}, {"campaign", "users"}}

VARIABLES
    part,
    mode, vkDrafts, target, vkImages, sub, choice, jobs, busy, shown, sent, defaulted, lost, vkSheet, typed,
    waiting, drafts, images, lock, album, handler, previews, applying, saved, sheet, crossed, photos, stops,
    scenarios, awaiting, written, forms, task, preview, out, gone, unseen, texts, resets,
    rows, announced, work, delivered, answers, breakdowns,
    charges, messages, donations, refunds, setbacks,
    network, rights, invited, row, handlers, decided, outrun, commands, failures

Vk == INSTANCE VkDialogue WITH Answers <- ShortForms, drafts <- vkDrafts, images <- vkImages, sheet <- vkSheet
Photos == INSTANCE TelegramPhotos
Dialogue == INSTANCE TelegramDialogue WITH
    Plays <- Companies, Steps <- ShortSteps, Targets <- Addressees, Everyone <- "all"
Reports == INSTANCE Feedback
Stars == INSTANCE Donations
Chats == INSTANCE GroupChats WITH overtaken <- outrun

vkVars == <<mode, vkDrafts, target, vkImages, sub, choice, jobs, busy, shown, sent, defaulted, lost, vkSheet, typed>>
photoVars == <<waiting, drafts, images, lock, album, handler, previews, applying, saved, sheet, crossed, photos, stops>>
dialogueVars == <<scenarios, awaiting, written, forms, task, preview, out, gone, unseen, texts, resets>>
reportVars == <<rows, announced, work, delivered, answers, breakdowns>>
starVars == <<charges, messages, donations, refunds, setbacks>>
chatVars == <<network, rights, invited, row, handlers, decided, outrun, commands, failures>>
vars == <<part, vkVars, photoVars, dialogueVars, reportVars, starVars, chatVars>>

Init ==
    /\ part \in {"vk", "photos", "dialogue", "reports", "stars", "chats"}
    /\ Vk!Init
    /\ Photos!Init
    /\ Dialogue!Init
    /\ Reports!Init
    /\ Stars!Init
    /\ Chats!Init
    /\ sub = "teacher"   \* the others are a few steps away
    /\ part # "chats" => network = "vk" /\ rights = {CHOOSE p \in People : TRUE}
    /\ part # "dialogue" => scenarios = CHOOSE play \in Companies : TRUE

Next ==
    /\ UNCHANGED part
    /\ \/ part = "vk" /\ Vk!Next /\ UNCHANGED <<photoVars, dialogueVars, reportVars, starVars, chatVars>>
       \/ part = "photos" /\ Photos!Next /\ UNCHANGED <<vkVars, dialogueVars, reportVars, starVars, chatVars>>
       \/ part = "dialogue" /\ Dialogue!Next /\ UNCHANGED <<vkVars, photoVars, reportVars, starVars, chatVars>>
       \/ part = "reports" /\ Reports!Next /\ UNCHANGED <<vkVars, photoVars, dialogueVars, starVars, chatVars>>
       \/ part = "stars" /\ Stars!Next /\ UNCHANGED <<vkVars, photoVars, dialogueVars, reportVars, chatVars>>
       \/ part = "chats" /\ Chats!Next /\ UNCHANGED <<vkVars, photoVars, dialogueVars, reportVars, starVars>>

Spec == Init /\ [][Next]_vars

(* What the last step let out is read by no step, nor is a preview once a newer one was lost. *)
View ==
    <<part, mode, vkDrafts, target, vkImages, sub, choice, jobs, busy,
      IF lost THEN Vk!NoPreview ELSE shown, defaulted, lost, vkSheet, typed,
      waiting, drafts, images, lock, album, handler, previews, saved, sheet, crossed, photos, stops,
      scenarios, awaiting, written, forms, task, preview, gone, unseen, texts, resets,
      reportVars, starVars, chatVars>>
-----------------------------------------------------------------------------
\* A bot that asks whether to go on has the draft it asks about (vk_bot.py:2110-2987), and
\* a summary is made of the photos of one sheet, each once (telegram_bot.py:4850, vk_bot.py:2430).
DraftsHold == Vk!QuestionAboutDraft /\ Vk!OneSheet /\ Photos!WholeSheet

\* What is sent, saved or written on a confirmation is what the last preview showed, unless
\* that was lost, is on its way or came out of order; a VK campaign that was shown again goes
\* to the platform chosen before, and a Telegram form that is being answered again is taken
\* as far as it is (vk_bot.py:2116-2248, telegram_bot.py:2056-2075, 4272-4435, 5197-5229).
ConfirmedAsShown == Vk!SentAsShown /\ Photos!SavedAsShown /\ Dialogue!SentAsShown

\* A draft is saved once and a text lets one message out, however often the buttons
\* are pressed (telegram_bot.py:4055-4083, 3467-3490).
ConfirmedOnce == Photos!SavedOnce /\ Dialogue!TextUsedOnce

\* What the bot has said is done is done: a report counts as answered when its author has
\* the answer, a donation as returned when Telegram has paid it back, and a chat gets what
\* its administrators chose, although each is written apart from the call or the reading it
\* goes with (telegram_bot.py:3085-3130, 2782-2862, 1200-1218).
DoneAsTold ==
    /\ Reports!AnswersArrived
    /\ Reports!RightOneMarked
    /\ Stars!RefundsAreReal
    /\ Chats!ChoiceKept
=============================================================================
