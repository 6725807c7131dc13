# A verification project for the MISIS schedule bot

TLA+ models, TLC runs and TLAPS proofs for the program in this repository: a
Telegram and VK bot that follows the timetable of a college and a university,
tells subscribers what changes, counts the lessons a group has had, and serves a
mini app and a web configurator.  Paths below are relative to the repository
root; `src/src/` is the Python package of the bot.

Run a model with `tlc -config X.cfg M`, check a proof with `tlapm M.tla`.

## 1. Inventory

Three kinds of process share one SQLite file; two of them share a JSON file of lesson
counters and the table of groups: the **bot** (scheduler, two messenger runtimes, delivery
service, consumers of RabbitMQ), the **web configurator** (an administrator's HTTP
interface) and the **mini app API**.  In a process everything is one asyncio loop: code
runs without interruption between two awaits, and every await on SQLite, HTTP or RabbitMQ
is a place where another coroutine, a cancellation or a crash comes in.  The processes
interleave everywhere.

| component | state | operations | what is hard |
|---|---|---|---|
| delivery outbox table (`outbox_store.py`) | `delivery_outbox` rows: status, id, lease, times | enqueue_many, reserve_due, claim, renew, finish, release, purge | each is one transaction; everything between two of them is not |
| delivery service (`delivery_outbox.py`, `outbox_context.py`) | semaphores, `_blocked_until`, tasks, waiters, names of requests | enqueue, pump, process with heartbeat, wait, stop, cleanup | RabbitMQ redelivers, SQLite polls beside it, calls outlive leases, answers are lost, callers share an Event |
| RabbitMQ (`message_broker.py`) | queues, unacknowledged messages, attempts of a job | publish, consume, acknowledge, retry, reject | duplicates, lost connections, republication before acknowledgement |
| VK runtime (`vk_runtime.py`) | `_ts`, position file, window of known updates, dialogue locks, batches | long poll, dispatch, checkpoint, send in parts, stop | position against handlers still at work, repeated updates, locks that are dropped, replies repeated after a crash |
| Telegram runtime (`telegram_runtime.py`, `main.py`) | offset, tasks | getUpdates, handlers, supervisor | an answer that is lost confirms nothing twice |
| VK dialogues (`vk_bot.py`) | `peer_modes`, drafts, running jobs | every message is a step of a mode | old keyboards stay on the screen |
| Telegram dialogues (`telegram_bot.py`) | `awaiting_*` sets, drafts, locks | texts, photos, buttons | handlers of one user interleave at every await |
| reports, donations, chats (both bots) | `feedback`, `star_donations`, the chat's row | answer, refund, choose | what is delivered and what is marked are two steps |
| schedule synchronisation (`scheduler.py`, `schedule_service.py`) | snapshots, `change_events`, teacher timers | pass, nightly baseline, import, timers | record, announce and baseline are three transactions; imports and timers take no lock; empty pages; midnight |
| notifier (`notifier.py`) | none but the outbox | broadcast, notify_admins | one transaction per audience |
| lesson counters (`lesson_counters.py`, `lesson_editor.py`) | JSON file, `daily_lesson_counter_logs` | daily run, edits | file and marks without a common transaction, two processes |
| accounts (`account_service.py`, `db.py`, `miniapp_api/app.py`) | accounts, identities, subscriptions, link requests, `users` | subscribe, link, merge, unlink, promote, switch off | one primary subscription, mirrored in `users`; requests read before their transaction begins |
| schedule archive (`schedule_archive.py`, `archive_backfill.py`) | days, references, position of the backfill | save, promote, backfill | observations out of order, restarts |
| group catalog (`group_catalog.py`), directory of teachers (`schedule_search.py`) | names in memory and in tables | refresh, retry, promote subscribers | one site or department is away, a second writer, namesakes |
| photos (`ocr_import.py`, `ocr_schedule.py`) | drafts; the client and its cookies | recognise, merge, apply; sign in, rotate, drop | drafts get old; requests share a client that dies |
| system alerts, error reports (`system_status.py`, `error_reporting.py`) | streaks, states; windows, budget | report, alert; report, prune | one alert per transition in spite of failures |
| web configurator, mini app API | sessions | pages | second writers of the above |
| migrations (`db_migrations.py`, `Database.initialize`) | tables, columns, `alembic_version`, rows of `users` | stamp, revise, initialise | three processes start at once on one file; a crash between two statements; rows older than the revision that moves them |
| parsing, statistics | none | | sequential |

What makes each of them correct, in a sentence:

* **Delivery**: one handler at a time gives a message to the messenger; a dialogue
  is served in the order of its messages; "sent" is true; a second copy needs a
  lost answer; everything settles, and whoever waits for it hears of it.
* **Updates**: the position never passes an update whose handler has not ended;
  dialogues are handled in order; nothing the messenger keeps is lost; a reply is shown
  whole and once.
* **Dialogues**: a question has the draft it is about; what is confirmed is what was shown,
  and once; what the bot says is done is done.
* **Schedule**: each subscriber learns of each change near enough to matter, once,
  and of nothing that did not happen; teachers follow their groups.
* **Lessons**: a marked day is in the counters, once, and stays there.
* **Accounts**: one identity, one account; one primary subscription, equal to the
  one notifications are sent by; a link request works once and loses nothing.
* **Names**: what the sites showed is known or tried again; whoever waits under a name is
  moved to the right source, and an import comes to those who follow it.
* **Start after an update**: everyone from before has an account with his subscription, and
  the bot comes up, whoever initialises beside it.
* **Alerts, archive, jobs**: one alert a transition; the newest observation wins;
  a job runs until it succeeds or its attempts are used up.

`PROJECT.json` lists all components with their status, and the hazards at their lines.

## 2. Modules

    OutboxStore ------------ the table: one operator per transaction
      DeliveryOutbox ------- pump, broker, handlers, API, process, clock
        DeliveryPromise      what callers are promised; PromiseKept refines it
        DeliveryOutbox_proofs
    ScheduleSync ----------- one source: apply_snapshot and what runs beside it
      ScheduleSync_proofs
    Accounts --------------- identities, subscriptions, links, promotion, mini app
      Accounts_proofs
    VkUpdates, LessonCounters (parts of the unions below)
      VkUpdates_proofs, LessonCounters_proofs

    MCProgress ............. VkUpdates, TelegramPolling, BotReplies, TeacherDebounce,
                             OutboxWaiters, GeminiSession, SchemaUpgrade
      MCProgress_proofs
    MCBackground ........... LessonCounters, JobQueue, SystemAlerts, ErrorReports,
                             ScheduleArchive, GroupCatalog, TeacherDirectory, OcrImport
      MCBackground_proofs
    MCBots ................. VkDialogue, TelegramPhotos, TelegramDialogue, Feedback,
                             Donations, GroupChats
      MCBots_proofs

The last three are unions: their parts share no state, and `focus` (or `part`) chooses in
the initial state which one a behaviour is about; the others stand still.  So their states
add up and do not multiply, and one run answers one kind of question (what gets somewhere,
what works in the background, what dialogues do) about modules that fail independently.

**OutboxStore.**  `rows` is the table, a row its status, id, attempts and times;
`now` the clock every transaction reads.  `Expired`, `Reserved`, `Claimed`,
`Renewed`, `Finished`, `Released` and `Purged` are the tables after the
transactions of the same names.  A lease token is named by the handler that drew
it (the code draws a fresh UUID: a handler holds no older one).  LIMIT 50 is left
out: an instance has fewer rows.

**DeliveryOutbox.**  `workers` are the invocations of `process`, whatever started
them: a RabbitMQ message (`via = "queue"`, or `"lost"` once the connection that
carried it is gone) or the pump (`"local"`).  A step is the code between two
awaits: `Consume` up to the semaphore, `Claim` with the transaction and the start
of the call, `ApiAccepts`/`ApiAnswers`/`ApiRefuses`/`CallBreaks` the outside
world, `Finish`, `Record`.  `Heartbeat` and `HeartbeatDies` are the second task of
a handler.  `Cancel` distinguishes where the cancellation of a stop hits, because
the code does: inside claim, during the call, inside finish.  Assumptions:

* the API works on a call only while it is open; a broken call may have been taken;
* whether a broker is there is open at each publication;
* asyncio timers that are due fire before the clock goes on (`Tick`);
* the pool of `Workers` bounds the invocations at a time, and there is one pump (a
  single bot process; the web configurator only enqueues, `web_configurator/app.py:888`).

**DeliveryPromise.**  Every dialogue is a queue whose head may be taken any number
of times until it is concluded; "sent" needs a take; messages expire anywhere.

**VkUpdates.**  VK's history is `1..LastUpdate` and a position counts the updates
it has passed; the position in an answer is any later one.  `tasks` are the tasks
of the dispatcher with the lock each holds or waits for (`Dispatch` makes one or finds the update in the
window, `Dispatched` takes an answer from its first update to its last); a lock is named by the
task that created it, so that a dropped and re-created lock is another lock.  Every
update has an event id.  A handler that fails or exceeds its time has dealt with
its update, as the code has it.

**LessonCounters.**  The counters of a group are modelled by how often they contain
a day.  Reading and replacing the file is one synchronous call, hence atomic in its
process and not between processes.  `marks` is `daily_lesson_counter_logs`.
A group whose lessons the site does not give and no snapshot holds fails to be fetched.

**ScheduleSync.**  A snapshot says what each audience has on each date.  A call is
`apply_snapshot` (or one of its neighbours) at one of its awaits; `Start` to
`SaveBaseline` follow it, `Fail` is an exception or cancellation at any of them.
The lock of `sync_current_snapshot` keeps passes apart; imports, teacher timers,
the nightly job and administrators take no lock, here as in the code.  `told` is
what an audience may believe of a date: what it was told last, and what became
the baseline since without being news (it may have looked).  Broadcasts outside of
a delivery context have fresh identifiers, so that `twice` is a second message;
news is kept for all audiences, which of them has subscribers is left open.  The
nightly fallback is the nightly job.

**Accounts.**  `rows` is the table `users`, `subs` the subscriptions of an account, a function
from their keys (an account has one of a key) with `id` for the order of the table, `owner` the
account of an identity.  A method of `Database` begins with
a write and is one action; a request of the mini app reads its session, then the rows its
handler looks at, and only then begins its transaction: `Authenticate`, `Look...` and the
handler are three actions, and other requests come in between.  An id is not given twice, so a
request whose row was deleted finds nothing, also when the source is subscribed to again (`there`).
`raced`, `late`, `strayed` and `contested` name what such an interleaving has spoiled, and the
account of an identity that leaves a spoiled one takes the mark along; the properties hold for
everybody else.  Foreign keys are declared and never enforced, as in the code.

**OutboxWaiters.**  The callers of `wait` for one delivery, the `Event` they share, and
the pump that sets it for what another process has delivered.

**BotReplies.**  `vk_send_message`: parts that are queued in one transaction, the keyboard
that VK refuses, the retries of `vk_call_with_retry`, the update that is handled again
after a crash.  A row's name is made of the text, the keyboard and how often they occurred,
its `random_id` is drawn afresh: the first makes a repeated request the same row, the
second lets VK drop a copy.

**TelegramPolling.**  The offset of `getUpdates`; Telegram forgets what is below it, also
when its answer is lost.  Handlers outlive the polling, and die with the process.

**TeacherDebounce.**  `version` counts the changes of a teacher's groups, `seen` what the
last pass has read; a timer is set anew by each change, a running pass is not stopped.

**GeminiSession.**  The client all recognitions share, the lock under which one of them
signs in, the task of each client that writes its rotated cookies.  Cookies are numbered by
their age; `spoiled` says that the file has lost the newest ones by a failure.

**SchemaUpgrade.**  The bot migrates and initialises, its neighbours only initialise.  Each
statement of a schema is a step; the rows of a revision and its number are one.  The seven
revisions are five: those that create the archive are of one kind.  `cut` says that the first
revision or the stamp was interrupted, `excused` names rows that were too old to be moved.

**JobQueue, SystemAlerts, ErrorReports.**  A message carries the attempt of its job; a lost
channel gives it back while its handler goes on.  Reports of component states wait for one
lock, which is held over the record and the message.  Errors come from handlers and from
the log (in tasks of their own), before the start is over, after the stop has begun.

**ScheduleArchive.**  A snapshot is its source, time, kind and days.  `Given` says who has
contributed a day; `LeftBehind` names the rows that `UPDATE OR IGNORE` left under the
pending key.

**GroupCatalog, TeacherDirectory.**  What the sites publish changes at any time; a
department or a site is away; the pages of the web configurator replace the table of groups
with what they have read.  A name of the directory may mean two people.

**OcrImport.**  A snapshot is the days it has.  The draft of a photo is merged when it is
recognised and applied when it is confirmed: `late` and `moved` name the drafts that
something has overtaken.

**VkDialogue.**  One message of an administrator is one step: VK's dispatcher handles a
dialogue in order.  `mode` decides which branch of the handler a text comes to (`Turn`), a
draft is the sequence of messages it was made of, `busy` the wait of a handler that
may fail.  Screens on which the bot expects nothing are one mode.  Mode and draft are stored
before the preview is sent: `lost` says that VK did not take it, so that the new draft stands
under the old preview.  `defaulted` says that a campaign was shown again for all platforms
(after another text, or a message without one) while the chosen platform stayed stored.

**TelegramPhotos, TelegramDialogue.**  Telegram's handlers of one user interleave.  A
handler is followed through its waits; what a button does at once is a step.  A preview that
is on its way arrives (`Show`) or is refused by Telegram, whereupon the handler goes on as if it
had arrived (`Lost`; `safe_send_message` swallows the error).  `crossed` and `unseen` name the
scenarios whose draft was another when a preview arrived, or whose preview was lost.  The forms of
lessons are Python dicts that handlers share: `forms` are the objects, `written` holds the
number of the one that is stored, and a handler that looks for a group keeps the number, changes
that object when it has found one and stores it again (`GroupFound`), with whatever was answered
meanwhile, and whatever was opened or cancelled since.  The handlers of the confirm buttons ask
only for a draft: `Confirm`, `Delete` and `ConfirmForced` take a form as far as it is.  A lesson
without its subject or teacher is refused by the validation, a deletion of one lesson finds
nothing without both; a deletion of a group needs nothing (section 4).

**Feedback, Donations, GroupChats.**  What is delivered (an answer, a refund, a choice) and
what is marked in the table are two steps of a handler, and two handlers may be at work.

## 3. Runs

Each property of a passing run has a mutant in `PROJECT.json`: a plausible mistake
in the code (defined beside the original) under which the run fails.

| run | instance | shows |
|---|---|---|
| `outbox_safety` | two messages of a dialogue, two handlers, two faults, rows that are purged | exclusive handling, order, truth of "sent", duplicates only after a lost result, switch-off only after a recorded refusal, settled is final; the service implements `DeliveryPromise` |
| `outbox_liveness` | a reply of two parts, two early faults | every message settles; one that outlives its predecessor is sent or refused |
| `outbox_document` | calls longer than the lease | **violated**: two open calls for one message |
| `progress` | the seven parts of `MCProgress` | no update skipped or repeated too near, changes and callers are not forgotten, one watched client of Gemini and newest cookies, replies whole and once, everyone moved by an update; and all of them get to their end |
| `vk_locks` | lock limit 0 | **violated**: a dialogue overtakes itself |
| `background` | the eight parts of `MCBackground` | marked is counted and counted stays; jobs, outages and errors are known to whom they concern; the archive has the newest observation; names are tried again and matched to the right source |
| `lessons_overlap` | `LessonCounters` alone | **violated**: counted once |
| `schedule_sync` | two calls of every kind over two days, or one at a time for a university group of two subgroups | told once, told unless given up, quiet site, no subgroup forgotten |
| `schedule_lost` | one caller, one fault | **violated**: what is reported as sent was sent |
| `accounts` | three identities on two platforms, five mixes of operations | subscriptions and notifications agree, links lose nothing and work once |
| `accounts_choice` | two operations in the bots | **violated**: what is chosen in the bot is shown |
| `bots` | the six parts of `MCBots` | drafts, previews, confirmations; answers, refunds and choices are what was said |

What a conjunction of a union run says is written at its parts: `FailuresAreKnown` is
`JobKept`, `GaveUpHonestly`, `AdminsKnow` and `SilentWhenStopping` of its modules,
`TimesRespected` is `ArchiveIsLatest`, `ReferencesAreEarliest`, `ToldOnceInWindow` and
`BudgetHolds`, and so on.  A mutant is listed for each property; the
modules define further ones beside the definitions they replace.

**Bounds.**  Times are scaled: `Lease`, `CallTimeout` and `Beat` keep their order
(a call shorter than its lease, a beat shorter than both; `outbox_document` turns
the first round, as a document does: 600 s against 120 s), and the clock goes
far enough for a lease to run out, be taken over and run out again.  Two handlers
are enough for every relation between a handler and one that takes its lease, two
messages for every relation of a message to its predecessor; the proofs cover the rest.
In VK, a window of two keys and four updates overflows the window; `LockLimit` 0 stands for
5000 with 5000 idle dialogues.  Two Telegram updates are a confirmed and an unconfirmed one.
A reply has two or three parts, alike side by side or apart, and three faults: an
answer lost, a crash and an expiry.  Three callers share an Event: one that clears,
one that sleeps, one that comes later.  Two requests and two clients of Gemini: a failure
of an old client that meets the new one.  An update starts from four databases (empty, from before
alembic, of the first revision, of the last but one), with one profile, one neighbour and one crash.  The lesson instance has a group named by two
sources and one without lessons.  The two jobs are the two kinds there are (one
runs in place when it cannot be queued), with three attempts.  A component needs one failure or
two.  Three errors, a budget of two and a table of two: the table is pruned while all
are in their window.  Archives start empty, with two legacy rows of one source, or with
a pending one.  Two groups are one of a department and one of the university; three teachers two
of a name and a third of the surname.  Two administrators' sheets overlap in a group and
not in the day.  In `schedule_sync` the window is one date of two, so that
midnight moves it, and the two schedules change today and cancel tomorrow.  The accounts start
with two groups and a teacher, or with someone who never wrote; a mix of budgets
says how many operations in the bots, of the mini app, on links and logins a behaviour has:
five on links are, for one, create, create, confirm, confirm, unlink.  The theorems hold for
any budgets, users and sources.  Dialogues have three texts or photos:
a draft, the one that replaces it, and one that arrives meanwhile; two handlers; two forms that are
opened, the one a handler still holds and the one that has replaced it; two platforms and audiences; VK restarts
as often as it likes.  A text meets at most two scenarios that wait for it (`Companies`): which of two takes
it is decided by their places in `Order`, and each scenario is in a pair.  The forms
ask for one, two and three answers instead of one, three and five.  Histories saturate (`accepted` at 2) and bounds are guards named in the modules.

**Symmetry and views.**  Handlers, callers and link tokens are interchangeable, and SYMMETRY is used
in safety runs only.  `PresentTimes` identifies times that have passed, because the
code only compares them with the clock.  `View` of `ScheduleSync` keeps of
the current snapshot whether it has lessons, and of the events those of today:
`StaleSiteGlitch` and `Record` read nothing else.  `View` of `MCBots` leaves out what the last step
let out (`sent`, `applying`, `out`), which no step reads and the properties ask of every step, and the
preview that stands in VK once a newer one was lost: every step either keeps it lost or replaces it.
No liveness run has either.

**Deadlock** is off in the outbox runs (the clock stops at `MaxTime`, and a
paused platform waits for it), and wherever operations are counted (accounts, the unions):
the bounds end such a behaviour.

**Fairness.**  Outbox: the pump, the consumer, each handler, the restart and the clock
are weakly fair: asyncio runs what is ready, compose restarts the container, RabbitMQ
delivers what it keeps, and the timeouts of the code end a call that nobody answers.
After `FaultsUntil` SQLite writes and an open call is answered.  Cancellations, refusals
and producers owe nothing.  `EventuallyDelivered` says "sent or refused" of a message whose
time goes beyond the horizon: the short one ahead of it may expire.  VK: connecting, an
answer with news, an answer without, the handlers (`handler_timeout` ends them), the
bookkeeping at their end and the restart; VK owes no update.  Telegram: the supervisor, the
repetition after a pause, an answer when there is something to give (`MaxErrors` bounds the
failures between two answers), the handlers.  Teachers: timers and passes, which have
timeouts; changes owe nothing.  Callers: each goes on when the loop comes to it, and the 30 s of
`wait` end a sleep; the delivery itself is open.  Gemini: requests go on or fail by
their timeouts, and the cookie task of each client wakes up.  An update: each process takes its next step, and
compose starts what has ended; that people log in owes nothing.  The unions have the fairness
of each part in the behaviours that are about it.

## 4. What the runs found

1. `outbox_document`: the lease of a document depends on its heartbeat, and an
   SQLite error in `renew` ends the heartbeat unnoticed (`delivery_outbox.py:336`);
   the README promises that no second handler becomes active.
2. `vk_locks`: `_lock_for` drops a lock that was released and whose waiter has not
   run yet (`vk_runtime.py:584`); the next update of the dialogue gets another lock.
3. `lessons_overlap`: two runs that overlap both find no mark
   (`lesson_counters.py:212`) and both count the day; the docstring says exactly once.
4. `schedule_lost`: the change is recorded before its notifications are queued
   (`scheduler.py:693`); after a failure in between, the repeated import is taken for a
   duplicate, and the administrator reads that the changes were sent.
5. `accounts_choice`: a user of a group who chooses a teacher in the bot (or the other way
   round) is back at the group at once: both subscriptions are primary, and
   `_sync_primary_to_users` takes the older one (`account_service.py:439`).

`SubscribersKnowUnlessExcused`, `CountedTwiceOnlyIfExposed` and `DuplicateOnlyAfterLoss`
say the other half: apart from these windows, named by the history variables
`excused`, `exposed` and `lost`, the promise holds.

Behaviour that the models have, that a reader may not expect, and that a property excuses
by a history variable or leaves open:

* **Accounts.**  A link request outlives its account: confirming it leaves identities whose
  account does not exist.  Two confirmations at once both link, although
  `docs/miniapp-development-plan.md:117` wants the token used up atomically.  A pending teacher's promotion
  leaves the account's subscription under the old key.  A message whose handler read the
  row before a choice in the mini app writes the old source back (`vk_bot.register_user`).
  Muting the primary subscription has no effect.
* **VK dialogue.**  A campaign that is typed anew, or answered with a message without text (a
  photo, a sticker), is previewed for all platforms although the chosen one is kept
  (`vk_bot.py:2239-2247`); one confirmed while another
  broadcast runs is dropped (`:2210`).  If VK does not take a preview, the draft and the mode are
  stored already (`:2120-2129`), and the keyboard of the preview before confirms what it did not show.  The draft of a report is gone before it is stored.
* **Telegram dialogues.**  A group that is found late is entered in the form its handler holds
  (`telegram_bot.py:5225`, `:5345`, `:5390`): the answers given to it meanwhile stay, with another
  group, and until the form is finished an old button confirms that mixture.  The confirm buttons
  look at no step (`:4273`, `:4301`, `:4355`): when a form was opened, answered, shown and opened again, the
  button of the first preview acts on the second form.  For a deletion without its group this is group 0,
  and every group whose id is null or 0 goes (an import of a group that the catalogue does not
  know leaves such groups, `lesson_counters.py:776`), although `README.md:1324` speaks of a preview with a
  confirmation and of the group that was chosen.  `ConfirmedAsShown` therefore excepts forms that are
  `Unfinished`, and only those.  A preview that
  Telegram refuses leaves its draft under the one before (`:2061`).  A report that is confirmed by a button is stored with the bot's own id
  (`telegram_bot.py:3477`, `:3014`), so no answer reaches its author; pages of a summary are lost when two
  batches overlap (`:4852`); a draft is stored although `/cancel` came during the
  recognition; a file that is confirmed after an edit elsewhere overwrites the edit.
* **Reports, donations, chats.**  `get_latest_open_feedback` does not ask for open reports; a
  crash between refund and mark leaves the donation unmarked for ever; a
  message of any member that is registered while the chat is unsubscribed brings the
  subscription back (`telegram_bot.py:1203`).
* **Replies.**  `DeliveryExpiredError` is a `TimeoutError`, so `vk_call_with_retry` queues an
  expired request again for another day.  Telegram updates that were confirmed and not handled are
  not given again after a crash; `README.md` says so.
* **Photos.**  A draft is merged with the snapshot of its recognition: a page of the site, or
  another import, between it and the confirmation is overwritten.  A sheet that is confirmed
  after its group was promoted reaches nobody.  A late failure of an old Gemini client
  drops the new one.
* **Update.**  Revision 7 reads `users` before `initialize` has added the later columns and keys,
  and takes a query that fails for "no users" (`20261105_0007_accounts_and_subscriptions.py:23`),
  so profiles of an old database are not moved, although
  `docs/miniapp-development-plan.md:127` wants an account and a subscription for each.  A crash in
  the first revision or the stamp, or a neighbour that creates its tables while the bot takes the
  database for empty, leaves tables and an empty `alembic_version`: every later start fails.
* **Catalogue.**  The groups of a department that fails are gone until the retry; any refresh
  drops groups without an id; a teacher whom both sites list under one name is two
  people, and his subscribers are not moved.
* **Archive, alerts.**  `UPDATE OR IGNORE` may leave the newer row under the pending key; an
  alert whose record fails is lost until the component recovers; errors before
  `set_notifier` are only in the log.

## 5. Proofs

Each theorem is about the component's own specification, for every value of the constants
that satisfies the assumptions named in its module.

| module | theorem | says | inductive invariant |
|---|---|---|---|
| `DeliveryOutbox_proofs` | `TypeCorrect` | the state is well typed | itself |
| | `AlwaysCovered` | an open call is covered by its lease | `Covered` |
| | `OneHandler` | a delivery has at most one open call | `Covered` |
| | `DialogueOrder` | what is given to the API has nothing unsettled ahead of it | `Covered`, `IdsGiven` |
| | `SettledStaysSettled` | a settled row is final until purged | `Covered` |
| | `SentIsTrue` | "sent" was accepted | `AnswersAccepted` |
| | `DuplicatesExplained` | a second acceptance follows a lost result | `Covered`, `AcceptedAccounted` |
| | `OnlyFailuresDisable` | who is switched off was refused, and it is recorded | `RefusalsRecorded` |
| | `ServiceKeepsPromise` | the service implements `DeliveryPromise` | `Covered`, `PlacesGiven`, `ProcessedAtHead`, `AnswersAccepted` |
| `ScheduleSync_proofs` | `TypeCorrect` | the state is well typed | itself |
| | `AnnouncedOnce` | an audience gets a change once a day | `EventsOwned` |
| | `QuietSiteTellsNothing` | no news of a college's site that does not change | `NothingToTell` |
| | `SubscribersKnow` | a call that ends has told its news, or is excused | `Aware` |
| `LessonCounters_proofs` | `TypeCorrect` | the state is well typed | itself |
| | `NotCountedTwice` | twice only if exposed | `CountInv` |
| | `CountsKept` | no step takes a day out | `FreshCopies` |
| | `MarkedDaysAreCounted` | marked is counted | `CountInv`, `FreshCopies`, `MarksInv` |
| `VkUpdates_proofs` | `TypeCorrect` | the state is well typed | `PollInv` |
| | `RestartsSkipNothing` | the position in the file passes nothing unhandled | `PollInv` |
| | `RepeatsAreRare` | repetitions are farther apart than the window | `PollInv` |
| | `DialoguesInOrder` | a dialogue's updates one by one | `LockInv` |
| `Accounts_proofs` | `IdentitiesKeepAccounts` | an identity's account exists | `LinkInv` |
| | `RequestsJoinOnce` | a link joins one account | `LinkInv` |
| | `TypeCorrect` | the tables are well typed | `LinkInv`, `FollowInv`, `KnownInv` |
| | `GroupsAreSingle` | an account has one primary group at most | `LinkInv`, `FollowInv` |
| | `RowsFollowAccounts` | who can be reached is notified as the account has subscribed | `LinkInv`, `FollowInv` |
| | `LinksLoseNothing` | linking loses no subscription | `LinkInv`, `FollowInv` |
| `MCProgress_proofs` | `SharedInTurn` | no change of a teacher and no waiting caller is forgotten, requests share one watched client | `TeachersInv`, `WaitersInv`, `SessionInv` |
| | `CookiesAreNewest` | a login begins with the newest cookies | `SessionInv`, `CookiesInv` |
| | `MessagesAreKept` | what Telegram forgot was taken, and comes twice only after a restart; a reply in VK is shown whole, in order and once, its last part twice only after an answer that was lost for a day | `PollingInv`, `ReplyInv` |
| | `UpdatesLeaveNobody` | everyone is moved by an update, the first revision is in its own way only if it was cut short | `StagesInv`, `MovedInv`, `FlagsInv`, `DeadInv` |
| `MCBackground_proofs` | `FailuresAreTold` | jobs are kept, outages told, nothing is told while stopping | `QueuesInv`, `OutagesInv`, `ReporterInv` |
| | `OutagesAreConfirmed` | an outage is told after as many failures as it takes | `OutagesInv` |
| | `TimesAreKept` | the archive has the newest and the references the earliest observation; an error is told once in a window, within the budget | `ArchiveInv`, `ReferencesInv`, `ReporterInv` |
| | `NobodyIsLost` | what a site showed is known or tried again, a site that is away takes nobody along, a sheet is worked off | `CatalogueInv`, `DirectoryInv`, `PhotosInv` |
| | `NamesAreRight` | only the sole bearer of a name gets its subscribers, imports come to the source that is followed | `DirectoryInv`, `PhotosInv` |
| `MCBots_proofs` | `DoneIsDone` | answers, refunds and choices of chats are what was recorded | `ReportsInv`, `StarsInv`, `ChatsInv` |
| | `OnceConfirmed` | a draft is saved once, a text lets one message out | `TextsInv`, `PagesInv` |
| | `DraftsAreHeld` | what a screen asks about is there and was shown unless its preview was lost, a summary has one sheet's photos | `ScreenInv`, `BusyInv`, `VkSheetInv`, `PagesInv`, `KindsInv`, `SheetInv` |
| | `WhatWasShown` | what is confirmed is what the last preview showed, unless that one was lost, is on its way or came out of order, a campaign was shown again or a form is being answered | `ScreenInv`, `BusyInv`, `PagesInv`, `PreviewsInv`, `TextsInv`, `FormsInv`, `DisplayInv` |

**Outbox.**  `OneActiveHandler` is not inductive: a step that starts a second call is excluded
by the lease of the first, of which it says nothing.  `Covered` adds that an open
call's row is "processing" under the handler's own token, that its lease
reaches beyond the deadline of the call or the next beat, and that no lease reaches
beyond `now + Lease`.  `Tick` is where it is earned (the clock does not pass a timer
that is due), `Claim` where it is used (a lease that is taken over has run out, so the
call under it is over).  `DialogueOrder` needs ids as well: `IdsGiven` says that rows
have ids up to `lastId`, so that what is enqueued later is never ahead.
`DuplicatesExplained` adds that an accepted delivery has an open call, or its result,
or is in `lost`.

The refinement is proved step by step: every disjunct of `Next` is shown to be a step of the
promise or to leave its variables alone.  A call is "taken" at the head because a row in
"processing" has nothing active ahead of it (`ProcessedAtHead`, from the `NOT EXISTS` of
claim), and a late handler that still writes finds its row so or finds another's token.

**Schedule.**  `EventsOwned`: the unique index gives an event to one call, and what that call
has yet to announce is not queued.  `NothingToTell`: while the site is quiet a call compares
the page it knows with itself or with an empty one.  `Aware` is what the audiences may believe
at each await of a call: that what was the baseline when the call read it is still known,
and that its news, once computed, is pending or told.  It holds until `excused` does,
which never goes back.

**Lessons.**  `Sound` speaks of all copies of the file that anybody holds, since any of them may
become the file: a day that is not exposed is in none of them twice, and in none at all
before a run has counted it.  `CountsKept` needs only that who is fresh holds the file as it is.

**VK.**  `QueueInv` says that every update up to a batch's position is handled, was forgotten by
VK, or belongs to a task of that batch or one before it, and that only done tasks have left
the queue; so the position that follows the completed prefix passes nothing.  `Window` ties
`seen` to the last tasks.  `Dispatched` and `CompletePrefix` are a recursive function and a
least number; `LeastExists` (well-founded induction on the counterexamples) gives
the one unfolding and the other its bounds, and `Dispatch` keeps both invariants.  `LockInv`:
tasks begin in their order, and all that are at work on a dialogue hold or await the same lock.

**Accounts.**  `LinkInv` adds to the two properties what requests of the mini app hold
between their reads and their transaction: an account that was read existed, a
confirmation holds a request of another account, and only one holds a request that
nobody contested.  `FreshIsNew` is why a new account cannot revive a link.

`FollowInv` ties four things together.  *Subscriptions*: an account that was not acted upon by an
old word has one primary group, one that is not `strayed` one primary subscription in all.
*Rows*: the row of an identity shows what `_sync_primary_to_users` would choose now, or the identity
is excused.  *Hands*: what a request of the mini app, or a handler of a bot, has read has its type,
the row a request has found is among the account's as long as nobody deleted it, and
the copy an unlinking takes along is as sound as the account it was read from.  *Owners*: an
identity's account was made at some time, so a new one is nobody's.  `NotifiedAsSubscribed` alone is
not inductive: a row that nobody can be reached by is not spoken of, and a request may hold a
copy that is not sound.  Each method of the service is a lemma about what it returns (`AddedIs`,
`RemovedIs`, `MergedIs`, ...), whatever the subscriptions are; of a table that shows the primary
subscription, one synchronisation (`SyncedKeeps`) or none (`UnsyncedKeeps`) makes one that does; and every
handler is one of the two.  Where a handler does not synchronise, the lemma asks for the primary
subscription to be the same: so the muting, the rooms, a second group, and `Leave`, which
clears the row before it knows that there is nothing primary left.

**The unions.**  Parts share no state, so a step of the union is for every part a step of its
own or none (`EachPart`, `OnePart`), and each invariant is about one part alone.  Why the
properties are not inductive, and what is added:

* *Jobs* (`QueuesInv`): a published job is a message of the queue or with the one consumer
  that has not answered for it, and the number on a message is the number of failures;
  so a message that is republished before its predecessor is acknowledged is not given up early.
* *Outages* (`OutagesInv`): what is told, the streak of reports and an alert under way belong
  together, component by component, and the lock leaves at most one alert.
* *Errors* (`ReporterInv`): reports are in the order of the clock, and the list of times is the
  end of them, with nothing left out that is younger than an hour.  The table has an entry
  for all that was told within the window, although it is shortened: more than
  `KnownLimit - Pruned` of its entries would have to be younger than the hour, and the
  budget allows fewer (40 of 401 in the program).  This is where the assumption on the limits is needed.
* *Archive* (`ArchiveInv`, `ReferencesInv`): all that was taken, accepted or worked off, is outranked
  by a row of its day, and rows come from what was taken.  `DaysWritten` says so of one upsert for any
  rows and rule; the backfill is a recursive function over the snapshots of a batch, and its steps are
  such upserts.  A promotion loosens the tie to the key, and copies no snapshot that was accepted.
* *Catalogue, directory, photos*: the groups shown last are known or due; draft by draft, what a sheet
  has left to do, what it was made from and whether somebody else wrote since.
* *Shared clients, polling*: a request that installs a client has one that exists, one request signs in at a
  time, and the client is watched; every update below the offset, or forgotten by Telegram, was taken.
* *Replies* (`ReplyInv`): every part has a row, in the order of the parts, under a `random_id` of its own, and
  behind them are the requests that repeat the last part without its keyboard, all but the newest expired.
  Rows are settled in their order; what VK has been given is shown, and what is shown was given.
* *Updates of the database*: which table an initialising process is sure of (`StagesInv`) and what the
  last revision has read and moved (`MovedInv`); `DeadInv` follows the bot between its look at the
  tables and its stamp, where a neighbour could come between.
* *Reports, stars, chats*: what each handler has in hand is in the state it read, or was
  changed by nobody but itself.
* *Drafts of both bots*: texts and photos are given out once, and each one that may still be let
  out is in one place: a draft, or the hands of one handler (`TextsInv`, `PagesInv`).  The preview that was shown
  last is that of the draft, or is on its way with it, or its scenario is among those whose previews were lost or
  crossed (`PreviewsInv`, `DisplayInv`; in VK, where previews wait for each other, `ScreenInv`).  A form in the hands
  of a handler is of the kind it was opened for (`FormsInv`), so what is entered in it late
  concerns the draft of no other scenario; and every form that is not settled is unfinished.

`SmallestExists` (well-founded induction on the counterexamples) stands in for induction over data:
for the pruning of the table, the rows of a batch, the last snapshot of a source, and the rows that a
reply queues one after the other (`EnqueuedIs`, `NothingIsNew`, `AllIsNew`).  `ReplyInv` is about the
texts of `Answers` in `MCProgress`, three forms of a reply; the other constants of the unions are free.

**Assumptions.**  `LeaseCoversCall` (a call is shorter than its lease, or heartbeats do not die)
is assumed by all theorems of the outbox but `TypeCorrect`, `SentIsTrue` and
`OnlyFailuresDisable`.  Ordinary calls satisfy it (90 s, 120 s); documents do not, and
`outbox_document` shows that it is needed.  `OnlyFailuresDisable` assumes `NoIdRepeated`: no ID is
enqueued again after its row may have been purged, since an ID belongs to one update or
broadcast.  `DialoguesInOrder` assumes `EnoughLocks`: at most as many dialogues as locks are
kept; `vk_locks` shows that it is needed.  All passing runs satisfy the three.  On constants:
there are days and groups to count (`CountersAssumption`), the ids of `Users` are among those
of accounts, keys are finitely many, pending groups stand for groups, and nobody's first source is a room
(`AccountsAssumption`: who was there before has an account of his own); there are finitely many
callers (`ProgressAssumption`), "no row" is not a choice (`ChoicesAssumption`), and the limits of
`BackgroundAssumption` are numbers, the window of errors not longer than the hour and the budget
below what the table keeps (1800 s and 3600 s; 40 reports, 500 entries of which 100 go).

**Only model-checked.**

* Liveness under fairness (`EventuallySettled`, `EventuallyDelivered`, `EventuallyHandled`, `EventuallySaved`,
  `EventuallyDone`): out of the prover's reach, as is ENABLED.

Every safety property of the passing runs, and every action property, is a theorem.

## 6. Not modelled, and the plan

* Parsing of HTML, similarity of names, the cutting of texts, tables on photos,
  statistics: functions of one input, in which nothing interleaves and whose cases are
  their tests' business.
* Menus, wording, keyboards, pages of lists, editors of lessons and teachers in the bots:
  screens over the operations that are modelled.
* Operations scripts: run by hand while the program is stopped.  Of the migrations, the
  downgrades, which nothing in the program calls.
* HTTP clients, metrics, the web configurator's login: libraries' behaviour.
* Attachment files of deliveries: copied before the row is written and removed when no
  row names them; left out because no property of the modules depends on their content.
