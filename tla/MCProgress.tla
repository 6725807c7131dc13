----------------------------- MODULE MCProgress -----------------------------
(***************************************************************************)
(* What has to get somewhere, for TLC.  A behaviour is about one part: the *)
(* updates of VK, those of Telegram, the replies, the passes over teachers, *)
(* the callers that wait for a delivery, the session with Gemini, a start    *)
(* after an update.  The parts share no state, and the others stand still.  *)
(***************************************************************************)
EXTENDS MCVkUpdates

CONSTANTS
    t1, t2, w1, w2, w3, r1, r2,
    Tutors, MaxChanges, MaxLapses,                                              \* TeacherDebounce
    Waiters, Lives,                                                             \* OutboxWaiters
    Requests, Retries, MaxClients, MaxRotations, MaxRecognitions, MaxSlips,     \* GeminiSession
    LastTelegram, MaxErrors, MaxEnds,                                           \* TelegramPolling
    Attempts, MaxBreaks,                                                        \* BotReplies
    bot, panel, someone, Neighbours, Profiles, MaxCrashes                                            \* SchemaUpgrade

(* Callers are counted, and updates. *)
ASSUME ProgressAssumption == IsFiniteSet(Waiters) /\ LastTelegram \in Nat

(* Two parts that look alike, side by side or not; the last has the keyboard. *)
Answers == {<<"a", "a", "b">>, <<"a", "b", "a">>, <<"a", "a">>}

VARIABLES
    focus,
    version, affected, timer, rerun, teacherSeen, left, lapses,
    row, event, references, waiter, visits, pump,
    requests, client, lock, alive, syncs, jar, cookies, env, latest, spoiled, recognitions, slips,
    given, confirmed, polling, offset, errors, taken, served, cut, twice, restarted, ends,
    reply, picky, step, at, calls, attempt, rows, randoms, accepted, shown, breaks,
    tables, columns, versioned, revision, profiles, keyed, owned, joined, progress, stage, known, moved,
    excused, interrupted, crashes

Teachers == INSTANCE TeacherDebounce WITH seen <- teacherSeen
Waits == INSTANCE OutboxWaiters
Gemini == INSTANCE GeminiSession
Telegram == INSTANCE TelegramPolling WITH
    LastUpdate <- LastTelegram, MaxFaults <- MaxEnds,
    newest <- given, tasks <- taken, handled <- served, faults <- ends
Reply == INSTANCE BotReplies WITH Replies <- Answers, MaxFaults <- MaxBreaks, faults <- breaks
Upgrade == INSTANCE SchemaUpgrade WITH Bot <- bot, at <- progress, rows <- moved, cut <- interrupted

teacherVars == <<version, affected, timer, rerun, teacherSeen, left, lapses>>
waitVars == <<row, event, references, waiter, visits, pump>>
geminiVars == <<requests, client, lock, alive, syncs, jar, cookies, env, latest, spoiled, recognitions, slips>>
telegramVars == <<given, confirmed, polling, offset, errors, taken, served, cut, twice, restarted, ends>>
replyVars == <<reply, picky, step, at, calls, attempt, rows, randoms, accepted, shown, breaks>>
upgradeVars == <<tables, columns, versioned, revision, profiles, keyed, owned, joined, progress, stage, known, moved,
                 excused, interrupted, crashes>>
allVars == <<focus, vars, teacherVars, waitVars, geminiVars, telegramVars, replyVars, upgradeVars>>

OfVk(A) ==
    focus = "vk" /\ A /\ UNCHANGED <<focus, teacherVars, waitVars, geminiVars, telegramVars, replyVars, upgradeVars>>
OfTeachers(A) ==
    focus = "teachers" /\ A /\ UNCHANGED <<focus, vars, waitVars, geminiVars, telegramVars, replyVars, upgradeVars>>
OfWaiters(A) ==
    focus = "waiters" /\ A /\ UNCHANGED <<focus, vars, teacherVars, geminiVars, telegramVars, replyVars, upgradeVars>>
OfGemini(A) ==
    focus = "gemini" /\ A /\ UNCHANGED <<focus, vars, teacherVars, waitVars, telegramVars, replyVars, upgradeVars>>
OfTelegram(A) ==
    focus = "telegram" /\ A /\ UNCHANGED <<focus, vars, teacherVars, waitVars, geminiVars, replyVars, upgradeVars>>
OfReply(A) ==
    focus = "reply" /\ A /\ UNCHANGED <<focus, vars, teacherVars, waitVars, geminiVars, telegramVars, upgradeVars>>
OfUpgrade(A) ==
    focus = "upgrade" /\ A /\ UNCHANGED <<focus, vars, teacherVars, waitVars, geminiVars, telegramVars, replyVars>>

ProgressInit ==
    /\ focus \in {"vk", "teachers", "waiters", "gemini", "telegram", "reply", "upgrade"}
    /\ Init /\ Teachers!Init /\ Waits!Init /\ Gemini!Init /\ Telegram!Init /\ Reply!Init /\ Upgrade!Init
    /\ focus # "reply" => ~picky /\ reply = <<"a", "a">>
    /\ focus # "upgrade" => revision = 4

ProgressNext ==
    \/ OfVk(Next)
    \/ OfTeachers(Teachers!Next)
    \/ OfWaiters(Waits!Next)
    \/ OfGemini(Gemini!Next)
    \/ OfTelegram(Telegram!Next)
    \/ OfReply(Reply!Next)
    \/ OfUpgrade(Upgrade!Next)

(* The fairness of each part, in the behaviours that are about it. *)
ProgressFairness ==
    /\ WF_allVars(OfVk(Connect))
    /\ WF_allVars(OfVk(\E ts \in 0..newest : Receive(ts) /\ ts # position))
    /\ WF_allVars(OfVk(Receive(position)))
    /\ WF_allVars(OfVk(Handling))
    /\ WF_allVars(OfVk(HandlerDone))
    /\ WF_allVars(OfVk(Stopped \/ Start))
    /\ \A t \in Tutors :
          /\ WF_allVars(OfTeachers(Teachers!Schedule(t)))
          /\ WF_allVars(OfTeachers(Teachers!Elapses(t)))
          /\ WF_allVars(OfTeachers(Teachers!Reads(t)))
          /\ WF_allVars(OfTeachers(Teachers!Ends(t)))
    /\ \A w \in Waiters :
          /\ WF_allVars(OfWaiters(Waits!Clear(w)))
          /\ WF_allVars(OfWaiters(Waits!Answered(w)))
          /\ WF_allVars(OfWaiters(Waits!Sleeps(w)))
          /\ WF_allVars(OfWaiters(Waits!LooksAgain(w)))
    /\ \A r \in Requests : WF_allVars(OfGemini(Gemini!Proceeds(r)))
    /\ \A c \in 1..MaxClients : WF_allVars(OfGemini(Gemini!Syncs(c)))
    /\ WF_allVars(OfTelegram(Telegram!StartPolling))
    /\ WF_allVars(OfTelegram(Telegram!AsksAgain))
    /\ WF_allVars(OfTelegram(Telegram!Answered))
    /\ \A u \in 1..LastTelegram : WF_allVars(OfTelegram(Telegram!HandlerEnds(u)))
    /\ WF_allVars(OfUpgrade(Upgrade!Migrates)) /\ WF_allVars(OfUpgrade(Upgrade!Initialises(bot)))
    /\ \A p \in Neighbours :
          /\ WF_allVars(OfUpgrade(progress[p] = "down" /\ Upgrade!Starts(p)))
          /\ WF_allVars(OfUpgrade(Upgrade!Initialises(p)))

ProgressSpec == ProgressInit /\ [][ProgressNext]_allVars /\ ProgressFairness
-----------------------------------------------------------------------------
\* A change is not lost between the passes over its teacher (scheduler.py:738-837), nor a
\* caller between those who share his Event (delivery_outbox.py:183-207); requests share
\* one signed-in client, which is watched (ocr_schedule.py:667-690, 911-932).
SharedSafely ==
    /\ Teachers!NoChangeForgotten
    /\ Waits!EntryKept
    /\ Gemini!ClientIsWatched /\ Gemini!OneSignIn

\* A login begins with the newest cookies there are (ocr_schedule.py:744-773).
NewestCookies == Gemini!NewestCookies

\* Messages get through in both directions: what Telegram has forgotten is in the hands of a
\* handler, and again only after a restart (telegram_runtime.py:53-104); a reply in VK is
\* shown whole, in order and once, whatever is lost or repeated (vk_runtime.py:226-294,
\* outbox_context.py:38-47).
MessagesKept ==
    /\ Telegram!NothingMissed /\ Telegram!RepeatedAfterRestart
    /\ Reply!EachPartOnce /\ Reply!WholeReply

\* After an update everyone has an account with his subscription, and the bot comes up,
\* but for the rows that were too old and the first start that was cut short
\* (db_migrations.py:45-66, db.py:54-428, migrations/versions).
UpgradeHolds == Upgrade!MovedUnlessOld /\ Upgrade!DeadEndOnlyIfCut

\* Teachers are recalculated once their groups are quiet, callers are answered, dead
\* sessions dropped and recognitions over, the updates of Telegram handled, the bot is up after
\* an update, whatever else happens meanwhile (scheduler.py:738-837, delivery_outbox.py:183-207,
\* ocr_schedule.py:911-932, telegram_runtime.py:53-104, db_migrations.py:45-66).
EventuallyDone ==
    /\ Teachers!TeachersCatchUp /\ Waits!WaitersAnswered
    /\ Gemini!DeadClientsGo /\ Gemini!RequestsEnd
    /\ Telegram!EventuallyTaken /\ Upgrade!EventuallyUp
=============================================================================
