------------------------------ MODULE Feedback ------------------------------
(***************************************************************************)
(* Reports of users and the answers of administrators (telegram_bot.py      *)
(* 3013-3238 and 5102-5121, vk_bot.py 1978-2038 and 3394-3455).  A report   *)
(* is kept and announced; an administrator answers the announcement or a    *)
(* number, which names the report, or a user, which means the user's latest *)
(* report.  The answer is delivered first and the report marked afterwards. *)
(***************************************************************************)
EXTENDS Naturals, Sequences, FiniteSets

CONSTANTS
    VkUsers,        \* users
    TelegramUsers,
    Operators,      \* administrators
    Bot,            \* the id of the Telegram bot itself
    MaxReported,    \* bound: reports
    MaxAnswers,     \* bound: answers
    MaxBreakdowns   \* bound: deliveries and marks that fail, crashes

VARIABLES
    rows,       \* feedback_messages: [author, user, status, reply]; the id is the index
    announced,  \* reports an administrator has seen
    work,       \* administrator -> what he has asked the bot to do
    delivered,  \* history: the answers that have arrived: [answer, user]
    answers,    \* history: the answers, as [about, known]: the report that is meant,
                \* 0 for the latest one, and how many reports there were
    breakdowns

vars == <<rows, announced, work, delivered, answers, breakdowns>>

Idle == [step |-> "idle"]
Breakdown == breakdowns < MaxBreakdowns /\ breakdowns' = breakdowns + 1

Init ==
    /\ rows = <<>> /\ announced = {} /\ work = [m \in Operators |-> Idle]
    /\ delivered = {} /\ answers = <<>> /\ breakdowns = 0

\* submit_user_report is called with the message of the bot, whose author is the bot.
UserOf(u) == IF u \in TelegramUsers THEN Bot ELSE u

Submit(u) ==
    /\ Len(rows) < MaxReported
    /\ rows' = Append(rows, [author |-> u, user |-> UserOf(u), status |-> "open", reply |-> 0])
    /\ UNCHANGED <<announced, work, delivered, answers, breakdowns>>

\* notify_admins; it may also fail, which is only logged.
Announce(r) ==
    /\ r \in DOMAIN rows \ announced /\ announced' = announced \cup {r}
    /\ UNCHANGED <<rows, work, delivered, answers, breakdowns>>

Asks(m, user, about) ==
    /\ work[m] = Idle /\ Len(answers) < MaxAnswers
    /\ answers' = Append(answers, [about |-> about, known |-> Len(rows)])
    /\ work' = [work EXCEPT ![m] = [step |-> "delivering", user |-> user, about |-> about, answer |-> Len(answers')]]
    /\ UNCHANGED <<rows, announced, delivered, breakdowns>>

\* A reply to the announcement, /reply <number>.
AnswerReport(m, r) == r \in announced /\ Asks(m, rows[r].user, r)

\* /reply tg or vk <user>, for whatever he has written.
AnswerUser(m, u) == Asks(m, u, 0)

Deliver(m) ==
    /\ work[m].step = "delivering" /\ work[m].user # Bot
    /\ delivered' = delivered \cup {[answer |-> work[m].answer, user |-> work[m].user]}
    /\ work' = [work EXCEPT ![m].step = "marking"]
    /\ UNCHANGED <<rows, announced, answers, breakdowns>>

\* Nobody can write to the bot itself.
DeliveryFails(m) ==
    /\ work[m].step = "delivering"
    /\ IF work[m].user = Bot THEN UNCHANGED breakdowns ELSE Breakdown
    /\ work' = [work EXCEPT ![m] = Idle]
    /\ UNCHANGED <<rows, announced, delivered, answers>>

\* Mutant: whichever report of the user comes first.
FirstOf(user) == {r \in DOMAIN rows : rows[r].user = user /\ \A q \in DOMAIN rows : rows[q].user = user => q >= r}

\* get_latest_open_feedback: the last one, answered or not.
LatestOf(user) == {r \in DOMAIN rows : rows[r].user = user /\ \A q \in DOMAIN rows : rows[q].user = user => q <= r}

\* Mutant: a report is marked when the answer goes out.
MarkedEarly(m) == work[m].step \in {"delivering", "marking"}

MayMark(m) == work[m].step = "marking"

Mark(m) ==
    /\ MayMark(m) /\ work' = [work EXCEPT ![m] = Idle]
    /\ LET marked == IF work[m].about = 0 THEN LatestOf(work[m].user) ELSE {work[m].about}
       IN  rows' = [r \in DOMAIN rows |->
              IF r \in marked THEN [rows[r] EXCEPT !.status = "answered", !.reply = work[m].answer] ELSE rows[r]]
    /\ UNCHANGED <<announced, delivered, answers, breakdowns>>

MarkFails(m) ==
    /\ work[m].step = "marking" /\ Breakdown /\ work' = [work EXCEPT ![m] = Idle]
    /\ UNCHANGED <<rows, announced, delivered, answers>>

Crash ==
    /\ Breakdown /\ work' = [m \in Operators |-> Idle]
    /\ UNCHANGED <<rows, announced, delivered, answers>>

Next ==
    \/ \E u \in VkUsers \cup TelegramUsers : Submit(u)
    \/ \E r \in DOMAIN rows : Announce(r)
    \/ \E m \in Operators :
          \/ \E r \in DOMAIN rows : AnswerReport(m, r)
          \/ \E u \in VkUsers \cup TelegramUsers : AnswerUser(m, u)
          \/ Deliver(m) \/ DeliveryFails(m) \/ Mark(m) \/ MarkFails(m)
    \/ Crash

Spec == Init /\ [][Next]_vars
-----------------------------------------------------------------------------
\* A report that counts as answered has its answer delivered to the one who wrote it,
\* whatever two administrators do at once and wherever a step fails (telegram_bot.py:3085).
AnswersArrived ==
    \A r \in DOMAIN rows : rows[r].status = "answered" =>
        [answer |-> rows[r].reply, user |-> rows[r].author] \in delivered

\* An answer marks the report it is about; one to a user marks no report that he has
\* followed up before the answer was written.
RightOneMarked ==
    \A r \in DOMAIN rows : rows[r].status = "answered" =>
        LET answer == answers[rows[r].reply] IN
            IF answer.about # 0 THEN answer.about = r
            ELSE \A q \in DOMAIN rows : rows[q].user = rows[r].user /\ q > r => q > answer.known
=============================================================================
