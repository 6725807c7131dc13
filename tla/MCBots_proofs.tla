---------------------------- MODULE MCBots_proofs ----------------------------
(***************************************************************************)
(* Theorems about the dialogues of the two bots for any users, handlers,   *)
(* numbers of messages and failures: first about each part by itself, then *)
(* about the union that the run checks.                                    *)
(***************************************************************************)
EXTENDS MCBots, SequenceTheorems, TLAPS

-----------------------------------------------------------------------------
(* Sequences *)

LEMMA AppendIs ==
  ASSUME NEW S, NEW s \in Seq(S), NEW e \in S
  PROVE  /\ Append(s, e) \in Seq(S) /\ Len(Append(s, e)) = Len(s) + 1 /\ Len(s) \in Nat
         /\ DOMAIN s = 1..Len(s) /\ DOMAIN Append(s, e) = 1..(Len(s) + 1)
         /\ \A i \in 1..Len(s) : Append(s, e)[i] = s[i]
         /\ Append(s, e)[Len(s) + 1] = e
  OBVIOUS

LEMMA FunctionIsSeq ==
  ASSUME NEW S, NEW n \in Nat, NEW f \in [1..n -> S]
  PROVE  f \in Seq(S) /\ Len(f) = n
<1>1. f \in Seq(S)
  BY SeqDef
<1>2. Len(f) \in Nat /\ 1..Len(f) = 1..n
  BY <1>1, LenProperties
<1>3. QED BY <1>1, <1>2

-----------------------------------------------------------------------------
(* Reports of users and their answers *)

Writers == VkUsers \union TelegramUsers
Report == [author : Writers, user : Writers \union {Bot}, status : {"open", "answered"}, reply : Nat]

(* A report belongs to its author, or to the bot if he writes in Telegram. *)
ReportsKept ==
  /\ rows \in Seq(Report)
  /\ \A r \in DOMAIN rows : rows[r].user = Reports!UserOf(rows[r].author)

(* An answer is about a report that was there when it was written, or about none. *)
AnswersKept ==
  /\ answers \in Seq([about : Nat, known : Nat])
  /\ \A n \in DOMAIN answers : answers[n].known <= Len(rows)

(* What an administrator's handler is at is his answer; he marks what has arrived. *)
AtWork(m) ==
  /\ work[m].step \in {"idle", "delivering", "marking"}
  /\ work[m].step # "idle" =>
       /\ work[m].answer \in DOMAIN answers /\ work[m].about = answers[work[m].answer].about
       /\ work[m].about # 0 => work[m].about \in DOMAIN rows /\ rows[work[m].about].user = work[m].user
  /\ work[m].step = "marking" =>
       work[m].user # Bot /\ [answer |-> work[m].answer, user |-> work[m].user] \in delivered

ReportsInv ==
  /\ ReportsKept /\ AnswersKept
  /\ DOMAIN work = Operators /\ \A m \in Operators : AtWork(m)
  /\ \A r \in DOMAIN rows : rows[r].status = "answered" => rows[r].reply \in DOMAIN answers
  /\ Reports!AnswersArrived /\ Reports!RightOneMarked

LEMMA ReportsFacts ==
  ASSUME ReportsInv
  PROVE  /\ Len(rows) \in Nat /\ DOMAIN rows = 1..Len(rows)
         /\ Len(answers) \in Nat /\ DOMAIN answers = 1..Len(answers)
         /\ \A r \in DOMAIN rows : rows[r] \in Report /\ rows[r].user = Reports!UserOf(rows[r].author)
         /\ \A n \in DOMAIN answers : answers[n] \in [about : Nat, known : Nat]
<1>1. rows \in Seq(Report) /\ answers \in Seq([about : Nat, known : Nat])
  BY DEF ReportsInv, ReportsKept, AnswersKept
<1>2. \A r \in DOMAIN rows : rows[r].user = Reports!UserOf(rows[r].author)
  BY DEF ReportsInv, ReportsKept
<1>3. /\ Len(rows) \in Nat /\ DOMAIN rows = 1..Len(rows)
      /\ Len(answers) \in Nat /\ DOMAIN answers = 1..Len(answers)
  BY <1>1
<1>4. \A r \in DOMAIN rows : rows[r] \in Report
  BY <1>1, <1>3, ElementOfSeq
<1>5. \A n \in DOMAIN answers : answers[n] \in [about : Nat, known : Nat]
  BY <1>1, <1>3, ElementOfSeq
<1>6. QED BY <1>2, <1>3, <1>4, <1>5

(* A new report is nobody's answer yet, and comes after whatever was known. *)
LEMMA SubmitKeeps ==
  ASSUME ReportsInv, NEW u \in Writers, Reports!Submit(u)
  PROVE  ReportsInv'
<1>. DEFINE new == [author |-> u, user |-> Reports!UserOf(u), status |-> "open", reply |-> 0]
            n == Len(rows)
<1>1. rows' = Append(rows, new) /\ UNCHANGED <<work, delivered, answers>>
  BY DEF Reports!Submit
<1>2. new \in Report /\ new.user = Reports!UserOf(new.author) /\ new.status = "open"
  BY DEF Report, Reports!UserOf
<1>3. rows \in Seq(Report)
  BY DEF ReportsInv, ReportsKept
<1>. HIDE DEF new
<1>4. /\ rows' \in Seq(Report) /\ Len(rows') = n + 1 /\ n \in Nat /\ DOMAIN rows = 1..n /\ DOMAIN rows' = 1..(n + 1)
      /\ \A r \in DOMAIN rows : rows'[r] = rows[r]
      /\ rows'[n + 1] = new
  BY <1>1, <1>2, <1>3, AppendIs
<1>5. \A r \in DOMAIN rows' : (r \in DOMAIN rows /\ rows'[r] = rows[r]) \/ (r = n + 1 /\ rows'[r] = new)
  BY <1>4
<1>. HIDE DEF n
<1>6. ReportsKept'
  BY <1>2, <1>4, <1>5 DEF ReportsInv, ReportsKept, Reports!UserOf
<1>7. AnswersKept'
  <2>1. answers \in Seq([about : Nat, known : Nat]) /\ \A a \in DOMAIN answers : answers[a].known <= n
    BY DEF ReportsInv, AnswersKept, n
  <2>2. \A a \in DOMAIN answers : answers[a].known \in Nat
    BY ReportsFacts
  <2>3. QED BY <1>1, <1>4, <2>1, <2>2 DEF AnswersKept
<1>8. DOMAIN rows \subseteq DOMAIN rows'
  BY <1>4
<1>9. ASSUME NEW m \in Operators PROVE AtWork(m)'
  BY <1>1, <1>4, <1>8 DEF ReportsInv, AtWork
<1>10. \A r \in DOMAIN rows' : rows'[r].status = "answered" => r \in DOMAIN rows /\ rows'[r] = rows[r]
  BY <1>2, <1>5
<1>11. Reports!AnswersArrived' /\ \A r \in DOMAIN rows' : rows'[r].status = "answered" => rows'[r].reply \in DOMAIN answers'
  BY <1>1, <1>10 DEF ReportsInv, Reports!AnswersArrived
<1>12. Reports!RightOneMarked'
  <2>1. SUFFICES ASSUME NEW r \in DOMAIN rows, rows[r].status = "answered",
                        answers[rows[r].reply].about = 0,
                        NEW q \in DOMAIN rows', rows'[q].user = rows[r].user, q > r
                 PROVE  q > answers[rows[r].reply].known
    BY <1>1, <1>10 DEF ReportsInv, Reports!RightOneMarked
  <2>2. CASE q \in DOMAIN rows
    BY <1>4, <2>1, <2>2 DEF ReportsInv, Reports!RightOneMarked
  <2>3. CASE q = n + 1
    <3>1. answers[rows[r].reply].known <= n /\ answers[rows[r].reply].known \in Nat
      BY <2>1, ReportsFacts DEF ReportsInv, AnswersKept, n
    <3>2. QED BY <1>4, <2>3, <3>1
  <2>4. QED BY <1>5, <2>2, <2>3
<1>13. QED BY <1>1, <1>6, <1>7, <1>9, <1>11, <1>12 DEF ReportsInv

(* An answer to a report, or to a user. *)
LEMMA AsksKeeps ==
  ASSUME ReportsInv, NEW m \in Operators, NEW user, NEW about \in Nat,
         about # 0 => about \in DOMAIN rows /\ rows[about].user = user,
         Reports!Asks(m, user, about)
  PROVE  ReportsInv'
<1>. DEFINE new == [about |-> about, known |-> Len(rows)]
            n == Len(answers)
            job == [step |-> "delivering", user |-> user, about |-> about, answer |-> Len(answers')]
<1>1. /\ answers' = Append(answers, new) /\ work' = [work EXCEPT ![m] = job]
      /\ UNCHANGED <<rows, delivered>>
  BY DEF Reports!Asks
<1>2. new \in [about : Nat, known : Nat] /\ new.about = about /\ new.known = Len(rows)
  BY ReportsFacts
<1>3. answers \in Seq([about : Nat, known : Nat]) /\ DOMAIN work = Operators
  BY DEF ReportsInv, AnswersKept
<1>4. job.step = "delivering" /\ job.user = user /\ job.about = about /\ job.answer = Len(answers')
  OBVIOUS
<1>. HIDE DEF new, job
<1>5. /\ answers' \in Seq([about : Nat, known : Nat]) /\ Len(answers') = n + 1 /\ n \in Nat
      /\ DOMAIN answers = 1..n /\ DOMAIN answers' = 1..(n + 1)
      /\ \A a \in DOMAIN answers : answers'[a] = answers[a]
      /\ answers'[n + 1] = new
  BY <1>1, <1>2, <1>3, AppendIs
<1>6. /\ \A a \in DOMAIN answers' : (a \in DOMAIN answers /\ answers'[a] = answers[a]) \/ (a = n + 1 /\ answers'[a] = new)
      /\ DOMAIN answers \subseteq DOMAIN answers' /\ n + 1 \in DOMAIN answers'
  BY <1>5
<1>. HIDE DEF n
<1>7. AnswersKept'
  BY <1>1, <1>2, <1>5, <1>6, ReportsFacts DEF ReportsInv, AnswersKept
<1>8. ASSUME NEW o \in Operators PROVE AtWork(o)'
  <2>1. CASE o = m
    BY <1>1, <1>2, <1>3, <1>4, <1>5, <1>6, <2>1 DEF AtWork
  <2>2. CASE o # m
    BY <1>1, <1>3, <1>6, <2>2 DEF ReportsInv, AtWork
  <2>3. QED BY <2>1, <2>2
<1>9. QED BY <1>1, <1>3, <1>6, <1>7, <1>8 DEF ReportsInv, ReportsKept, Reports!AnswersArrived, Reports!RightOneMarked

(* An answer arrives with the one it is for. *)
LEMMA DeliverKeeps ==
  ASSUME ReportsInv, NEW m \in Operators, Reports!Deliver(m)
  PROVE  ReportsInv'
<1>1. /\ work[m].step = "delivering" /\ work[m].user # Bot
      /\ delivered' = delivered \union {[answer |-> work[m].answer, user |-> work[m].user]}
      /\ work' = [work EXCEPT ![m].step = "marking"] /\ UNCHANGED <<rows, answers>>
  BY DEF Reports!Deliver
<1>2. DOMAIN work = Operators
  BY DEF ReportsInv
<1>3. /\ work'[m].step = "marking" /\ work'[m].user = work[m].user
      /\ work'[m].about = work[m].about /\ work'[m].answer = work[m].answer
  BY <1>1, <1>2
<1>4. ASSUME NEW o \in Operators PROVE AtWork(o)'
  <2>1. CASE o = m
    <3>1. /\ work[m].answer \in DOMAIN answers /\ work[m].about = answers[work[m].answer].about
          /\ work[m].about # 0 => work[m].about \in DOMAIN rows /\ rows[work[m].about].user = work[m].user
      BY <1>1 DEF ReportsInv, AtWork
    <3>2. [answer |-> work'[m].answer, user |-> work'[m].user] \in delivered'
      BY <1>1, <1>3
    <3>3. QED BY <1>1, <1>3, <2>1, <3>1, <3>2 DEF AtWork
  <2>2. CASE o # m
    BY <1>1, <1>2, <2>2 DEF ReportsInv, AtWork
  <2>3. QED BY <2>1, <2>2
<1>5. QED BY <1>1, <1>2, <1>4 DEF ReportsInv, ReportsKept, AnswersKept, Reports!AnswersArrived, Reports!RightOneMarked

(* A report is marked with an answer its author has. *)
LEMMA MarkKeeps ==
  ASSUME ReportsInv, NEW m \in Operators, Reports!Mark(m)
  PROVE  ReportsInv'
<1>. DEFINE marked == IF work[m].about = 0 THEN Reports!LatestOf(work[m].user) ELSE {work[m].about}
            a == work[m].answer
<1>1. /\ work[m].step = "marking" /\ work' = [work EXCEPT ![m] = Reports!Idle]
      /\ rows' = [r \in DOMAIN rows |->
                    IF r \in marked THEN [rows[r] EXCEPT !.status = "answered", !.reply = a] ELSE rows[r]]
      /\ UNCHANGED <<delivered, answers>>
  BY DEF Reports!Mark, Reports!MayMark
<1>2. /\ a \in DOMAIN answers /\ work[m].about = answers[a].about
      /\ work[m].about # 0 => work[m].about \in DOMAIN rows /\ rows[work[m].about].user = work[m].user
      /\ work[m].user # Bot /\ [answer |-> a, user |-> work[m].user] \in delivered
  BY <1>1 DEF ReportsInv, AtWork
<1>3. \A r \in marked : r \in DOMAIN rows /\ rows[r].user = work[m].user
  BY <1>2 DEF Reports!LatestOf
<1>4. answers[a].about = 0 => \A r \in marked, q \in DOMAIN rows : rows[q].user = rows[r].user => q <= r
  BY <1>2, <1>3 DEF Reports!LatestOf
<1>5. answers[a].about # 0 => marked = {answers[a].about}
  BY <1>2
<1>6. a \in Nat
  BY <1>2, ReportsFacts
<1>. HIDE DEF marked, a
<1>7. ASSUME NEW r \in DOMAIN rows
      PROVE  /\ rows'[r] \in Report /\ rows'[r].author = rows[r].author /\ rows'[r].user = rows[r].user
             /\ r \in marked => rows'[r].status = "answered" /\ rows'[r].reply = a
             /\ r \notin marked => rows'[r] = rows[r]
  <2>1. rows[r] \in Report
    BY ReportsFacts
  <2>2. CASE r \in marked
    BY <1>1, <1>6, <2>1, <2>2 DEF Report
  <2>3. CASE r \notin marked
    BY <1>1, <2>1, <2>3
  <2>4. QED BY <2>2, <2>3
<1>8. rows' \in Seq(Report) /\ Len(rows') = Len(rows) /\ DOMAIN rows' = DOMAIN rows
  <2>1. rows' \in [1..Len(rows) -> Report] /\ Len(rows) \in Nat
    BY <1>1, <1>7, ReportsFacts
  <2>2. QED BY <2>1, FunctionIsSeq, ReportsFacts
<1>9. ReportsKept' /\ AnswersKept'
  <2>1. \A r \in DOMAIN rows : rows'[r].user = Reports!UserOf(rows'[r].author)
    BY <1>7 DEF ReportsInv, ReportsKept
  <2>2. ReportsKept'
    BY <1>8, <2>1 DEF ReportsKept, Reports!UserOf
  <2>3. QED BY <1>1, <1>8, <2>2 DEF ReportsInv, AnswersKept
<1>10. ASSUME NEW o \in Operators PROVE AtWork(o)'
  <2>1. CASE o = m
    BY <1>1, <2>1 DEF ReportsInv, AtWork, Reports!Idle
  <2>2. CASE o # m
    BY <1>1, <1>7, <1>8, <2>2 DEF ReportsInv, AtWork
  <2>3. QED BY <2>1, <2>2
<1>11. ASSUME NEW r \in DOMAIN rows', rows'[r].status = "answered"
       PROVE  rows'[r].reply \in DOMAIN answers' /\ [answer |-> rows'[r].reply, user |-> rows'[r].author] \in delivered'
  <2>1. CASE r \in marked
    <3>1. rows[r].author = work[m].user
      BY <1>2, <1>3, <2>1, ReportsFacts DEF Reports!UserOf
    <3>2. rows'[r].reply = a /\ rows'[r].author = work[m].user
      BY <1>7, <1>8, <2>1, <3>1
    <3>3. [answer |-> rows'[r].reply, user |-> rows'[r].author] = [answer |-> a, user |-> work[m].user]
      BY <3>2
    <3>4. rows'[r].reply \in DOMAIN answers'
      BY <1>1, <1>2, <3>2
    <3>5. [answer |-> a, user |-> work[m].user] \in delivered /\ delivered' = delivered
      BY <1>1, <1>2
    <3>6. QED BY <3>3, <3>4, <3>5
  <2>2. CASE r \notin marked
    BY <1>1, <1>7, <1>8, <1>11, <2>2 DEF ReportsInv, Reports!AnswersArrived
  <2>3. QED BY <2>1, <2>2
<1>12. Reports!RightOneMarked'
  <2>1. SUFFICES ASSUME NEW r \in DOMAIN rows, rows'[r].status = "answered"
                 PROVE  IF answers[rows'[r].reply].about # 0 THEN answers[rows'[r].reply].about = r
                        ELSE \A q \in DOMAIN rows : rows[q].user = rows[r].user /\ q > r =>
                               q > answers[rows'[r].reply].known
    <3>1. /\ DOMAIN rows' = DOMAIN rows /\ answers' = answers
          /\ \A q \in DOMAIN rows : rows'[q].user = rows[q].user
      BY <1>1, <1>7, <1>8
    <3>2. QED BY <3>1 DEF Reports!RightOneMarked
  <2>2. CASE r \in marked
    <3>1. rows'[r].reply = a
      BY <1>7, <2>2
    <3>2. \A q \in DOMAIN rows : rows[q].user = rows[r].user /\ q > r => answers[a].about # 0
      BY <1>4, <2>2, ReportsFacts
    <3>3. QED BY <1>5, <2>2, <3>1, <3>2
  <2>3. CASE r \notin marked
    BY <1>7, <2>1, <2>3 DEF ReportsInv, Reports!RightOneMarked
  <2>4. QED BY <2>2, <2>3
<1>13. QED BY <1>1, <1>9, <1>10, <1>11, <1>12 DEF ReportsInv, Reports!AnswersArrived

LEMMA ReportsStep == ReportsInv /\ [Reports!Next]_reportVars => ReportsInv'
<1>. SUFFICES ASSUME ReportsInv, [Reports!Next]_reportVars PROVE ReportsInv'
  OBVIOUS
<1>1. ASSUME NEW u \in Writers, Reports!Submit(u) PROVE ReportsInv'
  BY <1>1, SubmitKeeps
<1>2. ASSUME NEW m \in Operators, NEW r \in DOMAIN rows, Reports!AnswerReport(m, r) PROVE ReportsInv'
  BY <1>2, AsksKeeps, ReportsFacts DEF Reports!AnswerReport
<1>3. ASSUME NEW m \in Operators, NEW u, Reports!AnswerUser(m, u) PROVE ReportsInv'
  BY <1>3, AsksKeeps DEF Reports!AnswerUser
<1>4. ASSUME NEW m \in Operators, Reports!Deliver(m) \/ Reports!Mark(m) PROVE ReportsInv'
  BY <1>4, DeliverKeeps, MarkKeeps
<1>5. ASSUME UNCHANGED <<rows, answers, delivered>>, DOMAIN work' = Operators,
             \A m \in Operators : work'[m] \in {work[m], Reports!Idle}
      PROVE  ReportsInv'
  <2>1. ASSUME NEW m \in Operators PROVE AtWork(m)'
    BY <1>5 DEF ReportsInv, AtWork, Reports!Idle
  <2>2. QED BY <1>5, <2>1 DEF ReportsInv, ReportsKept, AnswersKept, Reports!AnswersArrived, Reports!RightOneMarked
<1>6. ASSUME \/ \E r \in DOMAIN rows : Reports!Announce(r)
             \/ \E m \in Operators : Reports!DeliveryFails(m) \/ Reports!MarkFails(m)
             \/ Reports!Crash \/ UNCHANGED reportVars
      PROVE  ReportsInv'
  <2>1. UNCHANGED <<rows, answers, delivered>>
    BY <1>6 DEF Reports!Announce, Reports!DeliveryFails, Reports!MarkFails, Reports!Crash, reportVars
  <2>2. DOMAIN work = Operators
    BY DEF ReportsInv
  <2>3. DOMAIN work' = Operators /\ \A m \in Operators : work'[m] \in {work[m], Reports!Idle}
    BY <1>6, <2>2 DEF Reports!Announce, Reports!DeliveryFails, Reports!MarkFails, Reports!Crash, reportVars
  <2>4. QED BY <1>5, <2>1, <2>3
<1>7. QED BY <1>1, <1>2, <1>3, <1>4, <1>6 DEF Reports!Next, Writers

LEMMA ReportsStart == Reports!Init => ReportsInv
<1>. SUFFICES ASSUME Reports!Init PROVE ReportsInv
  OBVIOUS
<1>1. rows = <<>> /\ answers = <<>> /\ work = [m \in Operators |-> Reports!Idle]
  BY DEF Reports!Init
<1>2. DOMAIN rows = {} /\ DOMAIN answers = {} /\ rows \in Seq(Report) /\ answers \in Seq([about : Nat, known : Nat])
  BY <1>1
<1>3. \A m \in Operators : work[m].step = "idle"
  BY <1>1 DEF Reports!Idle
<1>4. QED BY <1>1, <1>2, <1>3 DEF ReportsInv, ReportsKept, AnswersKept, AtWork, Reports!AnswersArrived,
                                  Reports!RightOneMarked

-----------------------------------------------------------------------------
(* Donations *)

Donation == [charge : Charges, refunded : BOOLEAN]

(* A refund is of the row it names; one that Telegram has granted is the only one of its
   charge, and no row of the charge says so yet. *)
Refunding(t) ==
  /\ refunds[t].step \in {"none", "refunding", "marking"}
  /\ refunds[t].step # "none" =>
       /\ refunds[t].charge \in Charges
       /\ refunds[t].row # 0 => /\ refunds[t].row \in DOMAIN donations
                                /\ donations[refunds[t].row].charge = refunds[t].charge
  /\ refunds[t].step = "marking" =>
       /\ refunds[t].row # 0 /\ charges[refunds[t].charge] = "refunded"
       /\ \A i \in DOMAIN donations : donations[i].charge = refunds[t].charge => ~donations[i].refunded

SoleMarking ==
  \A t, u \in Treasurers :
    refunds[t].step = "marking" /\ refunds[u].step = "marking" /\ refunds[t].charge = refunds[u].charge => t = u

StarsInv ==
  /\ donations \in Seq(Donation) /\ messages \subseteq Charges /\ DOMAIN charges = Charges
  /\ DOMAIN refunds = Treasurers /\ \A t \in Treasurers : Refunding(t)
  /\ SoleMarking
  /\ Stars!RefundsAreReal

LEMMA DonationsAre ==
  ASSUME StarsInv
  PROVE  \A i \in DOMAIN donations : donations[i] \in Donation /\ donations[i].charge \in Charges
<1>1. donations \in Seq(Donation) /\ DOMAIN donations = 1..Len(donations)
  BY DEF StarsInv
<1>2. ASSUME NEW i \in DOMAIN donations PROVE donations[i] \in Donation
  BY <1>1, ElementOfSeq
<1>3. QED BY <1>2 DEF Donation

(* Another row of a charge says nothing of its refund. *)
LEMMA RecordKeeps ==
  ASSUME StarsInv, NEW c \in Charges, Stars!Record(c)
  PROVE  StarsInv'
<1>. DEFINE new == [charge |-> c, refunded |-> FALSE]
            n == Len(donations)
<1>1. donations' = Append(donations, new) /\ UNCHANGED <<charges, refunds>> /\ messages' \subseteq messages
  BY DEF Stars!Record
<1>2. donations \in Seq(Donation) /\ new \in Donation /\ ~new.refunded
  BY DEF StarsInv, Donation
<1>. HIDE DEF new
<1>3. /\ donations' \in Seq(Donation) /\ n \in Nat /\ DOMAIN donations = 1..n /\ DOMAIN donations' = 1..(n + 1)
      /\ \A i \in DOMAIN donations : donations'[i] = donations[i]
      /\ donations'[n + 1] = new
  BY <1>1, <1>2, AppendIs
<1>. HIDE DEF n
<1>4. /\ DOMAIN donations \subseteq DOMAIN donations'
      /\ \A i \in DOMAIN donations' : donations'[i].refunded => i \in DOMAIN donations /\ donations'[i] = donations[i]
  BY <1>2, <1>3
<1>5. ASSUME NEW t \in Treasurers PROVE Refunding(t)'
  BY <1>1, <1>3, <1>4 DEF StarsInv, Refunding
<1>6. Stars!RefundsAreReal'
  BY <1>1, <1>4 DEF StarsInv, Stars!RefundsAreReal
<1>7. QED BY <1>1, <1>3, <1>5, <1>6 DEF StarsInv, SoleMarking

(* Telegram grants a refund of a charge that is paid, so that nobody had it granted before. *)
LEMMA RefundKeeps ==
  ASSUME StarsInv, NEW t \in Treasurers, Stars!Refund(t)
  PROVE  StarsInv'
<1>. DEFINE c == refunds[t].charge
<1>1. /\ refunds[t].step = "refunding" /\ charges[c] = "paid" /\ charges' = [charges EXCEPT ![c] = "refunded"]
      /\ refunds' = [refunds EXCEPT ![t] = IF refunds[t].row = 0 THEN Stars!NoRefund
                                           ELSE [refunds[t] EXCEPT !.step = "marking"]]
      /\ UNCHANGED <<messages, donations>>
  BY DEF Stars!Refund, Stars!Granted
<1>2. c \in Charges /\ DOMAIN charges = Charges /\ DOMAIN refunds = Treasurers
  BY <1>1 DEF StarsInv, Refunding
<1>3. charges'[c] = "refunded" /\ \A d \in Charges \ {c} : charges'[d] = charges[d]
  BY <1>1, <1>2
<1>4. \A i \in DOMAIN donations : donations[i].charge = c => ~donations[i].refunded
  BY <1>1 DEF StarsInv, Stars!RefundsAreReal
<1>5. \A u \in Treasurers : refunds[u].step = "marking" => refunds[u].charge # c
  BY <1>1 DEF StarsInv, Refunding
<1>6. \/ refunds'[t].step = "none"
      \/ refunds'[t].step = "marking" /\ refunds'[t].charge = c /\ refunds'[t].row = refunds[t].row /\ refunds[t].row # 0
  BY <1>1, <1>2 DEF Stars!NoRefund
<1>7. \A u \in Treasurers \ {t} : refunds'[u] = refunds[u]
  BY <1>1, <1>2
<1>8. donations' = donations
  BY <1>1
<1>. HIDE DEF c
<1>9. ASSUME NEW u \in Treasurers PROVE Refunding(u)'
  <2>1. CASE u = t
    <3>1. refunds[t].row # 0 => refunds[t].row \in DOMAIN donations /\ donations[refunds[t].row].charge = c
      BY <1>1 DEF StarsInv, Refunding, c
    <3>2. QED BY <1>2, <1>3, <1>4, <1>6, <1>8, <2>1, <3>1 DEF Refunding
  <2>2. CASE u # t
    <3>1. refunds'[u] = refunds[u] /\ Refunding(u)
      BY <1>7, <2>2 DEF StarsInv
    <3>2. refunds[u].step = "marking" => charges'[refunds[u].charge] = charges[refunds[u].charge]
      BY <1>3, <1>5, <3>1 DEF Refunding
    <3>3. QED BY <1>8, <3>1, <3>2 DEF Refunding
  <2>3. QED BY <2>1, <2>2
<1>10. SoleMarking'
  BY <1>5, <1>6, <1>7 DEF StarsInv, SoleMarking
<1>11. Stars!RefundsAreReal'
  <2>1. \A i \in DOMAIN donations : donations[i].charge \in Charges
    BY DonationsAre
  <2>2. QED BY <1>1, <1>3, <2>1 DEF StarsInv, Stars!RefundsAreReal
<1>12. DOMAIN refunds' = Treasurers /\ DOMAIN charges' = Charges
  BY <1>1, <1>2
<1>13. QED BY <1>1, <1>9, <1>10, <1>11, <1>12 DEF StarsInv

LEMMA MarkingKeeps ==
  ASSUME StarsInv, NEW t \in Treasurers, Stars!Mark(t)
  PROVE  StarsInv'
<1>. DEFINE place == refunds[t].row
            c == refunds[t].charge
<1>1. /\ refunds[t].step = "marking" /\ donations' = [donations EXCEPT ![place].refunded = TRUE]
      /\ refunds' = [refunds EXCEPT ![t] = Stars!NoRefund] /\ UNCHANGED <<charges, messages>>
  BY DEF Stars!Mark
<1>2. /\ place \in DOMAIN donations /\ donations[place].charge = c /\ charges[c] = "refunded"
      /\ \A i \in DOMAIN donations : donations[i].charge = c => ~donations[i].refunded
  BY <1>1 DEF StarsInv, Refunding
<1>3. DOMAIN refunds = Treasurers /\ donations \in Seq(Donation) /\ place \in 1..Len(donations)
  BY <1>2 DEF StarsInv
<1>4. donations[place] \in Donation /\ [donations[place] EXCEPT !.refunded = TRUE] \in Donation
  <2>1. donations[place] \in Donation
    BY <1>2, DonationsAre
  <2>2. QED BY <2>1 DEF Donation
<1>5. donations' = [donations EXCEPT ![place] = [donations[place] EXCEPT !.refunded = TRUE]]
  BY <1>1
<1>6. donations' \in Seq(Donation) /\ DOMAIN donations' = DOMAIN donations
  BY <1>3, <1>4, <1>5, ExceptSeq
<1>7. /\ \A i \in DOMAIN donations : donations'[i].charge = donations[i].charge
      /\ \A i \in DOMAIN donations : donations'[i].refunded => i = place \/ donations[i].refunded
  BY <1>2, <1>4, <1>5
<1>8. /\ refunds'[t].step = "none" /\ DOMAIN refunds' = Treasurers
      /\ \A u \in Treasurers \ {t} : refunds'[u] = refunds[u]
  BY <1>1, <1>3 DEF Stars!NoRefund
<1>. HIDE DEF place, c
<1>9. ASSUME NEW u \in Treasurers PROVE Refunding(u)'
  <2>1. CASE u = t
    BY <1>8, <2>1 DEF Refunding
  <2>2. CASE u # t
    <3>1. refunds'[u] = refunds[u] /\ Refunding(u)
      BY <1>8, <2>2 DEF StarsInv
    <3>2. refunds[u].step = "marking" => refunds[u].charge # c
      BY <1>1, <2>2 DEF StarsInv, SoleMarking, c
    <3>3. refunds[u].step = "marking" =>
            \A i \in DOMAIN donations : donations'[i].charge = refunds[u].charge => ~donations'[i].refunded
      BY <1>2, <1>7, <3>1, <3>2 DEF Refunding
    <3>4. QED BY <1>1, <1>6, <1>7, <3>1, <3>3 DEF Refunding
  <2>3. QED BY <2>1, <2>2
<1>10. SoleMarking'
  BY <1>8 DEF StarsInv, SoleMarking
<1>11. Stars!RefundsAreReal'
  BY <1>1, <1>2, <1>6, <1>7 DEF StarsInv, Stars!RefundsAreReal
<1>12. QED BY <1>1, <1>6, <1>8, <1>9, <1>10, <1>11 DEF StarsInv

LEMMA StarsStep == StarsInv /\ [Stars!Next]_starVars => StarsInv'
<1>. SUFFICES ASSUME StarsInv, [Stars!Next]_starVars PROVE StarsInv'
  OBVIOUS
<1>1. ASSUME NEW c \in Charges, Stars!Pay(c) PROVE StarsInv'
  <2>1. /\ charges[c] = "none" /\ charges' = [charges EXCEPT ![c] = "paid"] /\ messages' = messages \union {c}
        /\ UNCHANGED <<donations, refunds>> /\ DOMAIN charges = Charges
    BY <1>1 DEF Stars!Pay, StarsInv
  <2>2. DOMAIN charges' = Charges /\ \A d \in Charges : charges[d] = "refunded" => charges'[d] = "refunded"
    BY <2>1
  <2>3. ASSUME NEW t \in Treasurers PROVE Refunding(t)'
    BY <2>1, <2>2 DEF StarsInv, Refunding
  <2>4. Stars!RefundsAreReal'
    <3>1. \A i \in DOMAIN donations : donations[i].charge \in Charges
      BY DonationsAre
    <3>2. QED BY <2>1, <2>2, <3>1 DEF StarsInv, Stars!RefundsAreReal
  <2>5. QED BY <2>1, <2>2, <2>3, <2>4 DEF StarsInv, SoleMarking
<1>2. ASSUME NEW c \in Charges, Stars!Record(c) PROVE StarsInv'
  BY <1>2, RecordKeeps
<1>3. ASSUME NEW t \in Treasurers, Stars!Refund(t) \/ Stars!Mark(t) PROVE StarsInv'
  BY <1>3, RefundKeeps, MarkingKeeps
<1>4. ASSUME NEW t \in Treasurers, NEW i, NEW c,
             i = 0 \/ (i \in DOMAIN donations /\ c = donations[i].charge), c \in Charges,
             refunds' = [refunds EXCEPT ![t] = [step |-> "refunding", row |-> i, charge |-> c]],
             UNCHANGED <<charges, messages, donations>>
      PROVE  StarsInv'
  <2>1. DOMAIN refunds = Treasurers
    BY DEF StarsInv
  <2>2. /\ refunds'[t] = [step |-> "refunding", row |-> i, charge |-> c] /\ DOMAIN refunds' = Treasurers
        /\ \A u \in Treasurers \ {t} : refunds'[u] = refunds[u]
    BY <1>4, <2>1
  <2>3. ASSUME NEW u \in Treasurers PROVE Refunding(u)'
    BY <1>4, <2>2 DEF StarsInv, Refunding
  <2>4. QED BY <1>4, <2>2, <2>3 DEF StarsInv, SoleMarking, Stars!RefundsAreReal
<1>5. ASSUME NEW t \in Treasurers, NEW i \in DOMAIN donations, Stars!GiveBack(t, i) PROVE StarsInv'
  <2>1. donations[i].charge \in Charges
    BY DonationsAre
  <2>2. QED BY <1>4, <1>5, <2>1 DEF Stars!GiveBack
<1>6. ASSUME NEW t \in Treasurers, NEW c \in Charges, Stars!GiveBackDirectly(t, c) PROVE StarsInv'
  BY <1>4, <1>6 DEF Stars!GiveBackDirectly
<1>7. ASSUME UNCHANGED <<charges, donations>>, messages' \subseteq Charges, DOMAIN refunds' = Treasurers,
             \A t \in Treasurers : refunds'[t] \in {refunds[t], Stars!NoRefund}
      PROVE  StarsInv'
  <2>1. \A t \in Treasurers : refunds'[t] = refunds[t] \/ refunds'[t].step = "none"
    BY <1>7 DEF Stars!NoRefund
  <2>2. ASSUME NEW t \in Treasurers PROVE Refunding(t)'
    BY <1>7, <2>1 DEF StarsInv, Refunding
  <2>3. QED BY <1>7, <2>1, <2>2 DEF StarsInv, SoleMarking, Stars!RefundsAreReal
<1>8. ASSUME \/ \E c \in Charges : Stars!RecordFails(c)
             \/ \E t \in Treasurers : Stars!RefundRefused(t) \/ Stars!MarkFails(t)
             \/ Stars!Crash \/ UNCHANGED starVars
      PROVE  StarsInv'
  <2>1. messages \subseteq Charges /\ DOMAIN refunds = Treasurers
    BY DEF StarsInv
  <2>2. UNCHANGED <<charges, donations>> /\ messages' \subseteq Charges
    BY <1>8, <2>1 DEF Stars!RecordFails, Stars!RefundRefused, Stars!MarkFails, Stars!Crash, starVars
  <2>3. DOMAIN refunds' = Treasurers /\ \A t \in Treasurers : refunds'[t] \in {refunds[t], Stars!NoRefund}
    BY <1>8, <2>1 DEF Stars!RecordFails, Stars!RefundRefused, Stars!MarkFails, Stars!Crash, starVars
  <2>4. QED BY <1>7, <2>2, <2>3
<1>9. QED BY <1>1, <1>2, <1>3, <1>5, <1>6, <1>8 DEF Stars!Next

LEMMA StarsStart == Stars!Init => StarsInv
<1>. SUFFICES ASSUME Stars!Init PROVE StarsInv
  OBVIOUS
<1>1. /\ donations = <<>> /\ messages = {} /\ charges = [c \in Charges |-> "none"]
      /\ refunds = [t \in Treasurers |-> Stars!NoRefund]
  BY DEF Stars!Init
<1>2. DOMAIN donations = {} /\ donations \in Seq(Donation)
  BY <1>1
<1>3. \A t \in Treasurers : refunds[t].step = "none"
  BY <1>1 DEF Stars!NoRefund
<1>4. QED BY <1>1, <1>2, <1>3 DEF StarsInv, Refunding, SoleMarking, Stars!RefundsAreReal

-----------------------------------------------------------------------------
(* Chats of many *)

Subscription == IF row = Chats!NoRow THEN Chats!Nothing ELSE row
Arriving == {"setup", "startgroup", "set", "status", "clear", "text"}

(* Who registers has read what was decided last, or is late; the row a choice is
   written into is there. *)
InHand(s) ==
  /\ ~Chats!At(s, "resting") => {"step", "base", "late"} \subseteq DOMAIN handlers[s]
  /\ Chats!At(s, "registering") =>
       /\ handlers[s].base # Chats!NoRow
       /\ ~outrun => handlers[s].late = TRUE \/ handlers[s].base = decided
  /\ Chats!At(s, "checking") /\ network = "telegram" =>
       handlers[s].kind = "startgroup" \/ row # Chats!NoRow
  /\ Chats!At(s, "resolving") /\ network = "telegram" => row # Chats!NoRow
  /\ Chats!At(s, "saving") => row # Chats!NoRow /\ handlers[s].wish \in Choices

ChatsInv ==
  /\ outrun \in BOOLEAN /\ network \in {"telegram", "vk"}
  /\ DOMAIN handlers = Slots /\ \A s \in Slots : InHand(s)
  /\ Chats!ChoiceKept

(* The handler s goes to another step of what it is at, and the chat stays as it is. *)
LEMMA ChatGoes ==
  ASSUME ChatsInv, NEW s \in Slots, UNCHANGED <<network, outrun, decided>>,
         NEW h, handlers' = [handlers EXCEPT ![s] = h],
         Subscription' = Subscription, row # Chats!NoRow => row' # Chats!NoRow,
         h.step # "resting" => {"step", "base", "late"} \subseteq DOMAIN h,
         h.step = "registering" => h.base # Chats!NoRow /\ (h.base = Subscription \/ h.late = TRUE),
         h.step = "checking" /\ network = "telegram" => h.kind = "startgroup" \/ row' # Chats!NoRow,
         h.step = "resolving" /\ network = "telegram" => row' # Chats!NoRow,
         h.step = "saving" => row' # Chats!NoRow /\ h.wish \in Choices
  PROVE  ChatsInv'
<1>1. /\ DOMAIN handlers' = Slots /\ handlers'[s] = h
      /\ \A r \in Slots \ {s} : handlers'[r] = handlers[r]
  BY DEF ChatsInv
<1>2. ~outrun => Subscription = decided
  BY DEF ChatsInv, Chats!ChoiceKept, Subscription
<1>3. InHand(s)'
  BY <1>1, <1>2 DEF InHand, Chats!At
<1>4. ASSUME NEW r \in Slots \ {s} PROVE InHand(r)'
  BY <1>1 DEF ChatsInv, InHand, Chats!At
<1>5. Chats!ChoiceKept'
  BY DEF ChatsInv, Chats!ChoiceKept, Subscription
<1>6. QED BY <1>1, <1>3, <1>4, <1>5 DEF ChatsInv

(* The administrators decide, and whoever has read the row before is late. *)
LEMMA DecideKeeps ==
  ASSUME ChatsInv, NEW s \in Slots, NEW c, Chats!Decide(s, c), UNCHANGED network,
         Subscription' = c, row # Chats!NoRow => row' # Chats!NoRow
  PROVE  ChatsInv'
<1>1. /\ decided' = c /\ outrun' = FALSE
      /\ handlers' = [r \in Slots |-> IF r = s THEN Chats!Resting
                        ELSE IF Chats!At(r, "registering") THEN [handlers[r] EXCEPT !.late = TRUE] ELSE handlers[r]]
  BY DEF Chats!Decide
<1>2. ASSUME NEW r \in Slots PROVE InHand(r)'
  <2>1. CASE r = s
    BY <1>1, <2>1 DEF InHand, Chats!At, Chats!Resting
  <2>2. CASE r # s /\ Chats!At(r, "registering")
    <3>1. handlers'[r] = [handlers[r] EXCEPT !.late = TRUE] /\ handlers[r].step = "registering"
      BY <1>1, <2>2 DEF Chats!At
    <3>2. InHand(r) /\ {"step", "base", "late"} \subseteq DOMAIN handlers[r]
      BY <3>1 DEF ChatsInv, InHand, Chats!At
    <3>3. /\ handlers'[r].step = "registering" /\ handlers'[r].base = handlers[r].base
          /\ handlers'[r].late = TRUE /\ DOMAIN handlers'[r] = DOMAIN handlers[r]
      BY <3>1, <3>2
    <3>4. QED BY <2>2, <3>2, <3>3 DEF InHand, Chats!At
  <2>3. CASE r # s /\ ~Chats!At(r, "registering")
    <3>1. handlers'[r] = handlers[r]
      BY <1>1, <2>3
    <3>2. QED BY <2>3, <3>1 DEF ChatsInv, InHand, Chats!At
  <2>4. QED BY <2>1, <2>2, <2>3
<1>3. QED BY <1>1, <1>2 DEF ChatsInv, Chats!ChoiceKept, Subscription

LEMMA ChatEnds ==
  ASSUME ChatsInv, NEW s \in Slots, Chats!Ends(s), UNCHANGED <<network, outrun, decided>>,
         Subscription' = Subscription, row # Chats!NoRow => row' # Chats!NoRow
  PROVE  ChatsInv'
<1>1. PICK h : h = Chats!Resting
  OBVIOUS
<1>2. h.step = "resting"
  BY <1>1 DEF Chats!Resting
<1>3. handlers' = [handlers EXCEPT ![s] = h]
  BY <1>1 DEF Chats!Ends
<1>4. QED BY <1>2, <1>3, ChatGoes

LEMMA ChatGoesOn ==
  ASSUME ChatsInv, NEW s \in Slots, NEW next \in {"checking", "resolving", "saving", "clearing"}, Chats!Goes(s, next),
         ~Chats!At(s, "resting"), UNCHANGED <<network, outrun, decided>>,
         Subscription' = Subscription, row # Chats!NoRow => row' # Chats!NoRow,
         next \in {"checking", "resolving"} /\ network = "telegram" =>
           row' # Chats!NoRow \/ (next = "checking" /\ handlers[s].kind = "startgroup"),
         next = "saving" => row' # Chats!NoRow /\ handlers[s].wish \in Choices
  PROVE  ChatsInv'
<1>1. PICK h : h = [handlers[s] EXCEPT !.step = next]
  OBVIOUS
<1>2. {"step", "base", "late"} \subseteq DOMAIN handlers[s] /\ DOMAIN handlers = Slots
  BY DEF ChatsInv, InHand
<1>3. /\ h.step = next /\ h.kind = handlers[s].kind /\ h.wish = handlers[s].wish
      /\ {"step", "base", "late"} \subseteq DOMAIN h
  BY <1>1, <1>2
<1>4. handlers' = [handlers EXCEPT ![s] = h]
  BY <1>1, <1>2 DEF Chats!Goes
<1>5. QED BY <1>3, <1>4, ChatGoes

(* What has been read of the row is written back. *)
LEMMA RegistersKeeps ==
  ASSUME ChatsInv, NEW s \in Slots, Chats!Registers(s)
  PROVE  ChatsInv'
<1>. DEFINE base == handlers[s].base
<1>1. /\ Chats!At(s, "registering") /\ row' = Chats!Upserted(base) /\ UNCHANGED <<network, decided>>
      /\ outrun' = (outrun \/ (handlers[s].late /\ base # Chats!Nothing))
      /\ Chats!Ends(s) \/ Chats!Goes(s, "checking")
  BY DEF Chats!Registers
<1>2. /\ base # Chats!NoRow /\ {"step", "base", "late"} \subseteq DOMAIN handlers[s] /\ DOMAIN handlers = Slots
      /\ ~outrun => handlers[s].late = TRUE \/ base = decided
  BY <1>1 DEF ChatsInv, InHand, Chats!At
<1>3. row' # Chats!NoRow
  BY <1>1, <1>2 DEF Chats!Upserted, Chats!NoRow, Chats!Nothing
<1>4. /\ outrun' \in BOOLEAN
      /\ outrun => outrun'
      /\ ~outrun' /\ handlers[s].late = TRUE => base = Chats!Nothing
  BY <1>1
<1>5. base = Chats!Nothing => Subscription' = Subscription
  BY <1>1, <1>3 DEF Chats!Upserted, Subscription
<1>6. ~outrun => Subscription = decided
  BY DEF ChatsInv, Chats!ChoiceKept, Subscription
<1>7. ASSUME ~outrun' PROVE Subscription' = decided
  <2>1. ~outrun
    BY <1>4, <1>7, Zenon
  <2>2. CASE base = Chats!Nothing
    <3>1. Subscription' = Subscription
      BY <1>5, <2>2, Zenon
    <3>2. QED BY <1>6, <2>1, <3>1, Zenon
  <2>3. CASE base # Chats!Nothing
    <3>1. ~(handlers[s].late = TRUE)
      BY <1>4, <1>7, <2>3, Zenon
    <3>2. base = decided
      BY <1>2, <2>1, <3>1, Zenon
    <3>3. Subscription' = base
      BY <1>1, <1>3, <2>3 DEF Chats!Upserted, Subscription
    <3>4. QED BY <3>2, <3>3
  <2>4. QED BY <2>2, <2>3, Zenon
<1>. HIDE DEF base
<1>8. DOMAIN handlers' = Slots /\ \A r \in Slots \ {s} : handlers'[r] = handlers[r]
  BY <1>1, <1>2 DEF Chats!Ends, Chats!Goes
<1>9. ASSUME NEW r \in Slots \ {s} PROVE InHand(r)'
  BY <1>1, <1>3, <1>4, <1>8 DEF ChatsInv, InHand, Chats!At
<1>10. InHand(s)'
  <2>1. CASE Chats!Ends(s)
    <3>1. handlers'[s].step = "resting"
      BY <1>2, <2>1 DEF Chats!Ends, Chats!Resting
    <3>2. QED BY <3>1 DEF InHand, Chats!At
  <2>2. CASE Chats!Goes(s, "checking")
    <3>1. handlers'[s].step = "checking" /\ {"step", "base", "late"} \subseteq DOMAIN handlers'[s]
      BY <1>2, <2>2 DEF Chats!Goes
    <3>2. QED BY <1>3, <3>1 DEF InHand, Chats!At
  <2>3. QED BY <1>1, <2>1, <2>2
<1>11. Chats!ChoiceKept'
  <2>1. ~outrun' => Subscription' = decided'
    BY <1>1, <1>7, Zenon
  <2>2. QED BY <2>1, Zenon DEF Chats!ChoiceKept, Subscription
<1>12. QED BY <1>1, <1>4, <1>8, <1>9, <1>10, <1>11 DEF ChatsInv

LEMMA ChatsStep == ChatsInv /\ [Chats!Next]_chatVars => ChatsInv'
<1>. SUFFICES ASSUME ChatsInv, [Chats!Next]_chatVars PROVE ChatsInv'
  OBVIOUS
<1>0. DOMAIN handlers = Slots
  BY DEF ChatsInv
<1>1. ASSUME NEW s \in Slots, NEW p, NEW wish, NEW kind, Chats!Arrives(s, p, kind, wish) PROVE ChatsInv'
  <2>. DEFINE h == [step |-> IF network = "vk" \/ kind = "startgroup" THEN "checking" ELSE "reading",
                    kind |-> kind, member |-> p, wish |-> wish, base |-> Chats!Nothing, late |-> FALSE]
  <2>1. handlers' = [handlers EXCEPT ![s] = h] /\ UNCHANGED <<network, row, decided, outrun>>
    BY <1>1 DEF Chats!Arrives
  <2>2. /\ h.step = "reading" \/ (h.step = "checking" /\ (network = "vk" \/ h.kind = "startgroup"))
        /\ {"step", "base", "late"} \subseteq DOMAIN h
    OBVIOUS
  <2>. HIDE DEF h
  <2>3. QED BY <2>1, <2>2, ChatGoes DEF Subscription
<1>2. ASSUME NEW s \in Slots, Chats!Reads(s) PROVE ChatsInv'
  <2>. DEFINE h == [handlers[s] EXCEPT !.step = "registering", !.base = Subscription]
  <2>1. handlers[s].step = "reading" /\ {"step", "base", "late"} \subseteq DOMAIN handlers[s]
    BY <1>2 DEF Chats!Reads, Chats!At, ChatsInv, InHand
  <2>2. handlers' = [handlers EXCEPT ![s] = h] /\ UNCHANGED <<network, row, decided, outrun>>
    BY <1>0, <1>2 DEF Chats!Reads, Subscription
  <2>3. h.step = "registering" /\ h.base = Subscription /\ {"step", "base", "late"} \subseteq DOMAIN h
    BY <2>1
  <2>4. Subscription # Chats!NoRow
    BY DEF Subscription, Chats!NoRow, Chats!Nothing
  <2>. HIDE DEF h
  <2>5. QED BY <2>2, <2>3, <2>4, ChatGoes DEF Subscription
<1>3. ASSUME NEW s \in Slots, Chats!Registers(s) PROVE ChatsInv'
  BY <1>3, RegistersKeeps
<1>4. ASSUME NEW s \in Slots, Chats!Invites(s) \/ Chats!TurnedAway(s) \/ Chats!WriteFails(s) PROVE ChatsInv'
  BY <1>4, ChatEnds DEF Chats!Invites, Chats!TurnedAway, Chats!WriteFails, Subscription
<1>5. ASSUME NEW s \in Slots, Chats!Looks(s) PROVE ChatsInv'
  <2>1. /\ Chats!At(s, "checking") /\ handlers[s].kind \in {"set", "text"} /\ Chats!Goes(s, "resolving")
        /\ UNCHANGED <<network, row, decided, outrun>>
    BY <1>5 DEF Chats!Looks
  <2>2. ~Chats!At(s, "resting") /\ (network = "telegram" => row # Chats!NoRow)
    BY <2>1 DEF ChatsInv, InHand, Chats!At
  <2>3. QED BY <2>1, <2>2, ChatGoesOn DEF Subscription
<1>6. ASSUME NEW s \in Slots, Chats!Dismisses(s) PROVE ChatsInv'
  <2>1. /\ Chats!At(s, "checking") /\ Chats!Goes(s, "clearing") /\ UNCHANGED <<network, row, decided, outrun>>
    BY <1>6 DEF Chats!Dismisses
  <2>2. ~Chats!At(s, "resting")
    BY <2>1 DEF Chats!At
  <2>3. QED BY <2>1, <2>2, ChatGoesOn DEF Subscription
<1>7. row # Chats!NoRow => Chats!RowMade # Chats!NoRow
  BY DEF Chats!RowMade
<1>8. row' = Chats!RowMade => Subscription' = Subscription
  BY DEF Chats!RowMade, Subscription, Chats!NoRow, Chats!Nothing
<1>9. ASSUME NEW s \in Slots, Chats!Found(s) PROVE ChatsInv'
  <2>1. /\ Chats!At(s, "resolving") /\ handlers[s].wish \in Choices /\ row' = Chats!RowMade
        /\ Chats!Goes(s, "saving") /\ UNCHANGED <<network, decided, outrun>>
    BY <1>9 DEF Chats!Found
  <2>2. ~Chats!At(s, "resting")
    BY <2>1 DEF Chats!At
  <2>3. row' # Chats!NoRow
    BY <2>1 DEF ChatsInv, InHand, Chats!RowMade, Chats!NoRow, Chats!Nothing
  <2>4. QED BY <1>8, <2>1, <2>2, <2>3, ChatGoesOn
<1>10. ASSUME NEW s \in Slots, Chats!NotFound(s) PROVE ChatsInv'
  BY <1>7, <1>8, <1>10, ChatEnds DEF Chats!NotFound
<1>11. ASSUME NEW s \in Slots, Chats!Saves(s) PROVE ChatsInv'
  <2>1. row # Chats!NoRow /\ handlers[s].wish \in Choices
    BY <1>11 DEF ChatsInv, InHand, Chats!Saves
  <2>2. row' = handlers[s].wish /\ row' # Chats!NoRow
    BY <1>11, <2>1, ChoicesAssumption DEF Chats!Saves, Chats!NoRow
  <2>3. QED BY <1>11, <2>2, DecideKeeps DEF Chats!Saves, Subscription
<1>12. ASSUME NEW s \in Slots, Chats!Clears(s) PROVE ChatsInv'
  <2>1. Subscription' = Chats!Nothing /\ (row # Chats!NoRow => row' # Chats!NoRow)
    BY <1>12 DEF Chats!Clears, Subscription, Chats!NoRow, Chats!Nothing
  <2>2. QED BY <1>12, <2>1, DecideKeeps DEF Chats!Clears
<1>13. ASSUME Chats!Restart PROVE ChatsInv'
  <2>1. \A s \in Slots : handlers'[s].step = "resting"
    BY <1>13 DEF Chats!Restart, Chats!Resting
  <2>2. QED BY <1>13, <2>1 DEF Chats!Restart, ChatsInv, InHand, Chats!At, Chats!ChoiceKept
<1>14. CASE Chats!RightsChange \/ UNCHANGED chatVars
  BY <1>14 DEF Chats!RightsChange, chatVars, ChatsInv, InHand, Chats!At, Chats!ChoiceKept
<1>15. QED BY <1>1, <1>2, <1>3, <1>4, <1>5, <1>6, <1>9, <1>10, <1>11, <1>12, <1>13, <1>14 DEF Chats!Next

LEMMA ChatsStart == Chats!Init => ChatsInv
<1>. SUFFICES ASSUME Chats!Init PROVE ChatsInv
  OBVIOUS
<1>1. /\ network \in {"telegram", "vk"} /\ row = Chats!NoRow /\ decided = Chats!Nothing /\ outrun = FALSE
      /\ handlers = [s \in Slots |-> Chats!Resting]
  BY DEF Chats!Init
<1>2. \A s \in Slots : handlers[s].step = "resting"
  BY <1>1 DEF Chats!Resting
<1>3. QED BY <1>1, <1>2 DEF ChatsInv, InHand, Chats!At, Chats!ChoiceKept

-----------------------------------------------------------------------------
(* Texts of an administrator in Telegram *)

OneShots == {"report", "campaign"}
LooksForRoom(t) == task[t].pc = "looking" /\ task[t].kind = "audience"

(* A text which has not been let out yet. *)
Unsent(n) == n \in 1..texts /\ \A i \in DOMAIN gone : gone[i] # n

(* A text that may be let out is kept in one place: it is out, or in the draft of a report or a
   campaign, or the name of a room that is looked for. *)
TextsInv ==
  /\ texts \in Nat /\ gone \in Seq(1..texts) /\ Dialogue!TextUsedOnce
  /\ DOMAIN task = Tasks /\ "audience" \notin DOMAIN written
  /\ \A k \in OneShots \cap DOMAIN written : Unsent(written[k][1])
  /\ \A t \in Tasks : LooksForRoom(t) => Unsent(task[t].draft[1])
  /\ \A k, l \in OneShots \cap DOMAIN written : k # l => written[k][1] # written[l][1]
  /\ \A t \in Tasks, k \in OneShots \cap DOMAIN written : LooksForRoom(t) => task[t].draft[1] # written[k][1]
  /\ \A t, u \in Tasks : t # u /\ LooksForRoom(t) /\ LooksForRoom(u) => task[t].draft[1] # task[u].draft[1]

(* The places of this step are those of the last one, except for what left them. *)
KeepsDrafts ==
  /\ "audience" \notin DOMAIN written'
  /\ \A k \in OneShots \cap DOMAIN written' : k \in DOMAIN written /\ written'[k][1] = written[k][1]
KeepsPlaces ==
  /\ KeepsDrafts /\ DOMAIN task' = Tasks
  /\ \A t \in Tasks : LooksForRoom(t)' => LooksForRoom(t) /\ task'[t].draft = task[t].draft

(* Nothing is let out; texts may come. *)
LEMMA TextsStay ==
  ASSUME TextsInv, gone' = gone, texts' \in Nat, texts <= texts', KeepsPlaces
  PROVE  TextsInv'
<1>1. ASSUME NEW n, Unsent(n) PROVE Unsent(n)'
  BY <1>1 DEF TextsInv, Unsent
<1>2. gone' \in Seq(1..texts')
  <2>1. \A i \in 1..Len(gone) : gone[i] \in 1..texts'
    BY ElementOfSeq DEF TextsInv
  <2>2. gone \in Seq(1..texts')
    BY <2>1, IsASeq, LenProperties DEF TextsInv
  <2>3. QED BY <2>2
<1>3. Dialogue!TextUsedOnce'
  BY DEF TextsInv, Dialogue!TextUsedOnce, Dialogue!IsInjective
<1>4. (\A k \in OneShots \cap DOMAIN written : Unsent(written[k][1]))'
  BY <1>1 DEF TextsInv, KeepsPlaces, KeepsDrafts
<1>5. (\A t \in Tasks : LooksForRoom(t) => Unsent(task[t].draft[1]))'
  BY <1>1 DEF TextsInv, KeepsPlaces
<1>6. QED BY <1>2, <1>3, <1>4, <1>5 DEF TextsInv, KeepsPlaces, KeepsDrafts

(* A text is let out of its place. *)
LEMMA TextLeaves ==
  ASSUME TextsInv, texts' \in Nat, texts <= texts', NEW n \in 1..texts', \A i \in DOMAIN gone : gone[i] # n,
         gone' = Append(gone, n), KeepsPlaces,
         \A k \in OneShots \cap DOMAIN written' : written[k][1] # n,
         \A t \in Tasks : LooksForRoom(t)' => task[t].draft[1] # n
  PROVE  TextsInv'
<1>1. gone \in Seq(1..texts')
  <2>1. \A i \in 1..Len(gone) : gone[i] \in 1..texts'
    BY ElementOfSeq DEF TextsInv
  <2>2. QED BY <2>1, IsASeq, LenProperties DEF TextsInv
<1>2. /\ gone' \in Seq(1..texts') /\ DOMAIN gone = 1..Len(gone) /\ Len(gone) \in Nat
      /\ DOMAIN gone' = 1..(Len(gone) + 1)
      /\ \A i \in 1..Len(gone) : gone'[i] = gone[i]
      /\ gone'[Len(gone) + 1] = n
  BY <1>1, AppendIs
<1>3. ASSUME NEW m, Unsent(m), m # n PROVE Unsent(m)'
  <2>1. m \in 1..texts'
    BY <1>3 DEF TextsInv, Unsent
  <2>2. QED BY <1>2, <1>3, <2>1 DEF Unsent
<1>4. Dialogue!TextUsedOnce'
  BY <1>2 DEF TextsInv, Dialogue!TextUsedOnce, Dialogue!IsInjective
<1>5. (\A k \in OneShots \cap DOMAIN written : Unsent(written[k][1]))'
  BY <1>3 DEF TextsInv, KeepsPlaces, KeepsDrafts
<1>6. (\A t \in Tasks : LooksForRoom(t) => Unsent(task[t].draft[1]))'
  BY <1>3 DEF TextsInv, KeepsPlaces
<1>7. QED BY <1>2, <1>4, <1>5, <1>6 DEF TextsInv, KeepsPlaces, KeepsDrafts

(* The text of this step is in the draft of the scenarios K, or in the hands of the tasks T. *)
NewPlaces(K, T) ==
  /\ DOMAIN task' = Tasks /\ "audience" \notin DOMAIN written'
  /\ K \in SUBSET OneShots /\ T \in SUBSET Tasks /\ (K = {} \/ T = {})
  /\ \A k, l \in K : k = l
  /\ \A t, u \in T : t = u
  /\ \A k \in OneShots \cap DOMAIN written' :
        IF k \in K THEN written'[k][1] = texts + 1 ELSE k \in DOMAIN written /\ written'[k] = written[k]
  /\ \A t \in Tasks : LooksForRoom(t)' =>
        IF t \in T THEN task'[t].draft[1] = texts + 1 ELSE LooksForRoom(t) /\ task'[t].draft = task[t].draft

(* A text comes and becomes the draft of a report or a campaign, or the name of a room. *)
LEMMA TextComes ==
  ASSUME TextsInv, gone' = gone, texts' = texts + 1, NEW K, NEW T, NewPlaces(K, T)
  PROVE  TextsInv'
<1>0. PICK m : m = texts + 1
  OBVIOUS
<1>1. /\ Unsent(m)' /\ texts' \in Nat /\ texts <= texts'
      /\ \A n : Unsent(n) => n # m
  <2>1. \A i \in DOMAIN gone : gone[i] # texts + 1
    BY ElementOfSeq DEF TextsInv
  <2>2. \A n : Unsent(n) => n # m
    BY <1>0 DEF TextsInv, Unsent
  <2>3. Unsent(m)'
    BY <1>0, <2>1 DEF TextsInv, Unsent
  <2>4. QED BY <2>2, <2>3 DEF TextsInv
<1>2. ASSUME NEW n, Unsent(n) PROVE Unsent(n)'
  BY <1>2 DEF TextsInv, Unsent
<1>3. gone' \in Seq(1..texts')
  <2>1. \A i \in 1..Len(gone) : gone[i] \in 1..texts'
    BY <1>1, ElementOfSeq DEF TextsInv
  <2>2. gone \in Seq(1..texts')
    BY <2>1, IsASeq, LenProperties DEF TextsInv
  <2>3. QED BY <2>2
<1>4. Dialogue!TextUsedOnce'
  BY DEF TextsInv, Dialogue!TextUsedOnce, Dialogue!IsInjective
<1>5. (\A k \in OneShots \cap DOMAIN written : Unsent(written[k][1]))'
  BY <1>0, <1>1, <1>2 DEF TextsInv, NewPlaces
<1>6. (\A t \in Tasks : LooksForRoom(t) => Unsent(task[t].draft[1]))'
  BY <1>0, <1>1, <1>2 DEF TextsInv, NewPlaces
<1>7. \A k, l \in OneShots \cap DOMAIN written' : k # l => written'[k][1] # written'[l][1]
  BY <1>0, <1>1 DEF TextsInv, NewPlaces
<1>8. ASSUME NEW t \in Tasks, NEW k \in OneShots \cap DOMAIN written', LooksForRoom(t)'
      PROVE  task'[t].draft[1] # written'[k][1]
  <2>1. CASE k \in K
    BY <1>0, <1>1, <1>8, <2>1 DEF TextsInv, NewPlaces
  <2>2. CASE k \notin K /\ t \in T
    BY <1>0, <1>1, <1>8, <2>2 DEF TextsInv, NewPlaces
  <2>3. CASE k \notin K /\ t \notin T
    BY <1>8, <2>3 DEF TextsInv, NewPlaces
  <2>4. QED BY <2>1, <2>2, <2>3
<1>9. \A t, u \in Tasks : t # u /\ LooksForRoom(t)' /\ LooksForRoom(u)' => task'[t].draft[1] # task'[u].draft[1]
  BY <1>0, <1>1 DEF TextsInv, NewPlaces
<1>10. \A t \in Tasks, k \in OneShots \cap DOMAIN written' : LooksForRoom(t)' => task'[t].draft[1] # written'[k][1]
  BY <1>8
<1>11. QED BY <1>1, <1>3, <1>4, <1>5, <1>6, <1>7, <1>9, <1>10 DEF TextsInv, NewPlaces

(* What a task becomes. *)
Task(pc, k, d, i) == [pc |-> pc, kind |-> k, draft |-> d, form |-> i]

LEMMA TaskIs ==
  ASSUME NEW pc, NEW k, NEW d, NEW i
  PROVE  /\ Task(pc, k, d, i).pc = pc /\ Task(pc, k, d, i).kind = k
         /\ Task(pc, k, d, i).draft = d /\ Task(pc, k, d, i).form = i
         /\ Dialogue!Free = Task("free", "none", <<>>, 0)
  BY DEF Task, Dialogue!Free

LEMMA TaskGoes ==
  ASSUME NEW t \in Tasks, NEW r, DOMAIN task = Tasks, task' = [task EXCEPT ![t] = r]
  PROVE  DOMAIN task' = Tasks /\ task'[t] = r /\ \A u \in Tasks \ {t} : task'[u] = task[u]
  OBVIOUS

(* A task goes on; it looks for no room. *)
LEMMA TaskKeeps ==
  ASSUME TextsInv, NEW t \in Tasks, NEW pc, NEW k, NEW d, NEW i, task' = [task EXCEPT ![t] = Task(pc, k, d, i)],
         pc = "looking" => k # "audience", gone' = gone, texts' \in {texts, texts + 1}, KeepsDrafts
  PROVE  TextsInv'
<1>1. PICK r : r = Task(pc, k, d, i) /\ r.pc = pc /\ r.kind = k
  BY TaskIs
<1>2. DOMAIN task' = Tasks /\ task'[t] = r /\ \A u \in Tasks \ {t} : task'[u] = task[u]
  BY <1>1, TaskGoes DEF TextsInv
<1>3. KeepsPlaces
  BY <1>1, <1>2 DEF KeepsPlaces, LooksForRoom
<1>4. texts' \in Nat /\ texts <= texts'
  BY DEF TextsInv
<1>5. QED BY <1>3, <1>4, TextsStay

LEMMA TaskEndsKeeps ==
  ASSUME TextsInv, NEW t \in Tasks, Dialogue!Ends(t), gone' = gone, texts' \in {texts, texts + 1}, KeepsDrafts
  PROVE  TextsInv'
<1>1. task' = [task EXCEPT ![t] = Task("free", "none", <<>>, 0)]
  BY TaskIs DEF Dialogue!Ends
<1>2. QED BY <1>1, TaskKeeps

(* A draft is stored, and its handler ends or shows it. *)
LEMMA StoringTask ==
  ASSUME NEW t \in Tasks, NEW k, NEW d, Dialogue!Stores(t, k, d)
  PROVE  /\ gone' = gone /\ written' = Dialogue!With(written, k, d)
         /\ \E pc, l, e : task' = [task EXCEPT ![t] = Task(pc, l, e, 0)] /\ pc \in {"showing", "free"}
  BY TaskIs DEF Dialogue!Stores, Dialogue!Silent, Dialogue!Goes, Dialogue!Ends, Task

LEMMA StoringForm ==
  ASSUME NEW t \in Tasks, NEW k, NEW i, NEW f, Dialogue!StoresForm(t, k, i, f)
  PROVE  /\ gone' = gone /\ written' = Dialogue!With(written, k, i)
         /\ \E pc, l, e : task' = [task EXCEPT ![t] = Task(pc, l, e, 0)] /\ pc \in {"showing", "free"}
  BY TaskIs DEF Dialogue!StoresForm, Dialogue!Silent, Dialogue!Goes, Dialogue!Ends, Task

LEMMA DraftElsewhere ==
  ASSUME TextsInv, NEW k, NEW d, k \notin OneShots \cup {"audience"}, written' = Dialogue!With(written, k, d)
  PROVE  KeepsDrafts
<1>1. DOMAIN written' = DOMAIN written \cup {k} /\ \A l \in DOMAIN written \ {k} : written'[l] = written[l]
  BY DEF Dialogue!With
<1>2. QED BY <1>1 DEF KeepsDrafts, TextsInv

LEMMA DraftDropped ==
  ASSUME TextsInv, NEW K, written' = Dialogue!Without(written, K)
  PROVE  KeepsDrafts
<1>1. DOMAIN written' = DOMAIN written \ K /\ \A l \in DOMAIN written' : written'[l] = written[l]
  BY DEF Dialogue!Without
<1>2. QED BY <1>1 DEF KeepsDrafts, TextsInv

LEMMA SameDrafts ==
  ASSUME TextsInv, written' = written
  PROVE  KeepsDrafts
  BY DEF KeepsDrafts, TextsInv

(* A text is stored as the draft of a report or a campaign. *)
LEMMA OneShotKeeps ==
  ASSUME TextsInv, NEW t \in Tasks, NEW k \in OneShots, Dialogue!Stores(t, k, Dialogue!NewDraft(k)), texts' = texts + 1
  PROVE  TextsInv'
<1>1. PICK d : d = Dialogue!NewDraft(k) /\ d[1] = texts + 1
  BY DEF Dialogue!NewDraft, Dialogue!Text
<1>2. gone' = gone /\ written' = Dialogue!With(written, k, d)
  BY <1>1, StoringTask
<1>3. PICK r : task' = [task EXCEPT ![t] = r] /\ r.pc # "looking"
  BY <1>1, StoringTask, TaskIs
<1>4. DOMAIN task' = Tasks /\ task'[t] = r /\ \A u \in Tasks \ {t} : task'[u] = task[u]
  BY <1>3, TaskGoes DEF TextsInv
<1>5. DOMAIN written' = DOMAIN written \cup {k} /\ written'[k] = d /\ \A l \in DOMAIN written \ {k} : written'[l] = written[l]
  BY <1>2 DEF Dialogue!With
<1>6. PICK K, T : K = {k} /\ T = {}
  OBVIOUS
<1>7. "audience" \notin DOMAIN written'
  BY <1>5 DEF TextsInv, OneShots
<1>8. /\ K \in SUBSET OneShots /\ T \in SUBSET Tasks /\ (K = {} \/ T = {})
      /\ \A l, m \in K : l = m
      /\ \A u, v \in T : u = v
  BY <1>6
<1>9. \A l \in OneShots \cap DOMAIN written' :
         IF l \in K THEN written'[l][1] = texts + 1 ELSE l \in DOMAIN written /\ written'[l] = written[l]
  BY <1>1, <1>5, <1>6
<1>10. \A u \in Tasks : LooksForRoom(u)' => u \notin T /\ LooksForRoom(u) /\ task'[u].draft = task[u].draft
  BY <1>3, <1>4, <1>6 DEF LooksForRoom
<1>11. NewPlaces(K, T)
  BY <1>4, <1>7, <1>8, <1>9, <1>10 DEF NewPlaces
<1>12. QED BY <1>2, <1>11, TextComes

(* A text is taken for the name of a room. *)
LEMMA RoomKeeps ==
  ASSUME TextsInv, NEW t \in Tasks, Dialogue!LookUp(t, "audience")
  PROVE  TextsInv'
<1>0. <<texts + 1>>[1] = texts + 1
  OBVIOUS
<1>1. PICK d : d = <<texts + 1>> /\ d[1] = texts + 1
  BY <1>0
<1>2. PICK r : r = Task("looking", "audience", d, 0) /\ r.pc = "looking" /\ r.kind = "audience" /\ r.draft = d
  BY TaskIs
<1>3. task' = [task EXCEPT ![t] = r] /\ written' = written /\ gone' = gone /\ texts' = texts + 1
  BY <1>1, <1>2 DEF Dialogue!LookUp, Dialogue!LooksUp, Dialogue!Given, Dialogue!Types, Dialogue!Goes, Dialogue!Silent,
                    Dialogue!Text, Task
<1>4. DOMAIN task' = Tasks /\ task'[t] = r /\ \A u \in Tasks \ {t} : task'[u] = task[u]
  BY <1>3, TaskGoes DEF TextsInv
<1>5. PICK K, T : K = {} /\ T = {t}
  OBVIOUS
<1>6. /\ K \in SUBSET OneShots /\ T \in SUBSET Tasks /\ (K = {} \/ T = {})
      /\ \A l, m \in K : l = m
      /\ \A u, v \in T : u = v
  BY <1>5
<1>7. \A u \in Tasks : LooksForRoom(u)' =>
         IF u \in T THEN task'[u].draft[1] = texts + 1 ELSE LooksForRoom(u) /\ task'[u].draft = task[u].draft
  BY <1>1, <1>2, <1>4, <1>5 DEF LooksForRoom
<1>8. NewPlaces(K, T)
  BY <1>3, <1>4, <1>5, <1>6, <1>7 DEF NewPlaces, TextsInv
<1>9. QED BY <1>3, <1>8, TextComes

LEMMA TakenKeeps ==
  ASSUME TextsInv, NEW t \in Tasks, NEW k,
         Dialogue!LookUp(t, k) \/ Dialogue!LookGroupUp(t, k) \/ Dialogue!Answer(t, k) \/ Dialogue!TakeText(t, k)
  PROVE  TextsInv'
<1>1. texts' = texts + 1
  BY DEF Dialogue!LookUp, Dialogue!LookGroupUp, Dialogue!Answer, Dialogue!TakeText, Dialogue!Given, Dialogue!Types
<1>2. CASE Dialogue!LookUp(t, k) \/ Dialogue!LookGroupUp(t, k)
  <2>1. CASE k = "audience"
    BY <1>2, <2>1, RoomKeeps DEF Dialogue!LookGroupUp, Dialogue!Forms
  <2>2. CASE k # "audience"
    <3>1. PICK d, i : Dialogue!LooksUp(t, k, i) /\ d = <<texts + 1>>
      BY <1>2 DEF Dialogue!LookUp, Dialogue!LookGroupUp
    <3>2. task' = [task EXCEPT ![t] = Task("looking", k, d, i)] /\ gone' = gone /\ written' = written
      BY <3>1 DEF Dialogue!LooksUp, Dialogue!Goes, Dialogue!Silent, Dialogue!Text, Task
    <3>3. QED BY <1>1, <2>2, <3>2, SameDrafts, TaskKeeps
  <2>3. QED BY <2>1, <2>2
<1>3. CASE Dialogue!Answer(t, k)
  <2>1. PICK i, f : Dialogue!StoresForm(t, k, i, f) /\ k \in Dialogue!Forms
    BY <1>3 DEF Dialogue!Answer
  <2>2. PICK pc, l, e : task' = [task EXCEPT ![t] = Task(pc, l, e, 0)] /\ pc \in {"showing", "free"}
    BY <2>1, StoringForm
  <2>3. gone' = gone /\ KeepsDrafts
    BY <2>1, StoringForm, DraftElsewhere DEF Dialogue!Forms, OneShots
  <2>4. QED BY <1>1, <2>2, <2>3, TaskKeeps
<1>4. CASE Dialogue!TakeText(t, k) /\ k = "import"
  <2>1. PICK d : Dialogue!Stores(t, k, d)
    BY <1>4 DEF Dialogue!TakeText
  <2>2. PICK pc, l, e : task' = [task EXCEPT ![t] = Task(pc, l, e, 0)] /\ pc \in {"showing", "free"}
    BY <2>1, StoringTask
  <2>3. gone' = gone /\ KeepsDrafts
    BY <1>4, <2>1, StoringTask, DraftElsewhere DEF OneShots
  <2>4. QED BY <1>1, <2>2, <2>3, TaskKeeps
<1>5. CASE Dialogue!TakeText(t, k) /\ k # "import"
  BY <1>1, <1>5, OneShotKeeps DEF Dialogue!TakeText, OneShots
<1>6. QED BY <1>2, <1>3, <1>4, <1>5

(* Buttons drop drafts or touch the forms. *)
LEMMA ButtonKeeps ==
  ASSUME TextsInv, NEW w, NEW d, Dialogue!Button(w, d), written' = d => KeepsDrafts
  PROVE  TextsInv'
<1>1. written' = d /\ UNCHANGED <<task, gone, texts>>
  BY DEF Dialogue!Button, Dialogue!Silent, Dialogue!NoText
<1>2. KeepsPlaces
  BY <1>1 DEF KeepsPlaces, TextsInv, LooksForRoom
<1>3. QED BY <1>1, <1>2, TextsStay DEF TextsInv

(* A text is let out on a button or at once. *)
LEMMA SendKeeps ==
  ASSUME TextsInv, NEW k, Dialogue!Send(k)
  PROVE  TextsInv'
<1>1. /\ k \in OneShots \cap DOMAIN written /\ written' = Dialogue!Without(written, {k}) /\ task' = task
      /\ texts' = texts /\ (gone' = gone \/ gone' = Append(gone, written[k][1]))
  BY DEF Dialogue!Send, Dialogue!Pressed, Dialogue!NoText, Dialogue!Leaves, Dialogue!Silent, OneShots
<1>2. DOMAIN written' = DOMAIN written \ {k}
  BY <1>1 DEF Dialogue!Without
<1>3. KeepsPlaces
  BY <1>1, DraftDropped DEF KeepsPlaces, TextsInv, LooksForRoom
<1>4. PICK n : n = written[k][1]
  OBVIOUS
<1>5. n \in 1..texts /\ \A i \in DOMAIN gone : gone[i] # n
  BY <1>1, <1>4 DEF TextsInv, Unsent
<1>6. /\ \A l \in OneShots \cap DOMAIN written' : written[l][1] # n
      /\ \A t \in Tasks : LooksForRoom(t)' => task[t].draft[1] # n
  BY <1>1, <1>2, <1>4 DEF TextsInv, LooksForRoom
<1>7. texts' \in Nat /\ texts <= texts' /\ n \in 1..texts'
  BY <1>1, <1>5 DEF TextsInv
<1>8. CASE gone' = gone
  BY <1>3, <1>7, <1>8, TextsStay
<1>9. CASE gone' = Append(gone, n)
  BY <1>3, <1>5, <1>6, <1>7, <1>9, TextLeaves
<1>10. QED BY <1>1, <1>4, <1>8, <1>9

LEMMA DonateKeeps ==
  ASSUME TextsInv, Dialogue!Donate
  PROVE  TextsInv'
<1>0. <<texts + 1>>[1] = texts + 1
  OBVIOUS
<1>1. PICK n : n = texts + 1
  OBVIOUS
<1>2. /\ texts' = texts + 1 /\ gone' = Append(gone, n) /\ written' = written /\ task' = task
  BY <1>0, <1>1 DEF Dialogue!Donate, Dialogue!Types, Dialogue!Leaves, Dialogue!Text
<1>3. KeepsPlaces
  BY <1>2, SameDrafts DEF KeepsPlaces, TextsInv, LooksForRoom
<1>4. n \in 1..texts' /\ texts' \in Nat /\ texts <= texts' /\ \A m \in 1..texts : m # n
  BY <1>1, <1>2 DEF TextsInv
<1>5. \A i \in DOMAIN gone : gone[i] # n
  BY <1>4, ElementOfSeq DEF TextsInv
<1>6. \A m : Unsent(m) => m # n
  BY <1>4 DEF Unsent
<1>7. /\ \A k \in OneShots \cap DOMAIN written' : written[k][1] # n
      /\ \A t \in Tasks : LooksForRoom(t)' => task[t].draft[1] # n
  BY <1>2, <1>6 DEF TextsInv, LooksForRoom
<1>8. QED BY <1>2, <1>3, <1>4, <1>5, <1>7, TextLeaves

LEMMA RoomFoundKeeps ==
  ASSUME TextsInv, NEW t \in Tasks, Dialogue!RoomFound(t)
  PROVE  TextsInv'
<1>1. PICK n : n = task[t].draft[1]
  OBVIOUS
<1>2. /\ LooksForRoom(t) /\ task' = [task EXCEPT ![t] = Dialogue!Free] /\ UNCHANGED <<written, texts>>
      /\ gone' = Append(gone, n)
  BY <1>1 DEF Dialogue!RoomFound, Dialogue!At, Dialogue!Ends, Dialogue!Leaves, Dialogue!NoText, LooksForRoom
<1>3. DOMAIN task' = Tasks /\ task'[t].pc = "free" /\ \A u \in Tasks \ {t} : task'[u] = task[u]
  BY <1>2 DEF TextsInv, Dialogue!Free
<1>4. KeepsPlaces
  BY <1>2, <1>3, SameDrafts DEF KeepsPlaces, LooksForRoom
<1>5. n \in 1..texts /\ \A i \in DOMAIN gone : gone[i] # n
  BY <1>1, <1>2 DEF TextsInv, Unsent
<1>6. /\ \A l \in OneShots \cap DOMAIN written' : written[l][1] # n
      /\ \A u \in Tasks : LooksForRoom(u)' => task[u].draft[1] # n
  BY <1>1, <1>2, <1>3 DEF TextsInv, LooksForRoom
<1>7. texts' \in Nat /\ texts <= texts' /\ n \in 1..texts'
  BY <1>2, <1>5 DEF TextsInv
<1>8. QED BY <1>2, <1>4, <1>5, <1>6, <1>7, TextLeaves

LEMMA TextsStep == TextsInv /\ [Dialogue!Next]_dialogueVars => TextsInv'
<1>. SUFFICES ASSUME TextsInv, [Dialogue!Next]_dialogueVars PROVE TextsInv'
  OBVIOUS
<1>1. ASSUME NEW w, NEW K, Dialogue!Button(w, Dialogue!Without(written, K)) PROVE TextsInv'
  BY <1>1, ButtonKeeps, DraftDropped
<1>2. ASSUME NEW k, Dialogue!Ask(k) \/ Dialogue!Cancel(k) PROVE TextsInv'
  <2>1. CASE k = "report" /\ Dialogue!Ask(k)
    BY <2>1, ButtonKeeps, SameDrafts DEF Dialogue!Ask
  <2>2. QED BY <1>1, <1>2, <2>1 DEF Dialogue!Ask, Dialogue!Cancel
<1>3. ASSUME NEW k, Dialogue!AskForm(k) PROVE TextsInv'
  BY <1>3, ButtonKeeps, DraftElsewhere DEF Dialogue!AskForm, Dialogue!Forms, OneShots
<1>4. CASE Dialogue!Reset
  <2>1. written' = Dialogue!None => KeepsDrafts
    BY DEF Dialogue!None, KeepsDrafts
  <2>2. QED BY <1>4, <2>1, ButtonKeeps DEF Dialogue!Reset
<1>5. CASE Dialogue!Skip
  BY <1>5, ButtonKeeps, SameDrafts DEF Dialogue!Skip
<1>6. CASE Dialogue!Restart
  <2>1. /\ DOMAIN written' = {} /\ DOMAIN task' = Tasks /\ \A t \in Tasks : task'[t].pc = "free"
        /\ gone' = gone /\ texts' = texts
    BY <1>6 DEF Dialogue!Restart, Dialogue!None, Dialogue!Free, Dialogue!Silent
  <2>2. KeepsPlaces
    BY <2>1 DEF KeepsPlaces, KeepsDrafts, LooksForRoom
  <2>3. QED BY <2>1, <2>2, TextsStay DEF TextsInv
<1>7. ASSUME NEW t \in Tasks, Dialogue!Report(t) PROVE TextsInv'
  BY <1>7, OneShotKeeps DEF Dialogue!Report, Dialogue!Types, OneShots
<1>8. ASSUME NEW t \in Tasks, Dialogue!GroupFound(t) PROVE TextsInv'
  <2>1. PICK k, i, f : Dialogue!StoresForm(t, k, i, f) /\ k \in Dialogue!Forms /\ texts' = texts
    BY <1>8 DEF Dialogue!GroupFound, Dialogue!NoText
  <2>2. PICK pc, l, e : task' = [task EXCEPT ![t] = Task(pc, l, e, 0)] /\ pc \in {"showing", "free"}
    BY <2>1, StoringForm
  <2>3. gone' = gone /\ KeepsDrafts
    BY <2>1, StoringForm, DraftElsewhere DEF Dialogue!Forms, OneShots
  <2>4. QED BY <2>1, <2>2, <2>3, TaskKeeps
<1>9. ASSUME NEW t \in Tasks, Dialogue!UserFound(t) PROVE TextsInv'
  <2>1. PICK d : Dialogue!Stores(t, "users", d) /\ texts' = texts
    BY <1>9 DEF Dialogue!UserFound, Dialogue!NoText
  <2>2. PICK pc, l, e : task' = [task EXCEPT ![t] = Task(pc, l, e, 0)] /\ pc \in {"showing", "free"}
    BY <2>1, StoringTask
  <2>3. gone' = gone /\ KeepsDrafts
    BY <2>1, StoringTask, DraftElsewhere DEF OneShots
  <2>4. QED BY <2>1, <2>2, <2>3, TaskKeeps
<1>10. ASSUME NEW t \in Tasks, NEW to, Dialogue!Retarget(t, to) PROVE TextsInv'
  <2>0. <<written["campaign"][1], to>>[1] = written["campaign"][1]
    OBVIOUS
  <2>1. PICK d : d = <<written["campaign"][1], to>> /\ d[1] = written["campaign"][1]
    BY <2>0
  <2>2. /\ written' = Dialogue!With(written, "campaign", d) /\ "campaign" \in DOMAIN written
        /\ task' = [task EXCEPT ![t] = Task("showing", "campaign", d, 0)] /\ gone' = gone /\ texts' = texts
    BY <1>10, <2>1 DEF Dialogue!Retarget, Dialogue!Goes, Dialogue!Silent, Dialogue!NoText, Task
  <2>3. /\ DOMAIN written' = DOMAIN written /\ written'["campaign"] = d
        /\ \A l \in DOMAIN written \ {"campaign"} : written'[l] = written[l]
    BY <2>2 DEF Dialogue!With
  <2>4. KeepsDrafts
    BY <2>1, <2>3 DEF KeepsDrafts, TextsInv
  <2>5. QED BY <2>2, <2>4, TaskKeeps
<1>11. ASSUME NEW t \in Tasks,
              Dialogue!NotFound(t) \/ Dialogue!Show(t) \/ Dialogue!Lost(t) \/ Dialogue!NotWritten(t) \/ Dialogue!Close(t)
       PROVE  TextsInv'
  <2>1. Dialogue!Ends(t) /\ gone' = gone /\ texts' = texts
    BY <1>11 DEF Dialogue!NotFound, Dialogue!Show, Dialogue!Lost, Dialogue!Shown, Dialogue!NotWritten, Dialogue!Close,
                 Dialogue!Silent, Dialogue!NoText
  <2>2. written' = written \/ \E K : written' = Dialogue!Without(written, K)
    BY <1>11 DEF Dialogue!NotFound, Dialogue!Show, Dialogue!Lost, Dialogue!Shown, Dialogue!NotWritten, Dialogue!Close
  <2>3. QED BY <2>1, <2>2, SameDrafts, DraftDropped, TaskEndsKeeps
<1>12. ASSUME NEW t \in Tasks, Dialogue!Confirm(t) \/ Dialogue!Delete(t) \/ Dialogue!ConfirmForced(t) PROVE TextsInv'
  <2>1. PICK k, pc : Dialogue!Writes(t, k, pc) /\ pc # "looking"
    BY <1>12 DEF Dialogue!Confirm, Dialogue!Delete, Dialogue!ConfirmForced
  <2>2. PICK d : d = Dialogue!Draft(k)
    OBVIOUS
  <2>3. task' = [task EXCEPT ![t] = Task(pc, k, d, 0)] /\ gone' = gone /\ written' = written /\ texts' = texts
    BY <2>1, <2>2 DEF Dialogue!Writes, Dialogue!Goes, Dialogue!NoText, Task
  <2>4. QED BY <2>1, <2>3, SameDrafts, TaskKeeps
<1>13. ASSUME NEW t \in Tasks, Dialogue!Write(t) PROVE TextsInv'
  <2>1. /\ task' = [task EXCEPT ![t].pc = "closing"] /\ task[t].pc = "writing" /\ UNCHANGED <<gone, texts, written>>
    BY <1>13 DEF Dialogue!Write, Dialogue!At, Dialogue!Silent, Dialogue!NoText
  <2>2. DOMAIN task' = Tasks /\ \A u \in Tasks \ {t} : task'[u] = task[u]
    BY <2>1 DEF TextsInv
  <2>3. task'[t] = [task[t] EXCEPT !.pc = "closing"]
    BY <2>1 DEF TextsInv
  <2>4. task'[t].pc # "looking"
    BY <2>1, <2>3
  <2>5. KeepsPlaces
    BY <2>1, <2>2, <2>4, SameDrafts DEF KeepsPlaces, LooksForRoom
  <2>6. QED BY <2>1, <2>5, TextsStay DEF TextsInv
<1>14. CASE UNCHANGED dialogueVars
  <2>1. KeepsPlaces
    BY <1>14, SameDrafts DEF dialogueVars, KeepsPlaces, TextsInv, LooksForRoom
  <2>2. QED BY <1>14, <2>1, TextsStay DEF dialogueVars, TextsInv
<1>15. QED
  BY <1>1, <1>2, <1>3, <1>4, <1>5, <1>6, <1>7, <1>8, <1>9, <1>10, <1>11, <1>12, <1>13, <1>14,
     TakenKeeps, SendKeeps, DonateKeeps, RoomFoundKeeps
     DEF Dialogue!Next, Dialogue!Back

LEMMA TextsStart == Dialogue!Init => TextsInv
<1>. SUFFICES ASSUME Dialogue!Init PROVE TextsInv
  OBVIOUS
<1>1. /\ DOMAIN written = {} /\ DOMAIN task = Tasks /\ \A t \in Tasks : task[t].pc = "free"
      /\ gone = <<>> /\ texts = 0
  BY DEF Dialogue!Init, Dialogue!None, Dialogue!Free
<1>2. QED BY <1>1 DEF TextsInv, LooksForRoom, Dialogue!TextUsedOnce, Dialogue!IsInjective

-----------------------------------------------------------------------------
(* Photos of an administrator in Telegram *)

\* The photo that came last into a draft: no two drafts have it in common.
Mark(d) == d[Len(d)]

Working(h) == handler[h].pc \in {"downloading", "recognising"}
Saving(h) == handler[h].pc = "saving"

(* A draft of photos none of which ended a draft that is saved. *)
Unsaved(d) ==
  /\ d \in Seq(1..photos) /\ d # <<>>
  /\ \A i \in DOMAIN saved : Mark(saved[i]) # Mark(d)

(* The drafts that can still be saved are apart: those kept, those being made, the album in
   its buffer.  The one being saved may still be kept under its kind, and nowhere else. *)
DraftsApart ==
  \A k, l \in DOMAIN drafts : k # l => Mark(drafts[k]) # Mark(drafts[l])
WorkApart ==
  \A h \in Handlers : Working(h) =>
    /\ \A k \in DOMAIN drafts : Mark(drafts[k]) # Mark(handler[h].pages)
    /\ \A g \in Handlers \ {h} : Working(g) \/ Saving(g) => Mark(handler[g].pages) # Mark(handler[h].pages)
SavingApart ==
  \A h \in Handlers : Saving(h) =>
    /\ lock = TRUE /\ \A g \in Handlers \ {h} : ~Saving(g)
    /\ \A k \in DOMAIN drafts \ {handler[h].kind} : Mark(drafts[k]) # Mark(handler[h].pages)
AlbumApart ==
  album.pages # <<>> =>
    /\ Unsaved(album.pages)
    /\ \A k \in DOMAIN drafts : Mark(drafts[k]) # Mark(album.pages)
    /\ \A h \in Handlers : Working(h) \/ Saving(h) => Mark(handler[h].pages) # Mark(album.pages)

Followed(h) == {"pc", "kind", "pages"} \subseteq DOMAIN handler[h]

PagesInv ==
  /\ photos \in Nat /\ images \in Seq(1..photos) /\ album.pages \in Seq(1..photos)
  /\ saved \in Seq(Seq(1..photos)) /\ \A i, j \in DOMAIN saved : i # j => Mark(saved[i]) # Mark(saved[j])
  /\ \A i \in DOMAIN saved : saved[i] # <<>>
  /\ \A k \in DOMAIN drafts : Unsaved(drafts[k])
  /\ DOMAIN handler = Handlers /\ \A h \in Handlers : Followed(h)
  /\ \A h \in Handlers : Working(h) \/ Saving(h) => Unsaved(handler[h].pages)
  /\ album.pages = <<>> => album = Photos!NoAlbum
  /\ DraftsApart /\ WorkApart /\ SavingApart /\ AlbumApart

LEMMA MarkOf ==
  ASSUME NEW n \in Nat, NEW d \in Seq(1..n), d # <<>>
  PROVE  Mark(d) \in 1..n
  BY DEF Mark

LEMMA LongerSeq ==
  ASSUME NEW n \in Nat, NEW m \in Nat, n <= m, NEW d \in Seq(1..n)
  PROVE  d \in Seq(1..m)
<1>1. \A i \in 1..Len(d) : d[i] \in 1..m
  BY ElementOfSeq
<1>2. QED BY <1>1, IsASeq, LenProperties

LEMMA StillUnsaved ==
  ASSUME PagesInv, saved' = saved, photos' \in Nat, photos <= photos', NEW d, Unsaved(d)
  PROVE  Unsaved(d)'
  BY LongerSeq DEF Unsaved, PagesInv

(* What the drafts of a step may be when nothing is made or saved by it. *)
FewerDrafts ==
  /\ DOMAIN drafts' \subseteq DOMAIN drafts /\ \A k \in DOMAIN drafts' : drafts'[k] = drafts[k]

FewerWork ==
  /\ DOMAIN handler' = Handlers /\ \A h \in Handlers : Followed(h)'
  /\ \A h \in Handlers : Working(h)' => Working(h) /\ handler'[h].pages = handler[h].pages
  /\ \A h \in Handlers : Saving(h)' =>
        Saving(h) /\ handler'[h].pages = handler[h].pages /\ handler'[h].kind = handler[h].kind /\ lock' = TRUE

LEMMA PagesStay ==
  ASSUME PagesInv, saved' = saved, photos' = photos, images' \in Seq(1..photos),
         album' \in {album, Photos!NoAlbum}, FewerDrafts, FewerWork
  PROVE  PagesInv'
<1>1. \A d : Unsaved(d) => Unsaved(d)'
  BY StillUnsaved DEF PagesInv
<1>2. (\A k \in DOMAIN drafts : Unsaved(drafts[k]))'
  BY <1>1 DEF PagesInv, FewerDrafts
<1>3. (\A h \in Handlers : Working(h) \/ Saving(h) => Unsaved(handler[h].pages))'
  BY <1>1 DEF PagesInv, FewerWork
<1>4. DraftsApart' /\ WorkApart'
  BY DEF PagesInv, FewerDrafts, FewerWork, DraftsApart, WorkApart
<1>5. SavingApart'
  BY DEF PagesInv, FewerDrafts, FewerWork, SavingApart
<1>6. AlbumApart'
  BY <1>1 DEF PagesInv, FewerDrafts, FewerWork, AlbumApart, Photos!NoAlbum
<1>7. album'.pages \in Seq(1..photos) /\ (album'.pages = <<>> => album' = Photos!NoAlbum)
  <2>1. <<>> \in Seq(1..photos) /\ Photos!NoAlbum.pages = <<>>
    BY DEF Photos!NoAlbum
  <2>2. CASE album' = album
    BY <2>2 DEF PagesInv
  <2>3. CASE album' = Photos!NoAlbum
    BY <2>1, <2>3
  <2>4. QED BY <2>2, <2>3
<1>8. QED BY <1>2, <1>3, <1>4, <1>5, <1>6, <1>7 DEF PagesInv, FewerWork
(* A photo comes. *)
LEMMA NewPhoto ==
  ASSUME PagesInv, saved' = saved, photos' = photos + 1, NEW d, d \in Seq(1..photos'), d # <<>>, Mark(d) = photos + 1
  PROVE  /\ Unsaved(d)' /\ photos' \in Nat /\ photos <= photos'
         /\ \A e : Unsaved(e) => Mark(e) # Mark(d)
<1>1. \A e : Unsaved(e) => Mark(e) # Mark(d)
  BY MarkOf DEF PagesInv, Unsaved
<1>2. \A i \in DOMAIN saved : Mark(saved[i]) # Mark(d)
  <2>1. ASSUME NEW i \in DOMAIN saved PROVE Mark(saved[i]) \in 1..photos
    <3>1. saved[i] \in Seq(1..photos)
      BY ElementOfSeq, LenProperties DEF PagesInv
    <3>2. QED BY <3>1, MarkOf DEF PagesInv
  <2>2. QED BY <2>1 DEF PagesInv
<1>3. QED BY <1>1, <1>2 DEF PagesInv, Unsaved

(* What is saved is saved whatever comes. *)
LEMMA SavedStay ==
  ASSUME PagesInv, saved' = saved, photos' \in Nat, photos <= photos'
  PROVE  saved' \in Seq(Seq(1..photos')) /\ images \in Seq(1..photos') /\ album.pages \in Seq(1..photos')
<1>1. \A d \in Seq(1..photos) : d \in Seq(1..photos')
  BY LongerSeq DEF PagesInv
<1>2. \A i \in 1..Len(saved) : saved[i] \in Seq(1..photos')
  BY <1>1, ElementOfSeq DEF PagesInv
<1>3. saved' \in Seq(Seq(1..photos'))
  BY <1>2, IsASeq, LenProperties DEF PagesInv
<1>4. QED BY <1>1, <1>3 DEF PagesInv

(* The handler h begins with the photos d, the last of which has just come. *)
BeginsWith(h, d) ==
  /\ handler[h].pc = "idle" /\ DOMAIN handler' = Handlers
  /\ \A g \in Handlers \ {h} : handler'[g] = handler[g]
  /\ handler'[h].pc \in {"downloading", "recognising"} /\ handler'[h].pages = d /\ Followed(h)'
  /\ d \in Seq(1..photos') /\ d # <<>> /\ Mark(d) = photos + 1

LEMMA PhotoComes ==
  ASSUME PagesInv, NEW h \in Handlers, NEW d, BeginsWith(h, d),
         photos' = photos + 1, UNCHANGED <<saved, images, album, drafts, lock>>
  PROVE  PagesInv'
<1>1. /\ Unsaved(d)' /\ photos' \in Nat /\ photos <= photos'
      /\ \A e : Unsaved(e) => Mark(e) # Mark(d)
  BY NewPhoto DEF BeginsWith
<1>2. \A e : Unsaved(e) => Unsaved(e)'
  BY <1>1, StillUnsaved
<1>3. /\ DOMAIN handler' = Handlers /\ Working(h)' /\ ~Saving(h)' /\ handler'[h].pages = d
      /\ \A g \in Handlers \ {h} : handler'[g] = handler[g]
      /\ \A g \in Handlers : Followed(g)'
  BY DEF PagesInv, Working, Saving, Followed, BeginsWith
<1>4. \A g \in Handlers \ {h} : Working(g)' = Working(g) /\ Saving(g)' = Saving(g)
  BY <1>3 DEF Working, Saving
<1>5. (\A k \in DOMAIN drafts : Unsaved(drafts[k]))'
  BY <1>2 DEF PagesInv
<1>6. (\A g \in Handlers : Working(g) \/ Saving(g) => Unsaved(handler[g].pages))'
  BY <1>1, <1>2, <1>3, <1>4 DEF PagesInv
<1>7. DraftsApart'
  BY DEF PagesInv, DraftsApart
<1>8. WorkApart'
  <2>1. \A k \in DOMAIN drafts : Mark(drafts[k]) # Mark(d)
    BY <1>1 DEF PagesInv
  <2>2. \A g \in Handlers \ {h} : Working(g) \/ Saving(g) => Mark(handler[g].pages) # Mark(d)
    BY <1>1 DEF PagesInv
  <2>3. QED BY <1>3, <1>4, <2>1, <2>2 DEF PagesInv, WorkApart
<1>9. SavingApart'
  BY <1>3, <1>4 DEF PagesInv, SavingApart
<1>10. AlbumApart'
  BY <1>1, <1>2, <1>3, <1>4 DEF PagesInv, AlbumApart
<1>11. saved' \in Seq(Seq(1..photos')) /\ images' \in Seq(1..photos') /\ album'.pages \in Seq(1..photos')
  BY <1>1, SavedStay
<1>12. QED BY <1>1, <1>3, <1>5, <1>6, <1>7, <1>8, <1>9, <1>10, <1>11 DEF PagesInv

(* A photo comes to the album. *)
LEMMA AlbumGrows ==
  ASSUME PagesInv, Photos!SendToAlbum
  PROVE  PagesInv'
<1>1. /\ photos' = photos + 1 /\ album'.pages = Append(album.pages, photos + 1)
      /\ UNCHANGED <<saved, images, drafts, lock, handler>>
  BY DEF Photos!SendToAlbum, Photos!Sends, Photos!Photo, Photos!Quiet, Photos!SameSheet
<1>2. PICK d : d = Append(album.pages, photos + 1)
  OBVIOUS
<1>3. photos' \in Nat /\ photos <= photos' /\ photos + 1 \in 1..photos'
  BY <1>1 DEF PagesInv
<1>4. album.pages \in Seq(1..photos')
  BY <1>1, <1>3, SavedStay
<1>5. d \in Seq(1..photos') /\ d # <<>> /\ Mark(d) = photos + 1
  BY <1>2, <1>3, <1>4, AppendIs DEF Mark
<1>6. Unsaved(d)' /\ \A e : Unsaved(e) => Mark(e) # Mark(d)
  BY <1>1, <1>5, NewPhoto
<1>7. \A e : Unsaved(e) => Unsaved(e)'
  BY <1>1, <1>3, StillUnsaved
<1>8. (\A k \in DOMAIN drafts : Unsaved(drafts[k]))'
  BY <1>1, <1>7 DEF PagesInv
<1>9. (\A g \in Handlers : Working(g) \/ Saving(g) => Unsaved(handler[g].pages))'
  BY <1>1, <1>7 DEF PagesInv, Working, Saving
<1>10. DraftsApart' /\ WorkApart' /\ SavingApart'
  BY <1>1 DEF PagesInv, DraftsApart, WorkApart, SavingApart, Working, Saving
<1>11. AlbumApart'
  <2>1. \A k \in DOMAIN drafts : Mark(drafts[k]) # Mark(d)
    BY <1>6 DEF PagesInv
  <2>2. \A g \in Handlers : Working(g) \/ Saving(g) => Mark(handler[g].pages) # Mark(d)
    BY <1>6 DEF PagesInv
  <2>3. QED BY <1>1, <1>2, <1>6, <2>1, <2>2 DEF AlbumApart, Working, Saving
<1>12. saved' \in Seq(Seq(1..photos')) /\ images' \in Seq(1..photos') /\ album'.pages \in Seq(1..photos')
  BY <1>1, <1>2, <1>3, <1>5, SavedStay
<1>13. (\A g \in Handlers : Followed(g))'
  BY <1>1 DEF PagesInv, Followed
<1>14. QED BY <1>1, <1>2, <1>3, <1>5, <1>8, <1>9, <1>10, <1>11, <1>12, <1>13 DEF PagesInv

LEMMA MarkOfMore ==
  ASSUME NEW n \in Nat, NEW c \in Seq(1..n), NEW d \in Seq(1..n), d # <<>>
  PROVE  c \o d \in Seq(1..n) /\ c \o d # <<>> /\ Mark(c \o d) = Mark(d)
<1>1. c \o d \in Seq(1..n) /\ Len(c \o d) = Len(c) + Len(d) /\ Len(c) \in Nat /\ Len(d) \in Nat /\ Len(d) # 0
  OBVIOUS
<1>2. (c \o d)[Len(c) + Len(d)] = d[Len(d)]
  BY <1>1
<1>3. QED BY <1>1, <1>2 DEF Mark

(* The album is complete and goes to a handler, with the photos of the sheet before it. *)
LEMMA AlbumGoes ==
  ASSUME PagesInv, NEW h \in Handlers, Photos!AlbumEnds(h)
  PROVE  PagesInv'
<1>1. /\ album # Photos!NoAlbum /\ album' = Photos!NoAlbum /\ UNCHANGED <<saved, photos, images, drafts, lock>>
      /\ UNCHANGED handler \/ Photos!Recognises(h, album.pages, album.summary)
  BY DEF Photos!AlbumEnds, Photos!Quiet
<1>2. CASE UNCHANGED handler
  <2>1. FewerDrafts /\ FewerWork
    BY <1>1, <1>2 DEF FewerDrafts, FewerWork, PagesInv, Working, Saving, SavingApart, Followed
  <2>2. QED BY <1>1, <2>1, PagesStay DEF PagesInv
<1>3. CASE Photos!Recognises(h, album.pages, album.summary)
  <2>1. PICK k, d : /\ handler' = [handler EXCEPT ![h] = [pc |-> "downloading", kind |-> k, pages |-> d]]
                    /\ d \in {album.pages, images \o album.pages} /\ Photos!At(h, "idle")
    BY <1>3 DEF Photos!Recognises, Photos!Begins
  <2>2. album.pages # <<>> /\ Unsaved(album.pages)
    BY <1>1 DEF PagesInv, AlbumApart
  <2>3. d \in Seq(1..photos) /\ d # <<>> /\ Mark(d) = Mark(album.pages)
    <3>1. album.pages \in Seq(1..photos) /\ images \in Seq(1..photos) /\ photos \in Nat
      BY DEF PagesInv
    <3>2. CASE d = album.pages
      BY <2>2, <3>1, <3>2
    <3>3. CASE d = images \o album.pages
      BY <2>2, <3>1, <3>3, MarkOfMore
    <3>4. QED BY <2>1, <3>2, <3>3
  <2>4. Unsaved(d)
    BY <2>2, <2>3 DEF Unsaved
  <2>5. \A e : Unsaved(e) => Unsaved(e)'
    BY <1>1, StillUnsaved DEF PagesInv
  <2>6. /\ DOMAIN handler' = Handlers /\ Working(h)' /\ ~Saving(h)' /\ handler'[h].pages = d
        /\ \A g \in Handlers \ {h} : handler'[g] = handler[g]
        /\ \A g \in Handlers : Followed(g)'
    BY <2>1 DEF PagesInv, Working, Saving, Followed
  <2>7. \A g \in Handlers \ {h} : Working(g)' = Working(g) /\ Saving(g)' = Saving(g)
    BY <2>6 DEF Working, Saving
  <2>8. (\A k_1 \in DOMAIN drafts : Unsaved(drafts[k_1]))'
    BY <1>1, <2>5 DEF PagesInv
  <2>9. (\A g \in Handlers : Working(g) \/ Saving(g) => Unsaved(handler[g].pages))'
    BY <2>4, <2>5, <2>6, <2>7 DEF PagesInv
  <2>10. DraftsApart' /\ SavingApart'
    BY <1>1, <2>6, <2>7 DEF PagesInv, DraftsApart, SavingApart
  <2>11. WorkApart'
    BY <1>1, <2>2, <2>3, <2>6, <2>7 DEF PagesInv, WorkApart, AlbumApart
  <2>12. AlbumApart' /\ album'.pages \in Seq(1..photos)
    <3>1. <<>> \in Seq(1..photos)
      OBVIOUS
    <3>2. QED BY <1>1, <3>1 DEF AlbumApart, Photos!NoAlbum
  <2>13. QED BY <1>1, <2>6, <2>8, <2>9, <2>10, <2>11, <2>12 DEF PagesInv
<1>4. QED BY <1>1, <1>2, <1>3

(* What has been recognised takes the place of the draft of its kind. *)
LEMMA RecognisedKeeps ==
  ASSUME PagesInv, NEW h \in Handlers, Photos!Recognised(h)
  PROVE  PagesInv'
<1>. DEFINE k == Photos!KindOf(h)
            d == handler[h].pages
<1>1. /\ Working(h) /\ drafts' = Photos!With(drafts, k, d)
      /\ handler' = [handler EXCEPT ![h].pc = "showing", ![h].kind = k]
      /\ UNCHANGED <<saved, photos, images, album, lock>>
  BY DEF Photos!Recognised, Photos!At, Photos!Quiet, Working
<1>2. /\ DOMAIN handler' = Handlers /\ \A g \in Handlers \ {h} : handler'[g] = handler[g]
      /\ \A g \in Handlers : Followed(g)'
  BY <1>1 DEF PagesInv, Followed
<1>3. handler'[h].pc = "showing"
  <2>1. handler'[h] = [handler[h] EXCEPT !.pc = "showing", !.kind = k]
    BY <1>1 DEF PagesInv
  <2>2. "pc" \in DOMAIN handler[h]
    BY DEF PagesInv, Followed
  <2>3. QED BY <2>1, <2>2
<1>4. ~Working(h)' /\ ~Saving(h)' /\ \A g \in Handlers \ {h} : Working(g)' = Working(g) /\ Saving(g)' = Saving(g)
  BY <1>2, <1>3 DEF Working, Saving
<1>. HIDE DEF k, d
<1>5. /\ DOMAIN drafts' = DOMAIN drafts \cup {k} /\ drafts'[k] = d
      /\ \A l \in DOMAIN drafts \ {k} : drafts'[l] = drafts[l]
  BY <1>1 DEF Photos!With
<1>6. Unsaved(d) /\ \A l \in DOMAIN drafts : Mark(drafts[l]) # Mark(d)
  BY <1>1 DEF PagesInv, WorkApart, d
<1>7. \A e : Unsaved(e) => Unsaved(e)'
  BY <1>1, StillUnsaved DEF PagesInv
<1>8. (\A l \in DOMAIN drafts : Unsaved(drafts[l]))'
  BY <1>5, <1>6, <1>7 DEF PagesInv
<1>9. (\A g \in Handlers : Working(g) \/ Saving(g) => Unsaved(handler[g].pages))'
  BY <1>2, <1>4, <1>7 DEF PagesInv
<1>10. DraftsApart'
  BY <1>5, <1>6 DEF PagesInv, DraftsApart
<1>11. \A g \in Handlers \ {h} : Working(g) \/ Saving(g) => Mark(handler[g].pages) # Mark(d)
  BY <1>1 DEF PagesInv, WorkApart, d
<1>12. WorkApart'
  BY <1>2, <1>4, <1>5, <1>6, <1>11 DEF PagesInv, WorkApart
<1>13. SavingApart'
  <2>1. ASSUME NEW g \in Handlers \ {h}, Saving(g), NEW l \in DOMAIN drafts' \ {handler[g].kind}
        PROVE  Mark(drafts'[l]) # Mark(handler[g].pages)
    <3>1. CASE l = k
      BY <1>5, <1>11, <2>1, <3>1
    <3>2. CASE l # k
      BY <1>5, <2>1, <3>2 DEF PagesInv, SavingApart
    <3>3. QED BY <3>1, <3>2
  <2>2. \A g \in Handlers : Saving(g) => lock = TRUE /\ \A f \in Handlers \ {g} : ~Saving(f)
    BY DEF PagesInv, SavingApart
  <2>3. QED BY <1>1, <1>2, <1>4, <2>1, <2>2 DEF SavingApart
<1>14. album.pages # <<>> => Mark(d) # Mark(album.pages)
  BY <1>1 DEF PagesInv, AlbumApart, d
<1>15. AlbumApart'
  BY <1>1, <1>2, <1>4, <1>5, <1>7, <1>14 DEF PagesInv, AlbumApart
<1>16. QED BY <1>1, <1>2, <1>8, <1>9, <1>10, <1>12, <1>13, <1>15 DEF PagesInv

(* A draft is taken for saving, under the lock. *)
LEMMA ConfirmKeeps ==
  ASSUME PagesInv, NEW h \in Handlers, NEW k, Photos!Confirm(h, k)
  PROVE  PagesInv'
<1>. DEFINE d == drafts[k]
<1>1. /\ lock # TRUE /\ lock' = TRUE /\ k \in DOMAIN drafts /\ handler[h].pc = "idle"
      /\ handler' = [handler EXCEPT ![h] = [pc |-> "saving", kind |-> k, pages |-> d]]
      /\ UNCHANGED <<saved, photos, images, album, drafts>>
  BY DEF Photos!Confirm, Photos!Saves, Photos!Begins, Photos!At, Photos!SameSheet
<1>2. /\ DOMAIN handler' = Handlers /\ ~Working(h)' /\ Saving(h)' /\ handler'[h].pages = d /\ handler'[h].kind = k
      /\ \A g \in Handlers \ {h} : handler'[g] = handler[g]
      /\ \A g \in Handlers : Followed(g)'
  BY <1>1 DEF PagesInv, Working, Saving, Followed
<1>3. \A g \in Handlers \ {h} : Working(g)' = Working(g) /\ Saving(g)' = Saving(g)
  BY <1>2 DEF Working, Saving
<1>4. \A g \in Handlers : ~Saving(g)
  BY <1>1 DEF PagesInv, SavingApart
<1>. HIDE DEF d
<1>5. Unsaved(d) /\ \A l \in DOMAIN drafts \ {k} : Mark(drafts[l]) # Mark(d)
  BY <1>1 DEF PagesInv, DraftsApart, d
<1>6. /\ \A g \in Handlers : Working(g) => Mark(handler[g].pages) # Mark(d)
      /\ album.pages # <<>> => Mark(d) # Mark(album.pages)
  BY <1>1 DEF PagesInv, WorkApart, AlbumApart, d
<1>7. \A e : Unsaved(e) => Unsaved(e)'
  BY <1>1, StillUnsaved DEF PagesInv
<1>8. (\A l \in DOMAIN drafts : Unsaved(drafts[l]))'
  BY <1>1, <1>7 DEF PagesInv
<1>9. (\A g \in Handlers : Working(g) \/ Saving(g) => Unsaved(handler[g].pages))'
  BY <1>2, <1>3, <1>5, <1>7 DEF PagesInv
<1>10. DraftsApart'
  BY <1>1 DEF PagesInv, DraftsApart
<1>11. WorkApart'
  BY <1>1, <1>2, <1>3, <1>6 DEF PagesInv, WorkApart
<1>12. SavingApart'
  BY <1>1, <1>2, <1>3, <1>4, <1>5 DEF SavingApart
<1>13. AlbumApart'
  BY <1>1, <1>2, <1>3, <1>6, <1>7 DEF PagesInv, AlbumApart
<1>14. QED BY <1>1, <1>2, <1>8, <1>9, <1>10, <1>11, <1>12, <1>13 DEF PagesInv

(* The draft is saved, and what is kept under its kind is dropped. *)
LEMMA SavedKeeps ==
  ASSUME PagesInv, NEW h \in Handlers, Photos!Saved(h)
  PROVE  PagesInv'
<1>. DEFINE d == handler[h].pages
            k == handler[h].kind
<1>1. /\ Saving(h) /\ drafts' = Photos!Without(drafts, {k}) /\ saved' = Append(saved, d)
      /\ handler' = [handler EXCEPT ![h] = Photos!Idle] /\ images' \in {images, <<>>}
      /\ UNCHANGED <<photos, album>>
  BY DEF Photos!Saved, Photos!At, Photos!Ends, Photos!SameSheet, Photos!NewSheet, Saving
<1>2. /\ DOMAIN handler' = Handlers /\ ~Working(h)' /\ ~Saving(h)'
      /\ \A g \in Handlers \ {h} : handler'[g] = handler[g]
      /\ \A g \in Handlers : Followed(g)'
  BY <1>1 DEF PagesInv, Working, Saving, Followed, Photos!Idle
<1>3. \A g \in Handlers \ {h} : Working(g)' = Working(g) /\ ~Saving(g)' /\ ~Saving(g)
  BY <1>1, <1>2 DEF Working, Saving, PagesInv, SavingApart
<1>. HIDE DEF d, k
<1>4. DOMAIN drafts' = DOMAIN drafts \ {k} /\ \A l \in DOMAIN drafts' : drafts'[l] = drafts[l]
  BY <1>1 DEF Photos!Without
<1>5. Unsaved(d) /\ d \in Seq(1..photos) /\ d # <<>>
  BY <1>1 DEF PagesInv, Unsaved, d
<1>6. /\ \A l \in DOMAIN drafts' : Mark(drafts[l]) # Mark(d)
      /\ \A g \in Handlers : Working(g) => Mark(handler[g].pages) # Mark(d)
      /\ album.pages # <<>> => Mark(d) # Mark(album.pages)
  BY <1>1, <1>4 DEF PagesInv, WorkApart, SavingApart, AlbumApart, d, k, Saving, Working
<1>7. /\ saved' \in Seq(Seq(1..photos)) /\ DOMAIN saved = 1..Len(saved) /\ Len(saved) \in Nat
      /\ DOMAIN saved' = 1..(Len(saved) + 1)
      /\ \A i \in 1..Len(saved) : saved'[i] = saved[i]
      /\ saved'[Len(saved) + 1] = d
  BY <1>1, <1>5, AppendIs DEF PagesInv
<1>8. \A i, j \in DOMAIN saved' : i # j => Mark(saved'[i]) # Mark(saved'[j])
  <2>1. \A i \in 1..Len(saved) : Mark(saved[i]) # Mark(d)
    BY <1>5, <1>7 DEF Unsaved
  <2>2. \A i, j \in 1..Len(saved) : i # j => Mark(saved[i]) # Mark(saved[j])
    BY <1>7 DEF PagesInv
  <2>3. ASSUME NEW i \in 1..(Len(saved) + 1), NEW j \in 1..(Len(saved) + 1), i # j
        PROVE  Mark(saved'[i]) # Mark(saved'[j])
    <3>1. CASE i = Len(saved) + 1
      BY <1>7, <2>1, <2>3, <3>1
    <3>2. CASE j = Len(saved) + 1
      BY <1>7, <2>1, <2>3, <3>2
    <3>3. CASE i \in 1..Len(saved) /\ j \in 1..Len(saved)
      BY <1>7, <2>2, <2>3, <3>3
    <3>4. QED BY <1>7, <3>1, <3>2, <3>3
  <2>4. QED BY <1>7, <2>3
<1>9. \A i \in DOMAIN saved' : saved'[i] # <<>>
  <2>1. \A i \in 1..Len(saved) : saved[i] # <<>>
    BY <1>7 DEF PagesInv
  <2>2. ASSUME NEW i \in 1..(Len(saved) + 1) PROVE saved'[i] # <<>>
    <3>1. CASE i = Len(saved) + 1
      BY <1>5, <1>7, <3>1
    <3>2. CASE i \in 1..Len(saved)
      BY <1>7, <2>1, <3>2
    <3>3. QED BY <1>7, <3>1, <3>2
  <2>3. QED BY <1>7, <2>2
<1>10. ASSUME NEW e, Unsaved(e), Mark(e) # Mark(d) PROVE Unsaved(e)'
  BY <1>1, <1>7, <1>10 DEF Unsaved
<1>11. (\A l \in DOMAIN drafts : Unsaved(drafts[l]))'
  BY <1>4, <1>6, <1>10 DEF PagesInv
<1>12. (\A g \in Handlers : Working(g) \/ Saving(g) => Unsaved(handler[g].pages))'
  BY <1>2, <1>3, <1>6, <1>10 DEF PagesInv
<1>13. DraftsApart'
  BY <1>4 DEF PagesInv, DraftsApart
<1>14. WorkApart'
  BY <1>2, <1>3, <1>4 DEF PagesInv, WorkApart
<1>15. SavingApart'
  BY <1>2, <1>3 DEF SavingApart
<1>16. AlbumApart'
  BY <1>1, <1>2, <1>3, <1>4, <1>6, <1>10 DEF PagesInv, AlbumApart
<1>17. images' \in Seq(1..photos)
  <2>1. <<>> \in Seq(1..photos) /\ images \in Seq(1..photos)
    BY DEF PagesInv
  <2>2. QED BY <1>1, <2>1
<1>18. QED
  BY <1>1, <1>2, <1>7, <1>8, <1>9, <1>11, <1>12, <1>13, <1>14, <1>15, <1>16, <1>17 DEF PagesInv

(* A button, and whatever only ends what a handler was at. *)
LEMMA PhotoButtonKeeps ==
  ASSUME PagesInv, NEW w, NEW K, Photos!Button(w, K), images' \in {images, <<>>}
  PROVE  PagesInv'
<1>1. drafts' = Photos!Without(drafts, K) /\ UNCHANGED <<lock, album, handler, saved, photos>>
  BY DEF Photos!Button
<1>2. FewerDrafts
  BY <1>1 DEF FewerDrafts, Photos!Without
<1>3. FewerWork
  BY <1>1 DEF FewerWork, PagesInv, Working, Saving, Followed, SavingApart
<1>4. images' \in Seq(1..photos)
  <2>1. <<>> \in Seq(1..photos) /\ images \in Seq(1..photos)
    BY DEF PagesInv
  <2>2. QED BY <2>1
<1>5. QED BY <1>1, <1>2, <1>3, <1>4, PagesStay

LEMMA HandlerEnds ==
  ASSUME PagesInv, NEW h \in Handlers, handler' = [handler EXCEPT ![h] = Photos!Idle],
         UNCHANGED <<saved, photos, images, album, drafts>>, lock' = lock \/ Saving(h)
  PROVE  PagesInv'
<1>1. FewerDrafts
  BY DEF FewerDrafts
<1>2. /\ DOMAIN handler' = Handlers /\ ~Working(h)' /\ ~Saving(h)'
      /\ \A g \in Handlers \ {h} : handler'[g] = handler[g]
      /\ \A g \in Handlers : Followed(g)'
  BY DEF PagesInv, Working, Saving, Followed, Photos!Idle
<1>3. FewerWork
  BY <1>2 DEF FewerWork, PagesInv, Working, Saving, SavingApart
<1>4. QED BY <1>1, <1>3, PagesStay DEF PagesInv

(* What was downloaded is recognised. *)
LEMMA DownloadedKeeps ==
  ASSUME PagesInv, NEW h \in Handlers, Photos!Downloaded(h)
  PROVE  PagesInv'
<1>1. /\ handler[h].pc = "downloading" /\ handler' = [handler EXCEPT ![h].pc = "recognising"]
      /\ images' \in {images, handler[h].pages} /\ UNCHANGED <<saved, photos, album, drafts, lock>>
  BY DEF Photos!Downloaded, Photos!At, Photos!Goes, Photos!Quiet
<1>2. FewerDrafts
  BY <1>1 DEF FewerDrafts
<1>3. /\ DOMAIN handler' = Handlers /\ \A g \in Handlers \ {h} : handler'[g] = handler[g]
      /\ handler'[h].pc = "recognising" /\ handler'[h].pages = handler[h].pages
  BY <1>1 DEF PagesInv, Followed
<1>4. \A g \in Handlers : Followed(g)'
  BY <1>1 DEF PagesInv, Followed
<1>5. FewerWork
  BY <1>1, <1>3, <1>4 DEF FewerWork, PagesInv, Working, Saving, SavingApart
<1>6. images' \in Seq(1..photos)
  BY <1>1 DEF PagesInv, Working, Unsaved
<1>7. QED BY <1>1, <1>2, <1>5, <1>6, PagesStay

LEMMA PagesStep == PagesInv /\ [Photos!Next]_photoVars => PagesInv'
<1>. SUFFICES ASSUME PagesInv, [Photos!Next]_photoVars PROVE PagesInv'
  OBVIOUS
<1>1. CASE \/ Photos!AskPhoto \/ Photos!CancelPhoto \/ Photos!AskSummary \/ Photos!AddMore \/ Photos!AskJson
           \/ Photos!CancelSummary \/ Photos!Reset
  BY <1>1, PhotoButtonKeeps
     DEF Photos!AskPhoto, Photos!CancelPhoto, Photos!AskSummary, Photos!AddMore, Photos!AskJson,
         Photos!CancelSummary, Photos!Reset, Photos!SameSheet, Photos!NewSheet
<1>2. CASE Photos!Restart
  <2>1. /\ DOMAIN handler' = Handlers /\ \A h \in Handlers : Followed(h)' /\ ~Working(h)' /\ ~Saving(h)'
        /\ DOMAIN drafts' = {} /\ images' = <<>> /\ album' = Photos!NoAlbum /\ UNCHANGED <<saved, photos>>
    BY <1>2 DEF Photos!Restart, Photos!None, Photos!Idle, Followed, Working, Saving
  <2>2. FewerDrafts /\ FewerWork
    BY <2>1 DEF FewerDrafts, FewerWork
  <2>3. images' \in Seq(1..photos)
    BY <2>1
  <2>4. QED BY <2>1, <2>2, <2>3, PagesStay
<1>3. ASSUME NEW h \in Handlers, Photos!SendPhoto(h) PROVE PagesInv'
  <2>1. PICK k, d : /\ handler' = [handler EXCEPT ![h] = [pc |-> "downloading", kind |-> k, pages |-> d]]
                    /\ d \in {<<photos + 1>>, images \o <<photos + 1>>} /\ Photos!At(h, "idle")
    BY <1>3 DEF Photos!SendPhoto, Photos!Recognises, Photos!Begins, Photos!Photo
  <2>2. photos' = photos + 1 /\ UNCHANGED <<saved, images, album, drafts, lock>>
    BY <1>3 DEF Photos!SendPhoto, Photos!Sends, Photos!Quiet
  <2>3. photos' \in Nat /\ photos <= photos' /\ images \in Seq(1..photos')
    BY <2>2, SavedStay DEF PagesInv
  <2>4. PICK p : p = <<photos + 1>>
    OBVIOUS
  <2>5. p \in Seq(1..photos') /\ p # <<>> /\ Mark(p) = photos + 1
    BY <2>2, <2>3, <2>4 DEF Mark, PagesInv
  <2>6. d \in Seq(1..photos') /\ d # <<>> /\ Mark(d) = photos + 1
    <3>1. CASE d = p
      BY <2>5, <3>1
    <3>2. CASE d = images \o p
      BY <2>3, <2>5, <3>2, MarkOfMore
    <3>3. QED BY <2>1, <2>4, <3>1, <3>2
  <2>7. BeginsWith(h, d)
    BY <2>1, <2>6 DEF BeginsWith, Photos!At, PagesInv, Followed
  <2>8. QED BY <2>2, <2>7, PhotoComes
<1>4. ASSUME NEW h \in Handlers, Photos!SendJson(h) PROVE PagesInv'
  <2>1. PICK p : p = <<photos + 1>>
    OBVIOUS
  <2>2. /\ handler' = [handler EXCEPT ![h] = [pc |-> "recognising", kind |-> "json", pages |-> p]]
        /\ Photos!At(h, "idle") /\ photos' = photos + 1 /\ UNCHANGED <<saved, images, album, drafts, lock>>
    BY <1>4, <2>1 DEF Photos!SendJson, Photos!Begins, Photos!Photo, Photos!Sends, Photos!Quiet, Photos!SameSheet
  <2>3. p \in Seq(1..photos') /\ p # <<>> /\ Mark(p) = photos + 1
    BY <2>1, <2>2 DEF Mark, PagesInv
  <2>4. BeginsWith(h, p)
    BY <2>2, <2>3 DEF BeginsWith, Photos!At, PagesInv, Followed
  <2>5. QED BY <2>2, <2>4, PhotoComes
<1>5. ASSUME NEW h \in Handlers, Photos!Show(h) \/ Photos!Lost(h) \/ Photos!NotRecognised(h) \/ Photos!NotSaved(h)
      PROVE  PagesInv'
  <2>1. /\ handler' = [handler EXCEPT ![h] = Photos!Idle] /\ UNCHANGED <<saved, photos, images, album, drafts>>
        /\ lock' = lock \/ Saving(h)
    BY <1>5 DEF Photos!Show, Photos!Lost, Photos!Shown, Photos!NotRecognised, Photos!NotSaved, Photos!Ends,
                Photos!Quiet, Photos!SameSheet, Photos!At, Saving
  <2>2. QED BY <2>1, HandlerEnds
<1>6. CASE UNCHANGED photoVars
  <2>1. FewerDrafts /\ FewerWork
    BY <1>6 DEF photoVars, FewerDrafts, FewerWork, PagesInv, Working, Saving, SavingApart, Followed
  <2>2. QED BY <1>6, <2>1, PagesStay DEF photoVars, PagesInv
<1>7. QED
  BY <1>1, <1>2, <1>3, <1>4, <1>5, <1>6, AlbumGrows, AlbumGoes, DownloadedKeeps, RecognisedKeeps, ConfirmKeeps, SavedKeeps
     DEF Photos!Next

LEMMA PagesStart == Photos!Init => PagesInv
<1>. SUFFICES ASSUME Photos!Init PROVE PagesInv
  OBVIOUS
<1>1. /\ photos = 0 /\ images = <<>> /\ saved = <<>> /\ DOMAIN drafts = {} /\ album = Photos!NoAlbum
      /\ album.pages = <<>> /\ DOMAIN handler = Handlers
      /\ \A h \in Handlers : Followed(h) /\ ~Working(h) /\ ~Saving(h)
  BY DEF Photos!Init, Photos!None, Photos!NoAlbum, Photos!Idle, Followed, Working, Saving
<1>2. QED BY <1>1 DEF PagesInv, DraftsApart, WorkApart, SavingApart, AlbumApart

LEMMA PagesGive == PagesInv => Photos!SavedOnce
  BY DEF PagesInv, Photos!SavedOnce, Photos!IsInjective

(* What a handler was recognising is a draft now, and its preview is on its way. *)
LEMMA RecognisedOn ==
  ASSUME PagesInv, NEW h \in Handlers, Photos!Recognised(h)
  PROVE  /\ \A g \in Handlers \ {h} : handler'[g] = handler[g]
         /\ handler'[h].pc = "showing" /\ handler'[h].kind = Photos!KindOf(h) /\ handler'[h].pages = handler[h].pages
         /\ handler[h].pc = "recognising"
<1>1. /\ handler' = [handler EXCEPT ![h].pc = "showing", ![h].kind = Photos!KindOf(h)]
      /\ handler[h].pc = "recognising"
  BY DEF Photos!Recognised, Photos!At
<1>2. handler'[h] = [handler[h] EXCEPT !.pc = "showing", !.kind = Photos!KindOf(h)]
  BY <1>1 DEF PagesInv
<1>3. {"pc", "kind", "pages"} \subseteq DOMAIN handler[h]
  BY DEF PagesInv, Followed
<1>4. QED BY <1>1, <1>2, <1>3 DEF PagesInv

(* Nothing is recognised or shown. *)
NothingShown ==
  /\ FewerDrafts /\ UNCHANGED previews /\ crossed \subseteq crossed'
  /\ \/ \A h \in Handlers : handler'[h] = handler[h] \/ (handler'[h].pc # "showing" /\ handler[h].pc # "showing")
     \/ DOMAIN drafts' = {} /\ \A h \in Handlers : handler'[h].pc # "showing"

LEMMA PhotosGoOn ==
  ASSUME PagesInv, [Photos!Next]_photoVars
  PROVE  NothingShown \/ \E h \in Handlers : Photos!Recognised(h) \/ Photos!Show(h) \/ Photos!Lost(h)
<1>1. ASSUME NEW w, NEW K, Photos!Button(w, K), crossed \subseteq crossed' PROVE NothingShown
  BY <1>1 DEF Photos!Button, FewerDrafts, Photos!Without, NothingShown
<1>2. Photos!SameSheet \/ Photos!NewSheet => crossed \subseteq crossed'
  BY DEF Photos!SameSheet, Photos!NewSheet, Photos!Crosses
<1>3. CASE \/ Photos!AskPhoto \/ Photos!CancelPhoto \/ Photos!AskSummary \/ Photos!AddMore \/ Photos!AskJson
           \/ Photos!CancelSummary \/ Photos!Reset
  BY <1>1, <1>2, <1>3 DEF Photos!AskPhoto, Photos!CancelPhoto, Photos!AskSummary, Photos!AddMore, Photos!AskJson,
                          Photos!CancelSummary, Photos!Reset
<1>4. CASE Photos!Restart
  <2>1. /\ DOMAIN drafts' = {} /\ \A h \in Handlers : handler'[h].pc # "showing"
        /\ UNCHANGED <<previews, crossed>>
    BY <1>4 DEF Photos!Restart, Photos!None, Photos!Idle
  <2>2. QED BY <2>1 DEF FewerDrafts, NothingShown
<1>5. CASE Photos!SendToAlbum
  BY <1>5 DEF Photos!SendToAlbum, Photos!Quiet, Photos!SameSheet, FewerDrafts, NothingShown
<1>6. ASSUME NEW h \in Handlers, NEW r, handler' = [handler EXCEPT ![h] = r],
             r.pc # "showing", handler[h].pc # "showing", FewerDrafts, UNCHANGED previews, crossed \subseteq crossed'
      PROVE  NothingShown
  <2>1. \A g \in Handlers : handler'[g] = handler[g] \/ (handler'[g].pc # "showing" /\ handler[g].pc # "showing")
    BY <1>6 DEF PagesInv
  <2>2. QED BY <1>6, <2>1 DEF NothingShown
<1>7. ASSUME NEW h \in Handlers, NEW k, \/ Photos!SendPhoto(h)
                                       \/ (Photos!AlbumEnds(h) /\ handler' # handler)
                                       \/ Photos!SendJson(h) \/ Photos!Confirm(h, k)
      PROVE  NothingShown
  <2>1. PICK pc, l, d : /\ handler' = [handler EXCEPT ![h] = [pc |-> pc, kind |-> l, pages |-> d]]
                        /\ pc # "showing" /\ handler[h].pc = "idle"
    <3>1. ASSUME NEW pages, NEW summary, Photos!Recognises(h, pages, summary)
          PROVE  \E pc, l, d : Photos!Begins(h, pc, l, d) /\ pc # "showing"
      BY <3>1, "downloading" # "showing", Zenon DEF Photos!Recognises
    <3>2. \E pc, l, d : Photos!Begins(h, pc, l, d) /\ pc # "showing"
      <4>1. CASE Photos!SendPhoto(h)
        BY <3>1, <4>1 DEF Photos!SendPhoto
      <4>2. CASE Photos!AlbumEnds(h) /\ handler' # handler
        BY <3>1, <4>2 DEF Photos!AlbumEnds
      <4>3. CASE Photos!SendJson(h)
        BY <4>3, "recognising" # "showing", Zenon DEF Photos!SendJson
      <4>4. CASE Photos!Confirm(h, k)
        BY <4>4, "saving" # "showing", Zenon DEF Photos!Confirm, Photos!Saves
      <4>5. QED BY <1>7, <4>1, <4>2, <4>3, <4>4
    <3>3. QED BY <3>2 DEF Photos!Begins, Photos!At
  <2>2. [pc |-> pc, kind |-> l, pages |-> d].pc # "showing"
    BY <2>1
  <2>3. FewerDrafts /\ UNCHANGED previews /\ crossed \subseteq crossed'
    BY <1>2, <1>7 DEF Photos!SendPhoto, Photos!AlbumEnds, Photos!SendJson, Photos!Confirm, Photos!Saves, Photos!Quiet,
                      Photos!Crosses, FewerDrafts
  <2>4. QED BY <1>6, <2>1, <2>2, <2>3
<1>8. ASSUME NEW h \in Handlers, Photos!AlbumEnds(h), handler' = handler PROVE NothingShown
  BY <1>8 DEF Photos!AlbumEnds, Photos!Quiet, Photos!Crosses, FewerDrafts, NothingShown
<1>9. ASSUME NEW h \in Handlers, Photos!NotRecognised(h) \/ Photos!NotSaved(h) \/ Photos!Saved(h)
      PROVE  NothingShown
  <2>1. PICK r : r = Photos!Idle
    OBVIOUS
  <2>2. handler' = [handler EXCEPT ![h] = r] /\ r.pc # "showing" /\ handler[h].pc # "showing" /\ UNCHANGED previews
    BY <1>9, <2>1 DEF Photos!NotRecognised, Photos!NotSaved, Photos!Saved, Photos!Ends, Photos!Idle, Photos!At,
                      Photos!Quiet
  <2>3. FewerDrafts
    BY <1>9 DEF Photos!NotRecognised, Photos!NotSaved, Photos!Saved, FewerDrafts, Photos!Without
  <2>4. crossed \subseteq crossed'
    BY <1>2, <1>9 DEF Photos!NotRecognised, Photos!NotSaved, Photos!Saved
  <2>5. QED BY <1>6, <2>2, <2>3, <2>4
<1>10. ASSUME NEW h \in Handlers, Photos!Downloaded(h) PROVE NothingShown
  <2>1. /\ handler[h].pc = "downloading" /\ handler' = [handler EXCEPT ![h].pc = "recognising"]
        /\ UNCHANGED <<previews, drafts, crossed>>
    BY <1>10 DEF Photos!Downloaded, Photos!At, Photos!Goes, Photos!Quiet
  <2>2. handler'[h].pc = "recognising" /\ \A g \in Handlers \ {h} : handler'[g] = handler[g]
    BY <2>1 DEF PagesInv, Followed
  <2>3. FewerDrafts
    BY <2>1 DEF FewerDrafts
  <2>4. \A g \in Handlers : handler'[g] = handler[g] \/ (handler'[g].pc # "showing" /\ handler[g].pc # "showing")
    BY <2>1, <2>2
  <2>5. QED BY <2>1, <2>3, <2>4 DEF NothingShown
<1>11. CASE UNCHANGED photoVars
  BY <1>11 DEF photoVars, FewerDrafts, NothingShown
<1>12. QED
  BY <1>3, <1>4, <1>5, <1>7, <1>8, <1>9, <1>10, <1>11 DEF Photos!Next

(* A preview arrives or is lost. *)
LEMMA ShownIs ==
  ASSUME PagesInv, NEW h \in Handlers, Photos!Show(h) \/ Photos!Lost(h)
  PROVE  /\ Photos!Shown(h) /\ handler[h].pc = "showing" /\ handler'[h].pc = "idle"
         /\ \A g \in Handlers \ {h} : handler'[g] = handler[g]
         /\ previews' = previews \/ previews' = Photos!With(previews, handler[h].kind, handler[h].pages)
  BY DEF Photos!Show, Photos!Lost, Photos!Shown, Photos!At, Photos!Ends, Photos!Idle, PagesInv

(* A preview on its way shows a draft of one sheet or a summary. *)
KindsInv == \A h \in Handlers : handler[h].pc = "showing" => handler[h].kind \in {"ocr", "summary"}

LEMMA KindsStep == PagesInv /\ KindsInv /\ [Photos!Next]_photoVars => KindsInv'
<1>. SUFFICES ASSUME PagesInv, KindsInv, [Photos!Next]_photoVars PROVE KindsInv'
  OBVIOUS
<1>1. CASE NothingShown
  BY <1>1 DEF NothingShown, KindsInv
<1>2. ASSUME NEW h \in Handlers, Photos!Recognised(h) PROVE KindsInv'
  BY <1>2, RecognisedOn DEF Photos!KindOf, KindsInv
<1>3. ASSUME NEW h \in Handlers, Photos!Show(h) \/ Photos!Lost(h) PROVE KindsInv'
  BY <1>3, ShownIs DEF KindsInv
<1>4. QED BY <1>1, <1>2, <1>3, PhotosGoOn

LEMMA KindsStart == Photos!Init => KindsInv
  BY DEF Photos!Init, Photos!Idle, KindsInv

(* One sheet: unless it has changed under a download, the batch that is downloaded has all
   the photos kept so far, and there is no other. *)
Batch(h) == handler[h].pc = "downloading" /\ handler[h].kind = "summary"

SheetInv ==
  /\ \A h \in Handlers : handler[h].pc = "downloading" => handler[h].kind \in {"ocr", "summary"}
  /\ "pages" \notin crossed =>
       /\ Photos!ToSet(images) = sheet
       /\ \A h \in Handlers : Batch(h) => sheet \subseteq Photos!ToSet(handler[h].pages)
       /\ \A g, h \in Handlers : Batch(g) /\ Batch(h) => g = h

LEMMA ToSetOfMore ==
  ASSUME NEW n \in Nat, NEW c \in Seq(1..n), NEW d \in Seq(1..n)
  PROVE  Photos!ToSet(c) \subseteq Photos!ToSet(c \o d)
<1>1. /\ DOMAIN c = 1..Len(c) /\ DOMAIN (c \o d) = 1..(Len(c) + Len(d))
      /\ Len(c) \in Nat /\ Len(d) \in Nat /\ \A i \in 1..Len(c) : (c \o d)[i] = c[i]
  OBVIOUS
<1>2. QED BY <1>1 DEF Photos!ToSet

(* Steps that begin no batch. *)
LEMMA SheetStays ==
  ASSUME SheetInv, "pages" \in crossed => "pages" \in crossed',
         \A h \in Handlers : handler'[h].pc = "downloading" => handler'[h] = handler[h],
         \/ images' = images /\ sheet' = sheet
         \/ images' = <<>> /\ sheet' = {} /\ ("pages" \in crossed' \/ \A h \in Handlers : ~Batch(h)')
  PROVE  SheetInv'
<1>0. \A h \in Handlers : Batch(h)' => Batch(h) /\ handler'[h].pages = handler[h].pages
  BY DEF Batch
<1>1. CASE images' = images /\ sheet' = sheet
  BY <1>0, <1>1 DEF SheetInv
<1>2. CASE images' = <<>> /\ sheet' = {} /\ ("pages" \in crossed' \/ \A h \in Handlers : ~Batch(h)')
  <2>1. Photos!ToSet(images') = {}
    BY <1>2 DEF Photos!ToSet
  <2>2. QED BY <1>0, <1>2, <2>1 DEF SheetInv
<1>3. QED BY <1>1, <1>2

LEMMA NewSheetCrosses ==
  ASSUME Photos!NewSheet
  PROVE  /\ images' = <<>> /\ sheet' = {} /\ crossed \subseteq crossed'
         /\ "pages" \in crossed' \/ \A h \in Handlers : ~Batch(h)
  BY DEF Photos!NewSheet, Photos!Crosses, Photos!Downloading, Photos!At, Batch

(* A handler takes photos, those of the sheet before them if they are for the summary. *)
LEMMA SheetTaken ==
  ASSUME PagesInv, SheetInv, NEW h \in Handlers, NEW pages \in Seq(1..photos'), NEW summary,
         photos' \in Nat, photos <= photos', UNCHANGED <<saved, images, sheet>>,
         Photos!Recognises(h, pages, summary), Photos!Crosses("pages", summary /\ Photos!Downloading("summary") # {})
  PROVE  SheetInv'
<1>1. /\ handler' = [handler EXCEPT ![h] = [pc |-> "downloading", kind |-> IF summary THEN "summary" ELSE "ocr",
                                            pages |-> IF summary THEN images \o pages ELSE pages]]
      /\ handler[h].pc = "idle"
  BY DEF Photos!Recognises, Photos!Begins, Photos!At
<1>2. /\ \A g \in Handlers \ {h} : handler'[g] = handler[g]
      /\ handler'[h].kind = (IF summary THEN "summary" ELSE "ocr")
      /\ handler'[h].pages = (IF summary THEN images \o pages ELSE pages)
  BY <1>1 DEF PagesInv
<1>3. crossed \subseteq crossed' /\ ~Batch(h)
  BY <1>1 DEF Photos!Crosses, Batch
<1>4. CASE ~summary
  <2>1. ~Batch(h)' /\ \A g \in Handlers \ {h} : Batch(g)' = Batch(g)
    BY <1>2, <1>4 DEF Batch
  <2>2. QED BY <1>2, <1>3, <1>4, <2>1 DEF SheetInv
<1>5. CASE summary
  <2>1. "pages" \in crossed' \/ \A g \in Handlers : ~Batch(g)
    BY <1>5 DEF Photos!Crosses, Photos!Downloading, Photos!At, Batch
  <2>2. Photos!ToSet(images) \subseteq Photos!ToSet(handler'[h].pages)
    BY <1>2, <1>5, ToSetOfMore, SavedStay
  <2>3. \A g \in Handlers \ {h} : Batch(g)' = Batch(g)
    BY <1>2 DEF Batch
  <2>4. QED BY <1>2, <1>3, <1>5, <2>1, <2>2, <2>3 DEF SheetInv
<1>6. QED BY <1>4, <1>5

(* The batch is downloaded: its photos are what is kept now. *)
LEMMA SheetComes ==
  ASSUME PagesInv, SheetInv, NEW h \in Handlers, Photos!Downloaded(h)
  PROVE  SheetInv'
<1>1. /\ handler[h].pc = "downloading" /\ handler' = [handler EXCEPT ![h].pc = "recognising"] /\ UNCHANGED crossed
      /\ IF handler[h].kind = "ocr" THEN UNCHANGED <<images, sheet>>
         ELSE images' = handler[h].pages /\ sheet' = sheet \cup Photos!ToSet(handler[h].pages)
  BY DEF Photos!Downloaded, Photos!At, Photos!Goes
<1>2. /\ \A g \in Handlers \ {h} : handler'[g] = handler[g]
      /\ handler'[h].pc = "recognising"
  BY <1>1 DEF PagesInv, Followed
<1>3. ~Batch(h)' /\ \A g \in Handlers \ {h} : Batch(g)' = Batch(g)
  BY <1>2 DEF Batch
<1>4. CASE handler[h].kind = "ocr"
  BY <1>1, <1>2, <1>3, <1>4, SheetStays
<1>5. CASE handler[h].kind # "ocr"
  <2>1. Batch(h)
    BY <1>1, <1>5 DEF SheetInv, Batch
  <2>2. QED BY <1>1, <1>2, <1>3, <1>5, <2>1 DEF SheetInv
<1>6. QED BY <1>4, <1>5

(* The handler h goes on to something else than a download, or ends. *)
LEMMA NoNewBatch ==
  ASSUME PagesInv, NEW h \in Handlers, NEW r, handler' = [handler EXCEPT ![h] = r], r.pc # "downloading"
  PROVE  \A g \in Handlers : handler'[g].pc = "downloading" => handler'[g] = handler[g]
  BY DEF PagesInv

LEMMA SheetStep == PagesInv /\ KindsInv /\ SheetInv /\ [Photos!Next]_photoVars => SheetInv'
<1>. SUFFICES ASSUME PagesInv, KindsInv, SheetInv, [Photos!Next]_photoVars PROVE SheetInv'
  OBVIOUS
<1>1. CASE Photos!AskPhoto \/ Photos!CancelPhoto \/ Photos!AddMore \/ Photos!Reset \/ Photos!SendToAlbum
  <2>1. UNCHANGED <<handler, images, sheet, crossed>>
    BY <1>1 DEF Photos!AskPhoto, Photos!CancelPhoto, Photos!AddMore, Photos!Reset, Photos!SendToAlbum,
                Photos!Button, Photos!SameSheet
  <2>2. QED BY <2>1, SheetStays
<1>2. CASE Photos!AskSummary \/ Photos!AskJson \/ Photos!CancelSummary
  <2>1. Photos!NewSheet /\ UNCHANGED handler
    BY <1>2 DEF Photos!AskSummary, Photos!AskJson, Photos!CancelSummary, Photos!Button
  <2>2. \A h \in Handlers : Batch(h)' = Batch(h)
    BY <2>1 DEF Batch
  <2>3. QED BY <2>1, <2>2, NewSheetCrosses, SheetStays
<1>3. CASE Photos!Restart
  <2>1. /\ \A h \in Handlers : handler'[h].pc = "idle"
        /\ images' = <<>> /\ sheet' = {} /\ UNCHANGED crossed
    BY <1>3 DEF Photos!Restart, Photos!Idle
  <2>2. QED BY <2>1, SheetStays DEF Batch
<1>4. ASSUME NEW h \in Handlers, Photos!SendPhoto(h) PROVE SheetInv'
  <2>1. PICK summary, pages : summary = ("pages" \in waiting) /\ pages = <<photos + 1>>
    OBVIOUS
  <2>2. /\ Photos!Recognises(h, pages, summary)
        /\ Photos!Crosses("pages", summary /\ Photos!Downloading("summary") # {})
        /\ photos' = photos + 1 /\ UNCHANGED <<saved, images, sheet>>
    BY <1>4, <2>1 DEF Photos!SendPhoto, Photos!Sends, Photos!Photo, Photos!Quiet
  <2>3. photos' \in Nat /\ photos <= photos' /\ pages \in Seq(1..photos')
    BY <2>1, <2>2 DEF PagesInv
  <2>4. QED BY <2>2, <2>3, SheetTaken
<1>5. ASSUME NEW h \in Handlers, Photos!AlbumEnds(h) PROVE SheetInv'
  <2>1. PICK summary, pages : summary = album.summary /\ pages = album.pages
    OBVIOUS
  <2>2. /\ UNCHANGED handler \/ Photos!Recognises(h, pages, summary)
        /\ Photos!Crosses("pages", summary /\ Photos!Downloading("summary") # {})
        /\ UNCHANGED <<saved, images, sheet, photos>>
    BY <1>5, <2>1 DEF Photos!AlbumEnds, Photos!Quiet
  <2>3. photos' \in Nat /\ photos <= photos' /\ pages \in Seq(1..photos') /\ crossed \subseteq crossed'
    BY <2>1, <2>2 DEF PagesInv, Photos!Crosses
  <2>4. CASE UNCHANGED handler
    BY <2>2, <2>3, <2>4, SheetStays
  <2>5. CASE Photos!Recognises(h, pages, summary)
    BY <2>2, <2>3, <2>5, SheetTaken
  <2>6. QED BY <2>2, <2>4, <2>5
<1>6. ASSUME NEW h \in Handlers, NEW k, Photos!SendJson(h) \/ Photos!Confirm(h, k) PROVE SheetInv'
  <2>1. PICK pc, l, d : handler' = [handler EXCEPT ![h] = [pc |-> pc, kind |-> l, pages |-> d]] /\ pc # "downloading"
    BY <1>6 DEF Photos!SendJson, Photos!Confirm, Photos!Saves, Photos!Begins
  <2>2. [pc |-> pc, kind |-> l, pages |-> d].pc # "downloading" /\ UNCHANGED <<images, sheet, crossed>>
    BY <1>6, <2>1 DEF Photos!SendJson, Photos!Confirm, Photos!Saves, Photos!SameSheet
  <2>3. QED BY <2>1, <2>2, NoNewBatch, SheetStays
<1>7. ASSUME NEW h \in Handlers, Photos!Recognised(h) PROVE SheetInv'
  <2>1. UNCHANGED <<images, sheet, crossed>>
    BY <1>7 DEF Photos!Recognised
  <2>2. \A g \in Handlers : handler'[g].pc = "downloading" => handler'[g] = handler[g]
    BY <1>7, RecognisedOn
  <2>3. QED BY <2>1, <2>2, SheetStays
<1>8. ASSUME NEW h \in Handlers, Photos!NotRecognised(h) \/ Photos!NotSaved(h) \/ Photos!Saved(h)
      PROVE  SheetInv'
  <2>1. PICK r : r = Photos!Idle
    OBVIOUS
  <2>2. /\ handler' = [handler EXCEPT ![h] = r] /\ r.pc # "downloading"
        /\ UNCHANGED <<images, sheet, crossed>> \/ Photos!NewSheet
    BY <1>8, <2>1 DEF Photos!NotRecognised, Photos!NotSaved, Photos!Saved, Photos!Ends, Photos!Idle, Photos!SameSheet
  <2>3. \A g \in Handlers : handler'[g].pc = "downloading" => handler'[g] = handler[g]
    BY <2>2, NoNewBatch
  <2>4. CASE UNCHANGED <<images, sheet, crossed>>
    BY <2>3, <2>4, SheetStays
  <2>5. CASE Photos!NewSheet
    <3>1. \A g \in Handlers : Batch(g)' => Batch(g)
      BY <2>3 DEF Batch
    <3>2. QED BY <2>3, <2>5, <3>1, NewSheetCrosses, SheetStays
  <2>6. QED BY <2>2, <2>4, <2>5
<1>9. ASSUME NEW h \in Handlers, Photos!Show(h) \/ Photos!Lost(h) PROVE SheetInv'
  <2>1. /\ Photos!Shown(h) /\ handler[h].kind # "pages"
        /\ \A g \in Handlers : handler'[g].pc = "downloading" => handler'[g] = handler[g]
    BY <1>9, ShownIs DEF KindsInv
  <2>2. ("pages" \in crossed => "pages" \in crossed') /\ images' = images /\ sheet' = sheet
    BY <2>1 DEF Photos!Shown
  <2>3. QED BY <2>1, <2>2, SheetStays
<1>10. CASE UNCHANGED photoVars
  BY <1>10, SheetStays DEF photoVars
<1>11. QED
  BY <1>1, <1>2, <1>3, <1>4, <1>5, <1>6, <1>7, <1>8, <1>9, <1>10, SheetComes DEF Photos!Next

LEMMA SheetStart == Photos!Init => SheetInv
<1>. SUFFICES ASSUME Photos!Init PROVE SheetInv
  OBVIOUS
<1>1. images = <<>> /\ sheet = {} /\ \A h \in Handlers : handler[h].pc = "idle"
  BY DEF Photos!Init, Photos!Idle
<1>2. Photos!ToSet(images) = sheet
  BY <1>1 DEF Photos!ToSet
<1>3. QED BY <1>1, <1>2 DEF SheetInv, Batch

(* A draft is what the last preview showed, or its preview is on its way, or a preview of its
   kind was lost or came after a newer one. *)
Shows(h, k) == handler[h].pc = "showing" /\ handler[h].kind = k

PreviewsInv ==
  \A k \in DOMAIN drafts :
    \/ k \in crossed
    \/ \E h \in Handlers : Shows(h, k) /\ handler[h].pages = drafts[k]
    \/ k \in DOMAIN previews /\ previews[k] = drafts[k]

LEMMA PreviewsStay == PreviewsInv /\ NothingShown => PreviewsInv'
<1>. SUFFICES ASSUME PreviewsInv, NothingShown PROVE PreviewsInv'
  OBVIOUS
<1>1. CASE DOMAIN drafts' = {}
  BY <1>1 DEF PreviewsInv
<1>2. CASE \A h \in Handlers : handler'[h] = handler[h] \/ (handler'[h].pc # "showing" /\ handler[h].pc # "showing")
  <2>1. ASSUME NEW k, NEW h \in Handlers, Shows(h, k) PROVE Shows(h, k)' /\ handler'[h].pages = handler[h].pages
    BY <1>2, <2>1 DEF Shows
  <2>2. QED BY <2>1 DEF PreviewsInv, NothingShown, FewerDrafts
<1>3. QED BY <1>1, <1>2 DEF NothingShown

(* A draft is made and its preview is on its way. *)
LEMMA PreviewComes ==
  ASSUME PagesInv, PreviewsInv, NEW h \in Handlers, Photos!Recognised(h)
  PROVE  PreviewsInv'
<1>1. PICK k, d : k = Photos!KindOf(h) /\ d = handler[h].pages
  OBVIOUS
<1>2. drafts' = Photos!With(drafts, k, d) /\ UNCHANGED <<previews, crossed>>
  BY <1>1 DEF Photos!Recognised, Photos!Quiet
<1>3. /\ DOMAIN drafts' = DOMAIN drafts \cup {k} /\ drafts'[k] = d
      /\ \A l \in DOMAIN drafts \ {k} : drafts'[l] = drafts[l]
  BY <1>2 DEF Photos!With
<1>4. /\ Shows(h, k)' /\ handler'[h].pages = d /\ \A l : ~Shows(h, l)
      /\ \A g \in Handlers \ {h} : handler'[g] = handler[g]
  BY <1>1, RecognisedOn DEF Shows
<1>5. ASSUME NEW l, NEW g \in Handlers, Shows(g, l) PROVE Shows(g, l)' /\ handler'[g].pages = handler[g].pages
  BY <1>4, <1>5 DEF Shows
<1>6. QED BY <1>2, <1>3, <1>4, <1>5 DEF PreviewsInv

(* A preview arrives or is lost. *)
LEMMA PreviewShown ==
  ASSUME PagesInv, PreviewsInv, NEW h \in Handlers, Photos!Show(h) \/ Photos!Lost(h)
  PROVE  PreviewsInv'
<1>1. PICK k, d : k = handler[h].kind /\ d = handler[h].pages
  OBVIOUS
<1>2. /\ Photos!Shown(h) /\ handler[h].pc = "showing" /\ \A g \in Handlers \ {h} : handler'[g] = handler[g]
      /\ previews' = previews \/ previews' = Photos!With(previews, k, d)
  BY <1>1, ShownIs
<1>3. /\ drafts' = drafts
      /\ crossed' = IF k \in DOMAIN drafts /\ (k \notin DOMAIN previews' \/ previews'[k] # drafts[k])
                    THEN crossed \cup {k} ELSE crossed \ {k}
  BY <1>1, <1>2 DEF Photos!Shown
<1>4. /\ DOMAIN previews \subseteq DOMAIN previews'
      /\ \A l \in DOMAIN previews \ {k} : previews'[l] = previews[l]
  BY <1>2 DEF Photos!With
<1>5. ASSUME NEW l, l # k, NEW g \in Handlers, Shows(g, l) PROVE Shows(g, l)' /\ handler'[g].pages = handler[g].pages
  BY <1>1, <1>2, <1>5 DEF Shows
<1>6. QED BY <1>3, <1>4, <1>5 DEF PreviewsInv

LEMMA PreviewsStep == PagesInv /\ PreviewsInv /\ [Photos!Next]_photoVars => PreviewsInv'
  BY PhotosGoOn, PreviewsStay, PreviewComes, PreviewShown

LEMMA PreviewsStart == Photos!Init => PreviewsInv
  BY DEF Photos!Init, Photos!None, PreviewsInv

(* What is saved is what was shown. *)
ShownDraft ==
  LET k == applying'.kind IN
  k # "none" => \/ k \in DOMAIN previews /\ applying'.pages = previews[k]
                \/ Photos!Showing(k) # {} \/ k \in crossed

LEMMA PreviewsGive == PreviewsInv /\ [Photos!Next]_photoVars => [ShownDraft]_Photos!vars
<1>. SUFFICES ASSUME PreviewsInv, [Photos!Next]_photoVars PROVE [ShownDraft]_Photos!vars
  OBVIOUS
<1>1. ASSUME NEW h \in Handlers, NEW k, Photos!Confirm(h, k) PROVE ShownDraft
  <2>1. k \in DOMAIN drafts /\ applying' = [kind |-> k, pages |-> drafts[k]]
    BY <1>1 DEF Photos!Confirm, Photos!Saves
  <2>2. applying'.kind = k /\ applying'.pages = drafts[k]
    BY <2>1
  <2>3. CASE \E g \in Handlers : Shows(g, k)
    BY <2>2, <2>3 DEF ShownDraft, Shows, Photos!Showing, Photos!At
  <2>4. QED BY <2>1, <2>2, <2>3 DEF PreviewsInv, ShownDraft
<1>2. ASSUME Photos!Silent PROVE ShownDraft
  <2>1. applying'.kind = "none"
    BY <1>2 DEF Photos!Silent, Photos!NotApplying
  <2>2. QED BY <2>1 DEF ShownDraft
<1>3. Photos!Next => Photos!Silent \/ \E h \in Handlers, k \in {"ocr", "summary"} : Photos!Confirm(h, k)
  BY DEF Photos!Next, Photos!AskPhoto, Photos!CancelPhoto, Photos!AskSummary, Photos!AddMore, Photos!AskJson,
         Photos!CancelSummary, Photos!Reset, Photos!Button, Photos!SendToAlbum, Photos!Restart, Photos!SendPhoto,
         Photos!AlbumEnds, Photos!SendJson, Photos!Downloaded, Photos!Recognised, Photos!Show, Photos!Lost, Photos!Shown, Photos!NotRecognised,
         Photos!Saved, Photos!NotSaved, Photos!Quiet
<1>4. UNCHANGED photoVars => UNCHANGED Photos!vars
  BY DEF photoVars, Photos!vars
<1>5. QED BY <1>1, <1>2, <1>3, <1>4

(* Drafts that are shown before they are let out *)

Displays(t, k) == task[t].pc = "showing" /\ task[t].kind = k
IsForm(f) == {"kind", "answers", "step"} \subseteq DOMAIN f

(* A form is of the kind for which it was opened, in whatever hands it is; a form whose
   answers are expected is there. *)
FormsInv ==
  /\ \E S : forms \in Seq(S)
  /\ \A i \in DOMAIN forms : IsForm(forms[i])
  /\ \A k \in Dialogue!Forms \cap DOMAIN written : written[k] \in DOMAIN forms /\ forms[written[k]].kind = k
  /\ \A t \in Tasks : task[t].pc = "looking" /\ task[t].kind \in Dialogue!Forms =>
                        task[t].form \in DOMAIN forms /\ forms[task[t].form].kind = task[t].kind
  /\ awaiting \cap Dialogue!Forms \subseteq DOMAIN written

(* A draft is what the last preview showed, or its preview is on its way, or a preview of its
   kind was lost or came after a newer one; a form may be waiting for more answers. *)
Settled(k) ==
  \/ Dialogue!Unfinished(k) \/ k \in unseen
  \/ \E t \in Tasks : Displays(t, k) /\ task[t].draft = Dialogue!Draft(k)
  \/ k \in DOMAIN preview /\ preview[k] = Dialogue!Draft(k)

DisplayInv == \A k \in Dialogue!Confirmed \cap DOMAIN written : Settled(k)

(* The draft of this step is that of the last one. *)
SameDraft(k) ==
  /\ k \in DOMAIN written /\ written'[k] = written[k]
  /\ k \in Dialogue!Forms => forms'[written[k]] = forms[written[k]]

LEMMA SameDraftIs ==
  ASSUME NEW k, SameDraft(k)
  PROVE  Dialogue!Draft(k)' = Dialogue!Draft(k) /\ Dialogue!Unfinished(k)' = Dialogue!Unfinished(k)
  BY DEF SameDraft, Dialogue!Draft, Dialogue!Unfinished, Dialogue!Form

LEMMA DisplayStays ==
  ASSUME DisplayInv, UNCHANGED <<preview, unseen>>,
         \A t \in Tasks : task[t].pc = "showing" => task'[t] = task[t],
         \A k \in Dialogue!Confirmed \cap DOMAIN written' :
            \/ SameDraft(k) \/ Dialogue!Unfinished(k)'
            \/ \E t \in Tasks : Displays(t, k)' /\ task'[t].draft = Dialogue!Draft(k)'
  PROVE  DisplayInv'
<1>1. ASSUME NEW k \in Dialogue!Confirmed, SameDraft(k) PROVE Settled(k)'
  <2>1. Settled(k) /\ Dialogue!Draft(k)' = Dialogue!Draft(k) /\ Dialogue!Unfinished(k)' = Dialogue!Unfinished(k)
    BY <1>1, SameDraftIs DEF DisplayInv, SameDraft
  <2>2. ASSUME NEW t \in Tasks, Displays(t, k) PROVE Displays(t, k)' /\ task'[t].draft = task[t].draft
    BY <2>2 DEF Displays
  <2>3. QED BY <2>1, <2>2 DEF Settled
<1>2. QED BY <1>1 DEF DisplayInv, Settled

(* Drafts are dropped, tasks that show nothing go on or end; the forms are as they were. *)
LEMMA DisplayKeeps ==
  ASSUME FormsInv, DisplayInv, UNCHANGED <<forms, preview, unseen>>,
         DOMAIN written' \subseteq DOMAIN written, \A k \in DOMAIN written' : written'[k] = written[k],
         awaiting' \cap Dialogue!Forms \subseteq DOMAIN written',
         \A t \in Tasks : task'[t] = task[t] \/ (task[t].pc # "showing" /\ task'[t].pc # "looking")
  PROVE  FormsInv' /\ DisplayInv'
<1>1. FormsInv'
  BY DEF FormsInv, IsForm
<1>2. \A k \in DOMAIN written' : SameDraft(k)
  BY DEF SameDraft
<1>3. QED BY <1>1, <1>2, DisplayStays

LEMMA DroppedDisplay ==
  ASSUME FormsInv, DisplayInv, UNCHANGED <<forms, preview, unseen>>, NEW K, written' = Dialogue!Without(written, K),
         awaiting' \cap Dialogue!Forms \subseteq awaiting \ K,
         \A t \in Tasks : task'[t] = task[t] \/ (task[t].pc # "showing" /\ task'[t].pc # "looking")
  PROVE  FormsInv' /\ DisplayInv'
<1>1. DOMAIN written' = DOMAIN written \ K /\ \A k \in DOMAIN written' : written'[k] = written[k]
  BY DEF Dialogue!Without
<1>2. awaiting' \cap Dialogue!Forms \subseteq DOMAIN written'
  BY <1>1 DEF FormsInv
<1>3. QED BY <1>1, <1>2, DisplayKeeps

(* A form is changed in place. *)
LEMMA FormChanged ==
  ASSUME FormsInv, NEW i \in DOMAIN forms, NEW f, IsForm(f), f.kind = forms[i].kind, forms' = [forms EXCEPT ![i] = f]
  PROVE  /\ DOMAIN forms' = DOMAIN forms /\ forms'[i] = f /\ \A j \in DOMAIN forms \ {i} : forms'[j] = forms[j]
         /\ \E S : forms' \in Seq(S)
         /\ \A j \in DOMAIN forms' : IsForm(forms'[j]) /\ forms'[j].kind = forms[j].kind
<1>1. PICK S : forms \in Seq(S)
  BY DEF FormsInv
<1>2. PICK R : R = S \cup {f}
  OBVIOUS
<1>3. forms' \in Seq(R)
  <2>1. Len(forms) \in Nat /\ DOMAIN forms = 1..Len(forms) /\ forms \in [1..Len(forms) -> R]
    BY <1>1, <1>2
  <2>2. forms' \in [1..Len(forms) -> R]
    BY <1>2, <2>1
  <2>3. QED BY <2>1, <2>2, FunctionIsSeq
<1>4. DOMAIN forms' = DOMAIN forms /\ forms'[i] = f /\ \A j \in DOMAIN forms \ {i} : forms'[j] = forms[j]
  OBVIOUS
<1>5. \A j \in DOMAIN forms' : IsForm(forms'[j]) /\ forms'[j].kind = forms[j].kind
  BY <1>4 DEF FormsInv
<1>6. QED BY <1>3, <1>4, <1>5

LEMMA AnsweredIs ==
  ASSUME NEW f, NEW a
  PROVE  /\ IsForm(Dialogue!Answered(f, a)) /\ Dialogue!Answered(f, a).kind = f.kind
         /\ Dialogue!Answered(f, a).step = f.step + 1
  BY DEF Dialogue!Answered, IsForm

(* A form gets an answer and is stored. *)
LEMMA FormDisplayed ==
  ASSUME TextsInv, FormsInv, DisplayInv, NEW t \in Tasks, task[t].pc # "showing",
         NEW k \in Dialogue!Forms, NEW i \in DOMAIN forms, forms[i].kind = k, NEW f, IsForm(f), f.kind = k,
         Dialogue!StoresForm(t, k, i, f)
  PROVE  FormsInv' /\ DisplayInv'
<1>1. /\ forms' = [forms EXCEPT ![i] = f] /\ written' = Dialogue!With(written, k, i)
      /\ UNCHANGED <<awaiting, preview, unseen>>
  BY DEF Dialogue!StoresForm
<1>2. /\ DOMAIN forms' = DOMAIN forms /\ forms'[i] = f /\ \A j \in DOMAIN forms \ {i} : forms'[j] = forms[j]
      /\ \E S : forms' \in Seq(S)
      /\ \A j \in DOMAIN forms' : IsForm(forms'[j]) /\ forms'[j].kind = forms[j].kind
  BY <1>1, FormChanged
<1>3. /\ DOMAIN written' = DOMAIN written \cup {k} /\ written'[k] = i
      /\ \A l \in DOMAIN written \ {k} : written'[l] = written[l]
  BY <1>1 DEF Dialogue!With
<1>4. PICK r : /\ task' = [task EXCEPT ![t] = r] /\ r.pc # "looking"
               /\ f.step = ShortSteps[k] => r.pc = "showing" /\ r.kind = k /\ r.draft = f.answers
  <2>1. CASE f.step = ShortSteps[k]
    <3>1. PICK e : e = Task("showing", k, f.answers, 0)
      OBVIOUS
    <3>2. e.pc = "showing" /\ e.kind = k /\ e.draft = f.answers
      BY <3>1, TaskIs
    <3>3. task' = [task EXCEPT ![t] = e]
      BY <2>1, <3>1 DEF Dialogue!StoresForm, Dialogue!Goes, Task
    <3>4. QED BY <2>1, <3>2, <3>3
  <2>2. CASE f.step # ShortSteps[k]
    <3>1. PICK e : e = Dialogue!Free /\ e.pc = "free"
      BY TaskIs
    <3>2. task' = [task EXCEPT ![t] = e]
      BY <2>2, <3>1 DEF Dialogue!StoresForm, Dialogue!Ends
    <3>3. QED BY <2>2, <3>1, <3>2
  <2>3. QED BY <2>1, <2>2
<1>5. DOMAIN task' = Tasks /\ task'[t] = r /\ \A u \in Tasks \ {t} : task'[u] = task[u]
  BY <1>4, TaskGoes DEF TextsInv
<1>6. FormsInv'
  <2>1. \A l \in Dialogue!Forms \cap DOMAIN written' : written'[l] \in DOMAIN forms' /\ forms'[written'[l]].kind = l
    BY <1>2, <1>3 DEF FormsInv
  <2>2. \A u \in Tasks : task'[u].pc = "looking" /\ task'[u].kind \in Dialogue!Forms =>
                           task'[u].form \in DOMAIN forms' /\ forms'[task'[u].form].kind = task'[u].kind
    BY <1>2, <1>4, <1>5 DEF FormsInv
  <2>3. QED BY <1>1, <1>2, <1>3, <2>1, <2>2 DEF FormsInv
<1>7. \A l \in DOMAIN written' \ {k} : SameDraft(l)
  BY <1>2, <1>3 DEF FormsInv, SameDraft
<1>8. Dialogue!Form(k)' = f /\ Dialogue!Draft(k)' = f.answers
  BY <1>2, <1>3 DEF Dialogue!Draft, Dialogue!Form
<1>9. CASE f.step = ShortSteps[k]
  <2>1. Displays(t, k)' /\ task'[t].draft = Dialogue!Draft(k)'
    BY <1>4, <1>5, <1>8, <1>9 DEF Displays
  <2>2. QED BY <1>1, <1>5, <1>6, <1>7, <2>1, DisplayStays
<1>10. CASE f.step # ShortSteps[k]
  <2>1. Dialogue!Unfinished(k)'
    BY <1>8, <1>10 DEF Dialogue!Unfinished
  <2>2. QED BY <1>1, <1>5, <1>6, <1>7, <2>1, DisplayStays
<1>11. QED BY <1>9, <1>10

(* Another draft is stored, and shown if it has to be confirmed. *)
LEMMA DraftDisplayed ==
  ASSUME TextsInv, FormsInv, DisplayInv, NEW t \in Tasks, task[t].pc # "showing",
         NEW k, k \notin Dialogue!Forms, NEW d, written' = Dialogue!With(written, k, d),
         NEW r, task' = [task EXCEPT ![t] = r], r.pc # "looking",
         k \in Dialogue!Confirmed => r.pc = "showing" /\ r.kind = k /\ r.draft = d,
         awaiting' \subseteq awaiting, UNCHANGED <<forms, preview, unseen>>
  PROVE  FormsInv' /\ DisplayInv'
<1>1. /\ DOMAIN written' = DOMAIN written \cup {k} /\ written'[k] = d
      /\ \A l \in DOMAIN written \ {k} : written'[l] = written[l]
  BY DEF Dialogue!With
<1>2. DOMAIN task' = Tasks /\ task'[t] = r /\ \A u \in Tasks \ {t} : task'[u] = task[u]
  BY TaskGoes DEF TextsInv
<1>3. FormsInv'
  BY <1>1, <1>2 DEF FormsInv, IsForm
<1>4. \A l \in DOMAIN written' \ {k} : SameDraft(l)
  BY <1>1 DEF SameDraft
<1>5. k \in Dialogue!Confirmed => Displays(t, k)' /\ task'[t].draft = Dialogue!Draft(k)'
  BY <1>1, <1>2 DEF Displays, Dialogue!Draft
<1>6. QED BY <1>2, <1>3, <1>4, <1>5, DisplayStays

LEMMA StoredDisplayed ==
  ASSUME TextsInv, FormsInv, DisplayInv, NEW t \in Tasks, task[t].pc # "showing",
         NEW k, k \notin Dialogue!Forms, NEW d, Dialogue!Stores(t, k, d)
  PROVE  FormsInv' /\ DisplayInv'
<1>1. /\ written' = Dialogue!With(written, k, d) /\ awaiting' \subseteq awaiting
      /\ UNCHANGED <<forms, preview, unseen>>
  BY DEF Dialogue!Stores
<1>2. PICK r : /\ task' = [task EXCEPT ![t] = r] /\ r.pc # "looking"
               /\ k \in Dialogue!Confirmed => r.pc = "showing" /\ r.kind = k /\ r.draft = d
  <2>1. CASE k \in Dialogue!Confirmed
    <3>1. PICK e : e = Task("showing", k, d, 0)
      OBVIOUS
    <3>2. e.pc = "showing" /\ e.kind = k /\ e.draft = d
      BY <3>1, TaskIs
    <3>3. task' = [task EXCEPT ![t] = e]
      BY <2>1, <3>1 DEF Dialogue!Stores, Dialogue!Goes, Task
    <3>4. QED BY <2>1, <3>2, <3>3
  <2>2. CASE k \notin Dialogue!Confirmed
    <3>1. PICK e : e = Dialogue!Free /\ e.pc = "free"
      BY TaskIs
    <3>2. task' = [task EXCEPT ![t] = e]
      BY <2>2, <3>1 DEF Dialogue!Stores, Dialogue!Ends
    <3>3. QED BY <2>2, <3>1, <3>2
  <2>3. QED BY <2>1, <2>2
<1>3. QED BY <1>1, <1>2, DraftDisplayed

(* A text is taken. *)
LEMMA TakenShown ==
  ASSUME TextsInv, FormsInv, DisplayInv, NEW t \in Tasks, NEW k,
         Dialogue!LookUp(t, k) \/ Dialogue!LookGroupUp(t, k) \/ Dialogue!Answer(t, k) \/ Dialogue!TakeText(t, k)
  PROVE  FormsInv' /\ DisplayInv'
<1>1. task[t].pc = "free" /\ k \in awaiting
  BY DEF Dialogue!LookUp, Dialogue!LookGroupUp, Dialogue!Answer, Dialogue!TakeText, Dialogue!Given, Dialogue!At,
         Dialogue!Takes, Dialogue!Asking
<1>2. k \in Dialogue!Forms => k \in DOMAIN written /\ written[k] \in DOMAIN forms /\ forms[written[k]].kind = k
  BY <1>1 DEF FormsInv
<1>3. CASE Dialogue!LookUp(t, k) \/ Dialogue!LookGroupUp(t, k)
  <2>1. PICK d, i : /\ task' = [task EXCEPT ![t] = Task("looking", k, d, i)]
                    /\ k \in Dialogue!Forms => i = written[k]
    BY <1>3 DEF Dialogue!LookUp, Dialogue!LookGroupUp, Dialogue!LooksUp, Dialogue!Goes, Dialogue!Forms, Task
  <2>2. PICK r : r = Task("looking", k, d, i)
    OBVIOUS
  <2>3. r.kind = k /\ r.form = i /\ DOMAIN task' = Tasks /\ task'[t] = r /\ \A u \in Tasks \ {t} : task'[u] = task[u]
    BY <2>1, <2>2, TaskIs, TaskGoes DEF TextsInv
  <2>4. UNCHANGED <<awaiting, written, forms, preview, unseen>>
    BY <1>3 DEF Dialogue!LookUp, Dialogue!LookGroupUp, Dialogue!LooksUp
  <2>5. FormsInv'
    BY <1>2, <2>1, <2>3, <2>4 DEF FormsInv, IsForm
  <2>6. \A l \in DOMAIN written' : SameDraft(l)
    BY <2>4 DEF SameDraft
  <2>7. QED BY <1>1, <2>3, <2>4, <2>5, <2>6, DisplayStays
<1>4. CASE Dialogue!Answer(t, k)
  <2>1. PICK i, f : i = written[k] /\ f = Dialogue!Answered(forms[i], Dialogue!Text)
    OBVIOUS
  <2>2. IsForm(f) /\ f.kind = forms[i].kind
    BY <2>1, AnsweredIs
  <2>3. Dialogue!StoresForm(t, k, i, f) /\ k \in Dialogue!Forms
    BY <1>4, <2>1 DEF Dialogue!Answer, Dialogue!Form
  <2>4. QED BY <1>1, <1>2, <2>1, <2>2, <2>3, FormDisplayed
<1>5. CASE Dialogue!TakeText(t, k)
  BY <1>1, <1>5, StoredDisplayed DEF Dialogue!TakeText, Dialogue!Forms
<1>6. QED BY <1>3, <1>4, <1>5

(* A preview arrives or is lost. *)
LEMMA DisplayEnds ==
  ASSUME TextsInv, FormsInv, DisplayInv, NEW t \in Tasks, Dialogue!Show(t) \/ Dialogue!Lost(t)
  PROVE  FormsInv' /\ DisplayInv'
<1>1. PICK k, d : k = task[t].kind /\ d = task[t].draft
  OBVIOUS
<1>2. /\ task[t].pc = "showing" /\ UNCHANGED <<awaiting, written, forms>>
      /\ task' = [task EXCEPT ![t] = Dialogue!Free]
      /\ preview' = preview \/ preview' = Dialogue!With(preview, k, d)
  BY <1>1 DEF Dialogue!Show, Dialogue!Lost, Dialogue!Shown, Dialogue!At, Dialogue!Ends
<1>3. unseen' = IF k \in DOMAIN written /\ (k \notin DOMAIN preview' \/ preview'[k] # Dialogue!Draft(k))
                THEN unseen \cup {k} ELSE unseen \ {k}
  BY <1>1 DEF Dialogue!Show, Dialogue!Lost, Dialogue!Shown, Dialogue!Compares
<1>4. DOMAIN task' = Tasks /\ task'[t].pc = "free" /\ \A u \in Tasks \ {t} : task'[u] = task[u]
  BY <1>2, TaskGoes, TaskIs DEF TextsInv
<1>5. /\ DOMAIN preview \subseteq DOMAIN preview'
      /\ \A l \in DOMAIN preview \ {k} : preview'[l] = preview[l]
  BY <1>2 DEF Dialogue!With
<1>6. FormsInv'
  BY <1>2, <1>4 DEF FormsInv, IsForm
<1>7. \A l \in DOMAIN written : Dialogue!Draft(l)' = Dialogue!Draft(l) /\ Dialogue!Unfinished(l)' = Dialogue!Unfinished(l)
  BY <1>2 DEF Dialogue!Draft, Dialogue!Unfinished, Dialogue!Form
<1>8. ASSUME NEW l, l # k, NEW u \in Tasks, Displays(u, l) PROVE Displays(u, l)' /\ task'[u].draft = task[u].draft
  BY <1>1, <1>4, <1>8 DEF Displays
<1>9. ASSUME NEW l \in Dialogue!Confirmed \cap DOMAIN written' PROVE Settled(l)'
  <2>1. CASE l = k
    BY <1>2, <1>3, <1>7, <1>9, <2>1 DEF Settled
  <2>2. CASE l # k
    <3>1. Settled(l)
      BY <1>2, <1>9 DEF DisplayInv
    <3>2. QED BY <1>2, <1>3, <1>5, <1>7, <1>8, <1>9, <2>2, <3>1 DEF Settled
  <2>3. QED BY <2>1, <2>2
<1>10. QED BY <1>6, <1>9 DEF DisplayInv

LEMMA ButtonDisplay ==
  ASSUME NEW w, NEW d, Dialogue!Button(w, d)
  PROVE  awaiting' = w /\ written' = d /\ UNCHANGED <<task, preview, unseen>>
  BY DEF Dialogue!Button

LEMMA DisplayStep == TextsInv /\ FormsInv /\ DisplayInv /\ [Dialogue!Next]_dialogueVars => FormsInv' /\ DisplayInv'
<1>. SUFFICES ASSUME TextsInv, FormsInv, DisplayInv, [Dialogue!Next]_dialogueVars PROVE FormsInv' /\ DisplayInv'
  OBVIOUS
<1>1. ASSUME NEW w, NEW K, Dialogue!Button(w, Dialogue!Without(written, K)), UNCHANGED forms,
             w \cap Dialogue!Forms \subseteq awaiting \ K
      PROVE  FormsInv' /\ DisplayInv'
  BY <1>1, ButtonDisplay, DroppedDisplay
<1>2. ASSUME NEW k, Dialogue!Ask(k) \/ Dialogue!Cancel(k) PROVE FormsInv' /\ DisplayInv'
  <2>1. CASE k = "report" /\ Dialogue!Ask(k)
    <3>1. /\ awaiting' = awaiting \cup {k} /\ k \notin Dialogue!Forms
          /\ UNCHANGED <<written, task, preview, unseen, forms>>
      BY <2>1, ButtonDisplay DEF Dialogue!Ask
    <3>2. QED BY <3>1, DisplayKeeps DEF FormsInv
  <2>2. CASE k # "report" /\ Dialogue!Ask(k)
    BY <1>1, <2>2 DEF Dialogue!Ask
  <2>3. CASE Dialogue!Cancel(k)
    BY <1>1, <2>3 DEF Dialogue!Cancel
  <2>4. QED BY <1>2, <2>1, <2>2, <2>3
<1>3. ASSUME NEW k, Dialogue!AskForm(k) PROVE FormsInv' /\ DisplayInv'
  <2>1. PICK S, n : forms \in Seq(S) /\ n = Len(forms)
    BY DEF FormsInv
  <2>2. PICK f, R : f = Dialogue!Blank(k) /\ R = S \cup {f}
    OBVIOUS
  <2>3. IsForm(f) /\ f.kind = k /\ f.step = 0
    BY <2>2 DEF Dialogue!Blank, IsForm
  <2>4. /\ k \in Dialogue!Forms /\ forms' = Append(forms, f) /\ awaiting' = awaiting \cup {k}
        /\ written' = Dialogue!With(written, k, n + 1) /\ UNCHANGED <<task, preview, unseen>>
    BY <1>3, <2>1, <2>2, ButtonDisplay DEF Dialogue!AskForm
  <2>5. /\ forms' \in Seq(R) /\ n \in Nat /\ DOMAIN forms = 1..n /\ DOMAIN forms' = 1..(n + 1)
        /\ forms'[n + 1] = f /\ \A i \in 1..n : forms'[i] = forms[i]
    <3>1. forms \in Seq(R) /\ f \in R
      BY <2>1, <2>2
    <3>2. QED BY <2>1, <2>4, <3>1, AppendIs
  <2>6. /\ DOMAIN written' = DOMAIN written \cup {k} /\ written'[k] = n + 1
        /\ \A l \in DOMAIN written \ {k} : written'[l] = written[l]
    BY <2>4 DEF Dialogue!With
  <2>7. FormsInv'
    <3>1. \A i \in DOMAIN forms' : IsForm(forms'[i])
      BY <2>3, <2>5 DEF FormsInv
    <3>2. \A l \in Dialogue!Forms \cap DOMAIN written' : written'[l] \in DOMAIN forms' /\ forms'[written'[l]].kind = l
      BY <2>3, <2>5, <2>6 DEF FormsInv
    <3>3. \A u \in Tasks : task'[u].pc = "looking" /\ task'[u].kind \in Dialogue!Forms =>
                             task'[u].form \in DOMAIN forms' /\ forms'[task'[u].form].kind = task'[u].kind
      BY <2>4, <2>5 DEF FormsInv
    <3>4. QED BY <2>4, <2>5, <2>6, <3>1, <3>2, <3>3 DEF FormsInv
  <2>8. \A l \in DOMAIN written' \ {k} : SameDraft(l)
    BY <2>5, <2>6 DEF FormsInv, SameDraft
  <2>9. Dialogue!Unfinished(k)'
    <3>1. Dialogue!Form(k)' = f
      BY <2>5, <2>6 DEF Dialogue!Form
    <3>2. ShortSteps[k] # 0
      BY <2>4 DEF Dialogue!Forms, ShortSteps
    <3>3. QED BY <2>3, <2>4, <3>1, <3>2 DEF Dialogue!Unfinished
  <2>10. QED BY <2>4, <2>7, <2>8, <2>9, DisplayStays
<1>4. CASE Dialogue!Reset
  <2>1. DOMAIN written' = {} /\ awaiting' = {} /\ UNCHANGED <<forms, task, preview, unseen>>
    BY <1>4, ButtonDisplay DEF Dialogue!Reset, Dialogue!None
  <2>2. QED BY <2>1, DisplayKeeps
<1>5. CASE Dialogue!Skip
  <2>1. PICK i, f : i = written["lesson"] /\ f = Dialogue!Answered(forms[i], 0)
    OBVIOUS
  <2>2. IsForm(f) /\ f.kind = forms[i].kind /\ f.step = forms[i].step + 1
    BY <2>1, AnsweredIs
  <2>3. /\ "lesson" \in DOMAIN written /\ forms[i].step = 1 /\ forms' = [forms EXCEPT ![i] = f]
        /\ UNCHANGED <<awaiting, written, task, preview, unseen>>
    BY <1>5, <2>1, ButtonDisplay DEF Dialogue!Skip, Dialogue!Form, ShortSteps
  <2>4. i \in DOMAIN forms /\ forms[i].kind = "lesson"
    BY <2>1, <2>3 DEF FormsInv, Dialogue!Forms
  <2>5. /\ DOMAIN forms' = DOMAIN forms /\ forms'[i] = f /\ \A j \in DOMAIN forms \ {i} : forms'[j] = forms[j]
        /\ \E S : forms' \in Seq(S)
        /\ \A j \in DOMAIN forms' : IsForm(forms'[j]) /\ forms'[j].kind = forms[j].kind
    BY <2>2, <2>3, <2>4, FormChanged
  <2>6. FormsInv'
    BY <2>3, <2>5 DEF FormsInv
  <2>7. \A l \in DOMAIN written' \ {"lesson"} : SameDraft(l)
    BY <2>3, <2>4, <2>5 DEF FormsInv, SameDraft
  <2>8. Dialogue!Unfinished("lesson")'
    BY <2>1, <2>2, <2>3, <2>5 DEF Dialogue!Unfinished, Dialogue!Form, Dialogue!Forms, ShortSteps
  <2>9. QED BY <2>3, <2>6, <2>7, <2>8, DisplayStays
<1>6. ASSUME Dialogue!Donate \/ \E k : Dialogue!Send(k) PROVE FormsInv' /\ DisplayInv'
  <2>1. UNCHANGED <<forms, task, preview, unseen>>
    BY <1>6 DEF Dialogue!Donate, Dialogue!Send
  <2>2. CASE Dialogue!Donate
    <3>1. written' = written /\ awaiting' \subseteq awaiting
      BY <2>2 DEF Dialogue!Donate
    <3>2. QED BY <2>1, <3>1, DisplayKeeps DEF FormsInv
  <2>3. ASSUME NEW k, Dialogue!Send(k) PROVE FormsInv' /\ DisplayInv'
    <3>1. k \in OneShots /\ written' = Dialogue!Without(written, {k}) /\ awaiting' \subseteq awaiting
      BY <2>3 DEF Dialogue!Send, OneShots
    <3>2. awaiting' \cap Dialogue!Forms \subseteq awaiting \ {k}
      BY <3>1 DEF OneShots, Dialogue!Forms
    <3>3. QED BY <2>1, <3>1, <3>2, DroppedDisplay
  <2>4. QED BY <1>6, <2>2, <2>3
<1>7. CASE Dialogue!Restart
  <2>1. /\ DOMAIN written' = {} /\ awaiting' = {} /\ forms' = <<>> /\ \A t \in Tasks : task'[t].pc = "free"
    BY <1>7, TaskIs DEF Dialogue!Restart, Dialogue!None, Dialogue!Free
  <2>2. forms' \in Seq({}) /\ DOMAIN forms' = {}
    BY <2>1
  <2>3. QED BY <2>1, <2>2 DEF FormsInv, DisplayInv
<1>8. ASSUME NEW t \in Tasks, Dialogue!Report(t) \/ Dialogue!UserFound(t) PROVE FormsInv' /\ DisplayInv'
  <2>1. PICK k, d : Dialogue!Stores(t, k, d) /\ k \in {"report", "users"}
    BY <1>8 DEF Dialogue!Report, Dialogue!UserFound
  <2>2. task[t].pc # "showing" /\ k \notin Dialogue!Forms
    BY <1>8, <2>1 DEF Dialogue!Report, Dialogue!UserFound, Dialogue!At, Dialogue!Forms
  <2>3. QED BY <2>1, <2>2, StoredDisplayed
<1>9. ASSUME NEW t \in Tasks, Dialogue!GroupFound(t) PROVE FormsInv' /\ DisplayInv'
  <2>1. PICK k, i, f : /\ k = task[t].kind /\ i = task[t].form
                       /\ f = Dialogue!Answered([forms[i] EXCEPT !.step = 0], task[t].draft[1])
    OBVIOUS
  <2>2. k \in Dialogue!Forms /\ task[t].pc = "looking" /\ Dialogue!StoresForm(t, k, i, f)
    BY <1>9, <2>1 DEF Dialogue!GroupFound, Dialogue!At
  <2>3. i \in DOMAIN forms /\ forms[i].kind = k /\ IsForm(forms[i])
    BY <2>1, <2>2 DEF FormsInv
  <2>4. [forms[i] EXCEPT !.step = 0].kind = k
    BY <2>3 DEF IsForm
  <2>5. IsForm(f) /\ f.kind = k
    BY <2>1, <2>4, AnsweredIs
  <2>6. QED BY <2>2, <2>3, <2>5, FormDisplayed
<1>10. ASSUME NEW t \in Tasks, NEW to, Dialogue!Retarget(t, to) PROVE FormsInv' /\ DisplayInv'
  <2>1. PICK d : d = <<written["campaign"][1], to>>
    OBVIOUS
  <2>2. PICK r : r = Task("showing", "campaign", d, 0)
    OBVIOUS
  <2>3. /\ written' = Dialogue!With(written, "campaign", d) /\ task' = [task EXCEPT ![t] = r] /\ task[t].pc = "free"
        /\ UNCHANGED <<awaiting, forms, preview, unseen>>
    BY <1>10, <2>1, <2>2 DEF Dialogue!Retarget, Dialogue!Goes, Dialogue!At, Task
  <2>4. r.pc = "showing" /\ r.kind = "campaign" /\ r.draft = d /\ "campaign" \notin Dialogue!Forms
    BY <2>2, TaskIs DEF Dialogue!Forms
  <2>5. QED BY <2>3, <2>4, DraftDisplayed
<1>11. ASSUME NEW t \in Tasks, NEW r, task' = [task EXCEPT ![t] = r], task[t].pc # "showing", r.pc # "looking",
              UNCHANGED <<forms, preview, unseen>>,
              \/ written' = written /\ awaiting' \subseteq awaiting
              \/ \E k : written' = Dialogue!Without(written, {k}) /\ awaiting' = awaiting \ {k}
       PROVE  FormsInv' /\ DisplayInv'
  <2>1. \A u \in Tasks : task'[u] = task[u] \/ (task[u].pc # "showing" /\ task'[u].pc # "looking")
    BY <1>11 DEF TextsInv
  <2>2. CASE written' = written /\ awaiting' \subseteq awaiting
    BY <1>11, <2>1, <2>2, DisplayKeeps DEF FormsInv
  <2>3. ASSUME NEW k, written' = Dialogue!Without(written, {k}), awaiting' = awaiting \ {k} PROVE FormsInv' /\ DisplayInv'
    BY <1>11, <2>1, <2>3, DroppedDisplay
  <2>4. QED BY <1>11, <2>2, <2>3
<1>12. ASSUME NEW t \in Tasks,
              \/ Dialogue!RoomFound(t) \/ Dialogue!NotFound(t) \/ Dialogue!NotWritten(t) \/ Dialogue!Close(t)
       PROVE  FormsInv' /\ DisplayInv'
  <2>1. PICK r : r = Dialogue!Free /\ r.pc = "free"
    BY TaskIs
  <2>2. task' = [task EXCEPT ![t] = r] /\ task[t].pc # "showing" /\ UNCHANGED <<forms, preview, unseen>>
    BY <1>12, <2>1 DEF Dialogue!RoomFound, Dialogue!NotFound, Dialogue!NotWritten, Dialogue!Close, Dialogue!Ends,
                       Dialogue!At
  <2>3. \/ written' = written /\ awaiting' \subseteq awaiting
        \/ \E k : written' = Dialogue!Without(written, {k}) /\ awaiting' = awaiting \ {k}
    BY <1>12 DEF Dialogue!RoomFound, Dialogue!NotFound, Dialogue!NotWritten, Dialogue!Close
  <2>4. QED BY <1>11, <2>1, <2>2, <2>3
<1>13. ASSUME NEW t \in Tasks, Dialogue!Confirm(t) \/ Dialogue!Delete(t) \/ Dialogue!ConfirmForced(t)
       PROVE  FormsInv' /\ DisplayInv'
  <2>1. PICK k, pc : Dialogue!Writes(t, k, pc) /\ pc # "looking"
    BY <1>13 DEF Dialogue!Confirm, Dialogue!Delete, Dialogue!ConfirmForced
  <2>2. PICK r : r = Task(pc, k, Dialogue!Draft(k), 0)
    OBVIOUS
  <2>3. /\ task' = [task EXCEPT ![t] = r] /\ task[t].pc = "free"
        /\ UNCHANGED <<awaiting, written, forms, preview, unseen>>
    BY <2>1, <2>2 DEF Dialogue!Writes, Dialogue!Goes, Dialogue!At, Task
  <2>4. r.pc # "looking"
    BY <2>1, <2>2, TaskIs
  <2>5. QED BY <1>11, <2>3, <2>4
<1>14. ASSUME NEW t \in Tasks, Dialogue!Write(t) PROVE FormsInv' /\ DisplayInv'
  <2>1. /\ task' = [task EXCEPT ![t].pc = "closing"] /\ task[t].pc = "writing"
        /\ UNCHANGED <<awaiting, written, forms, preview, unseen>>
    BY <1>14 DEF Dialogue!Write, Dialogue!At
  <2>2. task'[t] = [task[t] EXCEPT !.pc = "closing"] /\ \A u \in Tasks \ {t} : task'[u] = task[u]
    BY <2>1 DEF TextsInv
  <2>3. task'[t].pc # "looking"
    BY <2>1, <2>2
  <2>4. QED BY <2>1, <2>2, <2>3, DisplayKeeps DEF FormsInv
<1>15. CASE UNCHANGED dialogueVars
  BY <1>15, DisplayKeeps DEF dialogueVars, FormsInv
<1>16. CASE Dialogue!Back
  BY <1>1, <1>16 DEF Dialogue!Back
<1>17. QED
  BY <1>2, <1>3, <1>4, <1>5, <1>6, <1>7, <1>8, <1>9, <1>10, <1>12, <1>13, <1>14, <1>15, <1>16, TakenShown, DisplayEnds
     DEF Dialogue!Next

LEMMA DisplayStart == Dialogue!Init => FormsInv /\ DisplayInv
<1>. SUFFICES ASSUME Dialogue!Init PROVE FormsInv /\ DisplayInv
  OBVIOUS
<1>1. /\ DOMAIN written = {} /\ awaiting = {} /\ forms = <<>> /\ \A t \in Tasks : task[t].pc = "free"
  BY DEF Dialogue!Init, Dialogue!None, Dialogue!Free
<1>2. forms \in Seq({}) /\ DOMAIN forms = {}
  BY <1>1
<1>3. QED BY <1>1, <1>2 DEF FormsInv, DisplayInv

(* What is let out after a confirmation is what was shown. *)
ShownText ==
  out'.kind \in Dialogue!Confirmed =>
    Dialogue!AsShown(out'.kind, out'.draft) \/ Dialogue!Unfinished(out'.kind)

LEMMA DisplayGives == DisplayInv /\ [Dialogue!Next]_dialogueVars => [ShownText]_Dialogue!vars
<1>. SUFFICES ASSUME DisplayInv, [Dialogue!Next]_dialogueVars PROVE [ShownText]_Dialogue!vars
  OBVIOUS
<1>1. ASSUME NEW k \in DOMAIN written, out'.kind = k, out'.draft = Dialogue!Draft(k) PROVE ShownText
  <2>1. CASE k \notin Dialogue!Confirmed
    BY <1>1, <2>1 DEF ShownText
  <2>2. CASE Settled(k)
    <3>1. ASSUME NEW t \in Tasks, Displays(t, k) PROVE Dialogue!Showing(k) # {}
      BY <3>1 DEF Displays, Dialogue!Showing, Dialogue!At
    <3>2. Dialogue!AsShown(k, Dialogue!Draft(k)) \/ Dialogue!Unfinished(k)
      BY <2>2, <3>1 DEF Settled, Dialogue!AsShown
    <3>3. QED BY <1>1, <3>2 DEF ShownText
  <2>3. QED BY <2>1, <2>2 DEF DisplayInv
<1>2. ASSUME out'.kind \notin Dialogue!Confirmed PROVE ShownText
  BY <1>2 DEF ShownText
<1>3. ASSUME Dialogue!Silent PROVE ShownText
  <2>1. out'.kind = "none"
    BY <1>3 DEF Dialogue!Silent, Dialogue!NoOut
  <2>2. QED BY <1>2, <2>1 DEF Dialogue!Confirmed, Dialogue!Files, Dialogue!Forms
<1>4. ASSUME NEW k, NEW d, Dialogue!Out(k, d) PROVE out'.kind = k /\ out'.draft = d
  BY <1>4 DEF Dialogue!Out
<1>5. ASSUME NEW k, Dialogue!Send(k) PROVE ShownText
  <2>1. CASE Dialogue!Leaves(k, written[k])
    <3>1. k \in DOMAIN written /\ Dialogue!Draft(k) = written[k]
      BY <1>5 DEF Dialogue!Send, Dialogue!Pressed, Dialogue!Draft, Dialogue!Forms
    <3>2. out'.kind = k /\ out'.draft = written[k]
      BY <1>4, <2>1 DEF Dialogue!Leaves
    <3>3. QED BY <1>1, <3>1, <3>2
  <2>2. QED BY <1>3, <1>5, <2>1 DEF Dialogue!Send
<1>6. ASSUME NEW t \in Tasks, Dialogue!Confirm(t) \/ Dialogue!Delete(t) \/ Dialogue!ConfirmForced(t) PROVE ShownText
  <2>1. PICK k, pc : Dialogue!Writes(t, k, pc)
    BY <1>6 DEF Dialogue!Confirm, Dialogue!Delete, Dialogue!ConfirmForced
  <2>2. k \in DOMAIN written /\ out'.kind = k /\ out'.draft = Dialogue!Draft(k)
    BY <1>4, <2>1 DEF Dialogue!Writes, Dialogue!Pressed
  <2>3. QED BY <1>1, <2>2
<1>7. ASSUME NEW t \in Tasks, Dialogue!RoomFound(t) PROVE ShownText
  <2>1. out'.kind = "audience"
    BY <1>4, <1>7 DEF Dialogue!RoomFound, Dialogue!Leaves
  <2>2. QED BY <1>2, <2>1 DEF Dialogue!Confirmed, Dialogue!Files, Dialogue!Forms
<1>8. ASSUME Dialogue!Donate PROVE ShownText
  <2>1. out'.kind = "donate"
    BY <1>4, <1>8 DEF Dialogue!Donate, Dialogue!Leaves
  <2>2. QED BY <1>2, <2>1 DEF Dialogue!Confirmed, Dialogue!Files, Dialogue!Forms
<1>9. ASSUME NEW t \in Tasks, NEW k, Dialogue!LookUp(t, k) \/ Dialogue!LookGroupUp(t, k) \/ Dialogue!Answer(t, k) \/ Dialogue!TakeText(t, k)
      PROVE  ShownText
  BY <1>3, <1>9 DEF Dialogue!LookUp, Dialogue!LookGroupUp, Dialogue!LooksUp, Dialogue!Answer, Dialogue!TakeText,
                    Dialogue!Stores, Dialogue!StoresForm
<1>10. ASSUME NEW t \in Tasks, NEW to, Dialogue!Retarget(t, to) PROVE ShownText
  BY <1>3, <1>10 DEF Dialogue!Retarget
<1>11. ASSUME NEW t \in Tasks, \/ Dialogue!Report(t) \/ Dialogue!UserFound(t) \/ Dialogue!GroupFound(t) \/ Dialogue!NotFound(t)
                               \/ Dialogue!Show(t) \/ Dialogue!Lost(t)
                               \/ Dialogue!Write(t) \/ Dialogue!NotWritten(t) \/ Dialogue!Close(t)
       PROVE  ShownText
  BY <1>3, <1>11
     DEF Dialogue!Report, Dialogue!UserFound, Dialogue!GroupFound, Dialogue!NotFound, Dialogue!Show, Dialogue!Lost,
         Dialogue!Shown, Dialogue!Write, Dialogue!NotWritten, Dialogue!Close, Dialogue!Stores, Dialogue!StoresForm
<1>12. ASSUME NEW k, \/ Dialogue!Ask(k) \/ Dialogue!AskForm(k) \/ Dialogue!Cancel(k) \/ Dialogue!Back \/ Dialogue!Reset
                     \/ Dialogue!Skip \/ Dialogue!Restart
       PROVE  ShownText
  BY <1>3, <1>12 DEF Dialogue!Ask, Dialogue!AskForm, Dialogue!Cancel, Dialogue!Back, Dialogue!Reset, Dialogue!Skip,
                     Dialogue!Restart, Dialogue!Button
<1>13. UNCHANGED dialogueVars => UNCHANGED Dialogue!vars
  BY DEF dialogueVars, Dialogue!vars
<1>14. QED
  BY <1>5, <1>6, <1>7, <1>8, <1>9, <1>10, <1>11, <1>12, <1>13 DEF Dialogue!Next

-----------------------------------------------------------------------------
(* The dialogue of an administrator in VK *)

Forms == {"lesson", "delete", "delete_one"}

LEMMA FormsAre == DOMAIN ShortForms = Forms /\ ShortForms["lesson"] = 2 /\ ShortForms["delete"] = 1 /\ ShortForms["delete_one"] = 2
  BY DEF ShortForms, Forms

LEMMA DraftOfIs ==
  /\ DOMAIN Vk!DraftOf = {"report_confirm", "broadcast_preview", "ocr_preview", "summary_preview", "json_preview",
                          "import_preview", "user_results"} \cup Forms
  /\ Vk!DraftOf["report_confirm"] = "report" /\ Vk!DraftOf["broadcast_preview"] = "broadcast"
  /\ Vk!DraftOf["ocr_preview"] = "ocr" /\ Vk!DraftOf["summary_preview"] = "summary"
  /\ Vk!DraftOf["json_preview"] = "summary" /\ Vk!DraftOf["import_preview"] = "import"
  /\ Vk!DraftOf["user_results"] = "query" /\ \A k \in Forms : Vk!DraftOf[k] = k
  BY DEF Vk!DraftOf, Forms

(* The preview of a campaign is that of its target, except when it was shown again. *)
Asked == IF defaulted = TRUE THEN [target EXCEPT !.platform = "all"] ELSE target

(* The preview that stands is that of the draft the screen asks about. *)
DraftStands ==
  /\ mode \notin Forms \cup {"user_results"} => shown # Vk!NoPreview
  /\ mode # "broadcast_preview" /\ shown # Vk!NoPreview =>
        shown = Vk!Preview(Vk!DraftOf[mode], vkDrafts[Vk!DraftOf[mode]], Vk!Everyone)
  /\ mode = "broadcast_preview" => shown = Vk!Preview("broadcast", vkDrafts["broadcast"], Asked)
  /\ mode \in Forms /\ Len(vkDrafts[mode]) = ShortForms[mode] => shown # Vk!NoPreview

(* On every screen that asks about a draft there is one, and unless its preview was lost, it
   is the one that is shown. *)
ScreenInv ==
  /\ mode \in DOMAIN Vk!DraftOf => Vk!DraftOf[mode] \in DOMAIN vkDrafts /\ (lost = TRUE \/ DraftStands)
  /\ target = [platform |-> target.platform, audience |-> target.audience]
  /\ mode # "broadcast_preview" => target = Vk!Everyone /\ defaulted = FALSE

LEMMA PreviewIs ==
  ASSUME NEW k, NEW d, NEW to
  PROVE  /\ Vk!Preview(k, d, to).kind = k /\ Vk!Preview(k, d, to).draft = d /\ Vk!Preview(k, d, to).to = to
         /\ k # "none" => Vk!Preview(k, d, to) # Vk!NoPreview
  BY DEF Vk!Preview, Vk!NoPreview

LEMMA EveryoneIs == Vk!Everyone = [platform |-> Vk!Everyone.platform, audience |-> Vk!Everyone.audience]
  BY DEF Vk!Everyone

(* Another screen, which asks about no draft. *)
LEMMA ScreenOpens ==
  ASSUME NEW m, NEW popped, Vk!Screen(m, popped), m \notin DOMAIN Vk!DraftOf
  PROVE  ScreenInv'
<1>1. mode' = m /\ target' = Vk!Everyone /\ defaulted' = FALSE /\ m # "broadcast_preview"
  BY DraftOfIs DEF Vk!Screen
<1>2. QED BY <1>1, EveryoneIs DEF ScreenInv

LEMMA ScreenStays ==
  ASSUME ScreenInv, Vk!SameScreen
  PROVE  ScreenInv'
  BY DEF ScreenInv, DraftStands, Vk!SameScreen, Asked

LEMMA ChoiceOpens ==
  ASSUME ScreenInv, NEW purpose, Vk!AskChoice(purpose), mode # "broadcast_preview"
  PROVE  ScreenInv'
<1>1. mode' = "teacher_choice" /\ target' = Vk!Everyone /\ defaulted' = FALSE
  BY DEF Vk!AskChoice, ScreenInv
<1>2. QED BY <1>1, EveryoneIs, DraftOfIs DEF ScreenInv, Forms

(* A scenario begins with an empty draft. *)
LEMMA DraftBegins ==
  ASSUME ScreenInv, NEW m, NEW k, Vk!Begins(m, k), mode # "broadcast_preview",
         (m = "user_results" /\ k = "query") \/ (m \in Forms /\ k = m)
  PROVE  ScreenInv'
<1>1. /\ mode' = m /\ shown' = Vk!NoPreview /\ target' = Vk!Everyone /\ defaulted' = FALSE
      /\ k \in DOMAIN vkDrafts' /\ vkDrafts'[k] = <<>>
  BY DEF Vk!Begins, Vk!Put, ScreenInv
<1>2. m # "broadcast_preview" /\ Vk!DraftOf[m] = k /\ (m \in Forms => Len(<<>>) # ShortForms[m])
  BY DraftOfIs, FormsAre DEF Forms
<1>3. mode' \in Forms \cup {"user_results"} /\ mode' # "broadcast_preview" /\ Vk!DraftOf[mode'] \in DOMAIN vkDrafts'
  BY <1>1, <1>2
<1>4. mode' \in Forms => Len(vkDrafts'[mode']) # ShortForms[mode']
  BY <1>1, <1>2 DEF Forms
<1>5. target' = [platform |-> target'.platform, audience |-> target'.audience]
  BY <1>1, EveryoneIs
<1>6. QED BY <1>1, <1>3, <1>4, <1>5 DEF ScreenInv, DraftStands

(* What has been typed or recognised is the draft and is shown. *)
LEMMA DraftShown ==
  ASSUME NEW m, NEW k, NEW d, Vk!Previewed(m, k, d), m \in DOMAIN Vk!DraftOf, k = Vk!DraftOf[m], k # "none"
  PROVE  ScreenInv'
<1>1. /\ mode' = m /\ target' = Vk!Everyone /\ defaulted' = FALSE
      /\ k \in DOMAIN vkDrafts' /\ vkDrafts'[k] = d
      /\ lost' = TRUE \/ shown' = Vk!Preview(k, d, Vk!Everyone)
  BY DEF Vk!Previewed, Vk!Put, Vk!Shows
<1>2. Asked' = Vk!Everyone
  BY <1>1 DEF Asked
<1>3. ASSUME lost' # TRUE PROVE DraftStands'
  <2>1. shown' = Vk!Preview(k, d, Vk!Everyone)
    BY <1>1, <1>3
  <2>2. shown' # Vk!NoPreview
    BY <2>1, PreviewIs
  <2>3. m = "broadcast_preview" => shown' = Vk!Preview("broadcast", vkDrafts'["broadcast"], Asked')
    BY <1>1, <1>2, <2>1, DraftOfIs
  <2>4. shown' = Vk!Preview(Vk!DraftOf[mode'], vkDrafts'[Vk!DraftOf[mode']], Vk!Everyone)
    BY <1>1, <2>1
  <2>5. QED BY <1>1, <2>2, <2>3, <2>4 DEF DraftStands
<1>4. target' = [platform |-> target'.platform, audience |-> target'.audience]
  BY <1>1, EveryoneIs
<1>5. Vk!DraftOf[mode'] \in DOMAIN vkDrafts'
  BY <1>1
<1>6. QED BY <1>1, <1>3, <1>4, <1>5 DEF ScreenInv

LEMMA CampaignShown ==
  ASSUME ScreenInv, Vk!CampaignAgain \/ \E to \in Vk!Targets : Vk!CampaignTarget(to)
  PROVE  ScreenInv'
<1>1. mode = "broadcast_preview" /\ mode' = mode /\ "broadcast" \in DOMAIN vkDrafts
  BY DraftOfIs DEF Vk!CampaignAgain, Vk!CampaignTarget, ScreenInv
<1>2. "broadcast" \in DOMAIN vkDrafts'
  BY <1>1 DEF Vk!CampaignAgain, Vk!CampaignTarget, Vk!Put
<1>3. /\ lost' = TRUE \/ shown' = Vk!Preview("broadcast", vkDrafts'["broadcast"], Asked')
      /\ target' = [platform |-> target'.platform, audience |-> target'.audience]
  <2>1. CASE Vk!CampaignAgain
    BY <2>1 DEF Vk!CampaignAgain, Vk!Shows, ScreenInv, Asked
  <2>2. ASSUME NEW to \in Vk!Targets, Vk!CampaignTarget(to)
        PROVE  /\ vkDrafts' = vkDrafts /\ target' = to /\ defaulted' = FALSE
               /\ lost' = TRUE \/ shown' = Vk!Preview("broadcast", vkDrafts["broadcast"], to)
               /\ to = [platform |-> to.platform, audience |-> to.audience]
    BY <2>2 DEF Vk!CampaignTarget, Vk!Shows, Vk!Targets
  <2>3. QED BY <2>1, <2>2 DEF Asked
<1>4. lost' = TRUE \/ DraftStands'
  BY <1>1, <1>3, PreviewIs DEF DraftStands, Forms
<1>5. QED BY <1>1, <1>2, <1>3, <1>4, DraftOfIs DEF ScreenInv

LEMMA AnswerShown ==
  ASSUME ScreenInv, NEW k \in Forms, Vk!Answer(k)
  PROVE  ScreenInv'
<1>1. PICK d : d = Append(vkDrafts[k], Vk!Message)
  OBVIOUS
<1>2. /\ mode = k /\ mode' = mode /\ UNCHANGED <<target, defaulted>>
      /\ vkDrafts' = Vk!Put(vkDrafts, k, d)
      /\ lost' = TRUE \/ shown' = (IF Len(d) = ShortForms[k] THEN Vk!Preview(k, d, Vk!Everyone) ELSE Vk!NoPreview)
  BY <1>1 DEF Vk!Answer, Vk!Shows
<1>3. k \in DOMAIN vkDrafts' /\ vkDrafts'[k] = d
  BY <1>2 DEF Vk!Put
<1>4. k # "none" /\ k # "broadcast_preview" /\ Vk!DraftOf[k] = k
  BY DraftOfIs DEF Forms
<1>5. Vk!Preview(k, d, Vk!Everyone) # Vk!NoPreview
  BY <1>4, PreviewIs
<1>6. lost' = TRUE \/
        /\ shown' # Vk!NoPreview => shown' = Vk!Preview(k, vkDrafts'[k], Vk!Everyone)
        /\ Len(vkDrafts'[k]) = ShortForms[k] => shown' # Vk!NoPreview
  BY <1>2, <1>3, <1>5
<1>7. target' = Vk!Everyone /\ defaulted' = FALSE
  BY <1>2, <1>4 DEF ScreenInv
<1>8. lost' = TRUE \/ DraftStands'
  BY <1>2, <1>4, <1>6 DEF DraftStands
<1>9. QED BY <1>2, <1>3, <1>4, <1>7, <1>8, EveryoneIs DEF ScreenInv

(* Screens on which the bot asks about no draft. *)
Plain == {"main_menu", "group_select", "sticker", "search_result", "audience_select", "schedule_search",
          "report_input", "admin_menu", "user_search", "broadcast_input", "ocr_input", "summary_input",
          "json_input", "import_input"}

LEMMA PlainOpens ==
  ASSUME NEW m \in Plain, NEW popped, Vk!Screen(m, popped)
  PROVE  ScreenInv'
<1>1. m \notin DOMAIN Vk!DraftOf
  BY DraftOfIs DEF Plain, Forms
<1>2. QED BY <1>1, ScreenOpens

(* The commands of a subscriber and of an administrator are not heard above a campaign. *)
LEMMA NotHeard == Vk!Heeded \/ (Vk!Searching \/ ~Vk!PassesGate) => mode # "broadcast_preview"
<1>1. mode = "broadcast_preview" => mode \in Vk!Captive /\ mode \in Vk!AdminModes /\ ~Vk!Searching
  BY DEF Vk!Captive, Vk!AdminModes, Vk!Searching
<1>2. mode = "broadcast_preview" => Vk!Turn = 1
  BY <1>1 DEF Vk!Turn
<1>3. QED BY <1>1, <1>2 DEF Vk!Heeded, Vk!Heard, Vk!PassesGate

LEMMA ScreenStep == ScreenInv /\ [Vk!Next]_vkVars => ScreenInv'
<1>. SUFFICES ASSUME ScreenInv, [Vk!Next]_vkVars PROVE ScreenInv'
  OBVIOUS
<1>1. CASE \/ Vk!Start \/ Vk!ToMenu \/ Vk!LeaveChoice \/ Vk!ShowScreen \/ Vk!AskSticker \/ Vk!Choose
           \/ Vk!Unsubscribe \/ Vk!AskRoom \/ Vk!RoomGiven \/ Vk!AskSearch
  <2>1. \E m \in Plain : \E popped : Vk!Screen(m, popped)
    BY <1>1 DEF Vk!Start, Vk!ToMenu, Vk!LeaveChoice, Vk!ShowScreen, Vk!AskSticker, Vk!Choose, Vk!Unsubscribe,
                Vk!AskRoom, Vk!RoomGiven, Vk!AskSearch, Vk!Opens, Vk!Subscribed, Plain
  <2>2. QED BY <2>1, PlainOpens
<1>2. CASE \/ Vk!AskReport \/ Vk!CancelReport \/ Vk!SendReport \/ Vk!AdminMenu \/ Vk!AdminScreen \/ Vk!AskUser
           \/ Vk!LeaveResults \/ Vk!AskCampaign \/ Vk!CancelCampaign \/ Vk!SendCampaign
  <2>1. \E m \in Plain : \E popped : Vk!Screen(m, popped)
    BY <1>2 DEF Vk!AskReport, Vk!CancelReport, Vk!SendReport, Vk!AdminMenu, Vk!AdminScreen, Vk!AskUser,
                Vk!LeaveResults, Vk!AskCampaign, Vk!CancelCampaign, Vk!SendCampaign, Vk!Opens, Plain
  <2>2. QED BY <2>1, PlainOpens
<1>3. CASE \/ Vk!AskPhoto \/ Vk!AskSummary \/ Vk!AskJson \/ Vk!CancelPhotos \/ Vk!Applied \/ Vk!AskImport
           \/ Vk!CancelImport \/ Vk!FileSaved \/ Vk!Restart \/ \E k \in DOMAIN ShortForms : Vk!CancelLesson(k)
  <2>1. \E m \in Plain : \E popped : Vk!Screen(m, popped)
    BY <1>3 DEF Vk!AskPhoto, Vk!AskSummary, Vk!AskJson, Vk!CancelPhotos, Vk!Applied, Vk!AskImport, Vk!CancelImport,
                Vk!FileSaved, Vk!Restart, Vk!CancelLesson, Vk!Opens, Plain
  <2>2. QED BY <2>1, PlainOpens
<1>4. CASE Vk!Subscribe \/ Vk!Search
  <2>1. \/ \E m \in Plain : \E popped : Vk!Screen(m, popped)
        \/ (Vk!Searching \/ ~Vk!PassesGate) /\ \E purpose : Vk!AskChoice(purpose)
    BY <1>4 DEF Vk!Subscribe, Vk!Search, Vk!Opens, Vk!Subscribed, Plain
  <2>2. QED BY <2>1, PlainOpens, ChoiceOpens, NotHeard
<1>5. CASE Vk!FindUser \/ \E k \in DOMAIN ShortForms : Vk!AskLesson(k)
  <2>1. CASE \E m \in Plain : \E popped : Vk!Screen(m, popped)
    BY <2>1, PlainOpens
  <2>2. CASE Vk!Heeded /\ Vk!Begins("user_results", "query")
    BY <2>2, NotHeard, DraftBegins
  <2>3. CASE Vk!Heeded /\ \E k \in Forms : Vk!Begins(k, k)
    BY <2>3, NotHeard, DraftBegins
  <2>4. QED BY <1>5, <2>1, <2>2, <2>3, FormsAre DEF Vk!FindUser, Vk!AskLesson, Vk!Opens, Plain
<1>6. CASE \/ Vk!ReportTyped \/ Vk!CampaignTyped \/ Vk!Json \/ Vk!Recognised \/ Vk!Import
  <2>1. \/ Vk!SameScreen
        \/ \E d : \/ Vk!Previewed("report_confirm", "report", d) \/ Vk!Previewed("broadcast_preview", "broadcast", d)
                  \/ Vk!Previewed("json_preview", "summary", d) \/ Vk!Previewed("ocr_preview", "ocr", d)
                  \/ Vk!Previewed("summary_preview", "summary", d) \/ Vk!Previewed("import_preview", "import", d)
    BY <1>6 DEF Vk!ReportTyped, Vk!CampaignTyped, Vk!Json, Vk!Recognised, Vk!Import
  <2>2. ASSUME NEW m, NEW k, NEW d, Vk!Previewed(m, k, d),
               <<m, k>> \in {<<"report_confirm", "report">>, <<"broadcast_preview", "broadcast">>,
                             <<"json_preview", "summary">>, <<"ocr_preview", "ocr">>,
                             <<"summary_preview", "summary">>, <<"import_preview", "import">>}
        PROVE  ScreenInv'
    <3>1. m \in DOMAIN Vk!DraftOf /\ k = Vk!DraftOf[m] /\ k # "none"
      BY <2>2, DraftOfIs
    <3>2. QED BY <2>2, <3>1, DraftShown
  <2>3. QED BY <2>1, <2>2, ScreenStays
<1>7. CASE Vk!Photo
  <2>1. Vk!SameScreen \/ \E m \in Plain : \E popped : Vk!Screen(m, popped)
    BY <1>7 DEF Vk!Photo, Plain
  <2>2. QED BY <2>1, PlainOpens, ScreenStays
<1>8. CASE \/ \E name \in Jobs : Vk!StartJob(name) \/ Vk!JobEnds(name)
           \/ Vk!Page \/ Vk!WaitFails \/ Vk!ConfirmPhotos \/ Vk!ConfirmFile \/ UNCHANGED vkVars
  <2>1. Vk!SameScreen
    BY <1>8 DEF Vk!StartJob, Vk!JobEnds, Vk!Page, Vk!WaitFails, Vk!ConfirmPhotos, Vk!ConfirmFile, vkVars,
                Vk!SameScreen
  <2>2. QED BY <2>1, ScreenStays
<1>9. CASE Vk!CampaignAgain \/ \E to \in Vk!Targets : Vk!CampaignTarget(to)
  BY <1>9, CampaignShown
<1>10. CASE \E k \in DOMAIN ShortForms : Vk!Answer(k)
  BY <1>10, FormsAre, AnswerShown
<1>11. QED BY <1>1, <1>2, <1>3, <1>4, <1>5, <1>6, <1>7, <1>8, <1>9, <1>10 DEF Vk!Next

LEMMA ScreenStart == Vk!Init => ScreenInv
<1>. SUFFICES ASSUME Vk!Init PROVE ScreenInv
  OBVIOUS
<1>1. mode = "main_menu" /\ target = Vk!Everyone /\ defaulted = FALSE
  BY DEF Vk!Init
<1>2. QED BY <1>1, EveryoneIs, DraftOfIs DEF ScreenInv, Forms

LEMMA ScreenGives == ScreenInv => Vk!QuestionAboutDraft
<1>. SUFFICES ASSUME ScreenInv, mode \in DOMAIN Vk!DraftOf
              PROVE  /\ Vk!DraftOf[mode] \in DOMAIN vkDrafts
                     /\ ~lost =>
                          /\ shown # Vk!NoPreview => shown.kind = Vk!DraftOf[mode] /\ shown.draft = vkDrafts[shown.kind]
                          /\ mode \notin Forms \cup {"user_results"} => shown # Vk!NoPreview
  BY FormsAre DEF Vk!QuestionAboutDraft
<1>1. PICK k, d : k = Vk!DraftOf[mode] /\ d = vkDrafts[k]
  OBVIOUS
<1>2. k \in DOMAIN vkDrafts /\ (~lost => DraftStands)
  BY <1>1 DEF ScreenInv
<1>3. DraftStands /\ shown # Vk!NoPreview => \E to : shown = Vk!Preview(k, d, to)
  BY <1>1, DraftOfIs DEF DraftStands
<1>4. DraftStands /\ shown # Vk!NoPreview => shown.kind = k /\ shown.draft = d
  BY <1>3, PreviewIs
<1>5. QED BY <1>1, <1>2, <1>4 DEF DraftStands

(* What the handler waits for is about the screen it stands on. *)
BusyInv ==
  \/ busy = Vk!Nothing
  \/ busy.op = "photo"
  \/ busy.op = "pages" /\ mode \in {"summary_input", "summary_preview"} /\ busy.draft = vkImages
  \/ busy.op = "apply"
  \/ /\ busy.op \in Forms \cup {"import"}
     /\ mode = (IF busy.op = "import" THEN "import_preview" ELSE busy.op)
     /\ lost = TRUE \/ shown = Vk!Preview(busy.op, busy.draft, Vk!Everyone)

(* While the handler waits nothing but its end, a failure or a restart comes in. *)
LEMMA OneAtATime ==
  ASSUME [Vk!Next]_vkVars, busy # Vk!Nothing
  PROVE  \/ busy' = Vk!Nothing
         \/ UNCHANGED <<busy, mode, shown, lost, vkImages>>
<1>0. busy' # Vk!Nothing => ~(Vk!Recognised \/ Vk!WaitFails \/ Vk!Applied \/ Vk!FileSaved \/ Vk!Restart)
  BY DEF Vk!Recognised, Vk!WaitFails, Vk!Applied, Vk!FileSaved, Vk!Restart
<1>1. ~(\/ Vk!Start \/ Vk!ToMenu \/ Vk!LeaveChoice \/ Vk!ShowScreen \/ Vk!AskSticker \/ Vk!Choose \/ Vk!Subscribe
        \/ Vk!Unsubscribe \/ Vk!AskRoom \/ Vk!RoomGiven \/ Vk!AskSearch \/ Vk!Search \/ Vk!AskReport \/ Vk!ReportTyped
        \/ Vk!CancelReport \/ Vk!SendReport)
  BY DEF Vk!Start, Vk!ToMenu, Vk!LeaveChoice, Vk!ShowScreen, Vk!AskSticker, Vk!Choose, Vk!Subscribe, Vk!Unsubscribe,
         Vk!AskRoom, Vk!RoomGiven, Vk!AskSearch, Vk!Search, Vk!AskReport, Vk!ReportTyped, Vk!CancelReport,
         Vk!SendReport, Vk!Heard
<1>2. ~(\/ Vk!AdminMenu \/ Vk!AdminScreen \/ Vk!AskUser \/ Vk!FindUser \/ Vk!LeaveResults \/ Vk!AskCampaign
        \/ Vk!CancelCampaign \/ Vk!CampaignTyped \/ Vk!CampaignAgain \/ Vk!SendCampaign
        \/ \E to \in Vk!Targets : Vk!CampaignTarget(to))
  BY DEF Vk!AdminMenu, Vk!AdminScreen, Vk!AskUser, Vk!FindUser, Vk!LeaveResults, Vk!AskCampaign, Vk!CancelCampaign,
         Vk!CampaignTyped, Vk!CampaignAgain, Vk!SendCampaign, Vk!CampaignTarget, Vk!Heeded, Vk!Heard
<1>3. ~(\/ Vk!AskPhoto \/ Vk!Photo \/ Vk!AskSummary \/ Vk!Page \/ Vk!AskJson \/ Vk!Json \/ Vk!CancelPhotos
        \/ Vk!ConfirmPhotos \/ Vk!AskImport \/ Vk!Import \/ Vk!CancelImport \/ Vk!ConfirmFile
        \/ \E k : Vk!AskLesson(k) \/ Vk!Answer(k) \/ Vk!CancelLesson(k))
  BY DEF Vk!AskPhoto, Vk!Photo, Vk!AskSummary, Vk!Page, Vk!AskJson, Vk!Json, Vk!CancelPhotos, Vk!ConfirmPhotos,
         Vk!AskImport, Vk!Import, Vk!CancelImport, Vk!ConfirmFile, Vk!AskLesson, Vk!Answer, Vk!CancelLesson,
         Vk!Heeded, Vk!Heard
<1>4. (\E name \in Jobs : Vk!StartJob(name) \/ Vk!JobEnds(name)) => UNCHANGED <<busy, mode, shown, lost, vkImages>>
  BY DEF Vk!StartJob, Vk!JobEnds, Vk!SameScreen, Vk!SamePages
<1>5. QED BY <1>0, <1>1, <1>2, <1>3, <1>4 DEF Vk!Next, vkVars

(* The handlers that begin to wait. *)
LEMMA WhoWaits ==
  ASSUME [Vk!Next]_vkVars
  PROVE  busy' \in {busy, Vk!Nothing} \/ Vk!Photo \/ Vk!Page \/ Vk!ConfirmPhotos \/ Vk!ConfirmFile
<1>1. (\/ Vk!Start \/ Vk!ToMenu \/ Vk!LeaveChoice \/ Vk!ShowScreen \/ Vk!AskSticker \/ Vk!Choose \/ Vk!Subscribe
       \/ Vk!Unsubscribe \/ Vk!AskRoom \/ Vk!RoomGiven \/ Vk!AskSearch \/ Vk!Search \/ Vk!AskReport \/ Vk!ReportTyped
       \/ Vk!CancelReport \/ Vk!SendReport) => busy' = busy
  BY DEF Vk!Start, Vk!ToMenu, Vk!LeaveChoice, Vk!ShowScreen, Vk!AskSticker, Vk!Choose, Vk!Subscribe, Vk!Unsubscribe,
         Vk!AskRoom, Vk!RoomGiven, Vk!AskSearch, Vk!Search, Vk!AskReport, Vk!ReportTyped, Vk!CancelReport,
         Vk!SendReport, Vk!Opens, Vk!Quiet, Vk!Same, Vk!Subscribed, Vk!AskChoice
<1>2. (\/ Vk!AdminMenu \/ Vk!AdminScreen \/ Vk!AskUser \/ Vk!FindUser \/ Vk!LeaveResults \/ Vk!AskCampaign
       \/ Vk!CancelCampaign \/ Vk!CampaignTyped \/ Vk!CampaignAgain \/ Vk!SendCampaign
       \/ (\E to \in Vk!Targets : Vk!CampaignTarget(to))
       \/ (\E name \in Jobs : Vk!StartJob(name) \/ Vk!JobEnds(name))) => busy' = busy
  BY DEF Vk!AdminMenu, Vk!AdminScreen, Vk!AskUser, Vk!FindUser, Vk!LeaveResults, Vk!AskCampaign, Vk!CancelCampaign,
         Vk!CampaignTyped, Vk!CampaignAgain, Vk!SendCampaign, Vk!CampaignTarget, Vk!StartJob, Vk!JobEnds, Vk!Opens,
         Vk!Quiet, Vk!Same
<1>3. (\/ Vk!AskPhoto \/ Vk!AskSummary \/ Vk!AskJson \/ Vk!Json \/ Vk!CancelPhotos \/ Vk!AskImport \/ Vk!Import
       \/ Vk!CancelImport \/ \E k \in DOMAIN ShortForms : Vk!AskLesson(k) \/ Vk!Answer(k) \/ Vk!CancelLesson(k))
      => busy' = busy
  BY DEF Vk!AskPhoto, Vk!AskSummary, Vk!AskJson, Vk!Json, Vk!CancelPhotos, Vk!AskImport, Vk!Import, Vk!CancelImport,
         Vk!AskLesson, Vk!Answer, Vk!CancelLesson, Vk!Opens, Vk!Quiet, Vk!Same
<1>4. Vk!Recognised \/ Vk!WaitFails \/ Vk!Applied \/ Vk!FileSaved \/ Vk!Restart => busy' = Vk!Nothing
  BY DEF Vk!Recognised, Vk!WaitFails, Vk!Applied, Vk!FileSaved, Vk!Restart
<1>5. UNCHANGED vkVars => busy' = busy
  BY DEF vkVars
<1>6. QED BY <1>1, <1>2, <1>3, <1>4, <1>5 DEF Vk!Next

LEMMA BusyStep == ScreenInv /\ BusyInv /\ [Vk!Next]_vkVars => BusyInv'
<1>. SUFFICES ASSUME ScreenInv, BusyInv, [Vk!Next]_vkVars PROVE BusyInv'
  OBVIOUS
<1>1. CASE busy # Vk!Nothing
  BY <1>1, OneAtATime DEF BusyInv
<1>2. CASE busy = Vk!Nothing /\ busy' \in {busy, Vk!Nothing}
  BY <1>2 DEF BusyInv
<1>3. ASSUME NEW op, NEW d, Vk!Waits(op, d) PROVE busy'.op = op /\ busy'.draft = d
  BY <1>3 DEF Vk!Waits
<1>4. CASE Vk!Photo \/ Vk!ConfirmPhotos
  BY <1>3, <1>4 DEF Vk!Photo, Vk!ConfirmPhotos, Vk!Applies, BusyInv
<1>5. CASE Vk!Page
  <2>1. Vk!Waits("pages", vkImages') /\ mode' = mode /\ mode \in {"summary_input", "summary_preview"}
    BY <1>5 DEF Vk!Page, Vk!SameScreen
  <2>2. QED BY <1>3, <2>1 DEF BusyInv
<1>6. CASE Vk!ConfirmFile
  <2>1. UNCHANGED <<mode, shown, lost>>
    BY <1>6 DEF Vk!ConfirmFile, Vk!SameScreen
  <2>2. CASE mode \in Forms /\ Len(vkDrafts[mode]) = ShortForms[mode] /\ Vk!Waits(mode, vkDrafts[mode])
    <3>1. (lost = TRUE \/ shown = Vk!Preview(mode, vkDrafts[mode], Vk!Everyone)) /\ mode # "import"
      BY <2>2, DraftOfIs DEF ScreenInv, DraftStands, Forms
    <3>2. busy'.op = mode /\ busy'.draft = vkDrafts[mode]
      BY <1>3, <2>2
    <3>3. QED BY <2>1, <2>2, <3>1, <3>2 DEF BusyInv
  <2>3. CASE mode = "import_preview" /\ Vk!Waits("import", vkDrafts["import"])
    <3>1. lost = TRUE \/ shown = Vk!Preview("import", vkDrafts["import"], Vk!Everyone)
      BY <2>3, DraftOfIs DEF ScreenInv, DraftStands, Forms
    <3>2. busy'.op = "import" /\ busy'.draft = vkDrafts["import"]
      BY <1>3, <2>3
    <3>3. QED BY <2>1, <2>3, <3>1, <3>2 DEF BusyInv
  <2>4. QED BY <1>6, <2>2, <2>3, FormsAre DEF Vk!ConfirmFile, Vk!Answered
<1>7. QED BY <1>1, <1>2, <1>4, <1>5, <1>6, WhoWaits

LEMMA BusyStart == Vk!Init => BusyInv
  BY DEF Vk!Init, BusyInv

(* What leaves the dialogue is what was shown, except for the platform of a campaign shown
   again and for previews that were lost. *)
ShownQuestion ==
  sent' # Vk!NoPreview => \/ sent' = shown
                          \/ defaulted /\ sent' = [shown EXCEPT !.to.platform = target.platform]
                          \/ lost

LEMMA QuestionGives == ScreenInv /\ BusyInv /\ [Vk!Next]_vkVars => [ShownQuestion]_Vk!vars
<1>. SUFFICES ASSUME ScreenInv, BusyInv, [Vk!Next]_vkVars PROVE [ShownQuestion]_Vk!vars
  OBVIOUS
<1>1. ASSUME Vk!Mute PROVE ShownQuestion
  BY <1>1 DEF Vk!Mute, ShownQuestion
<1>2. (\/ Vk!Start \/ Vk!ToMenu \/ Vk!LeaveChoice \/ Vk!ShowScreen \/ Vk!AskSticker \/ Vk!Choose \/ Vk!Subscribe
       \/ Vk!Unsubscribe \/ Vk!AskRoom \/ Vk!RoomGiven \/ Vk!AskSearch \/ Vk!Search \/ Vk!AskReport \/ Vk!ReportTyped
       \/ Vk!CancelReport) => Vk!Mute
  BY DEF Vk!Start, Vk!ToMenu, Vk!LeaveChoice, Vk!ShowScreen, Vk!AskSticker, Vk!Choose, Vk!Subscribe, Vk!Unsubscribe,
         Vk!AskRoom, Vk!RoomGiven, Vk!AskSearch, Vk!Search, Vk!AskReport, Vk!ReportTyped, Vk!CancelReport,
         Vk!Opens, Vk!Quiet, Vk!Subscribed, Vk!AskChoice
<1>3. (\/ Vk!AdminMenu \/ Vk!AdminScreen \/ Vk!AskUser \/ Vk!FindUser \/ Vk!LeaveResults \/ Vk!AskCampaign
       \/ Vk!CancelCampaign \/ Vk!CampaignTyped \/ Vk!CampaignAgain
       \/ (\E to \in Vk!Targets : Vk!CampaignTarget(to))
       \/ (\E name \in Jobs : Vk!StartJob(name) \/ Vk!JobEnds(name))) => Vk!Mute
  BY DEF Vk!AdminMenu, Vk!AdminScreen, Vk!AskUser, Vk!FindUser, Vk!LeaveResults, Vk!AskCampaign, Vk!CancelCampaign,
         Vk!CampaignTyped, Vk!CampaignAgain, Vk!CampaignTarget, Vk!StartJob, Vk!JobEnds, Vk!Opens, Vk!Quiet
<1>4. (\/ Vk!AskPhoto \/ Vk!Photo \/ Vk!AskSummary \/ Vk!Page \/ Vk!AskJson \/ Vk!Json \/ Vk!Recognised
       \/ Vk!CancelPhotos \/ Vk!Applied \/ Vk!AskImport \/ Vk!Import \/ Vk!CancelImport \/ Vk!ConfirmFile
       \/ Vk!Restart \/ \E k \in DOMAIN ShortForms : Vk!AskLesson(k) \/ Vk!Answer(k) \/ Vk!CancelLesson(k)) => Vk!Mute
  BY DEF Vk!AskPhoto, Vk!Photo, Vk!AskSummary, Vk!Page, Vk!AskJson, Vk!Json, Vk!Recognised, Vk!CancelPhotos,
         Vk!Applied, Vk!AskImport, Vk!Import, Vk!CancelImport, Vk!ConfirmFile, Vk!Restart, Vk!AskLesson, Vk!Answer,
         Vk!CancelLesson, Vk!Opens, Vk!Quiet
<1>5. CASE Vk!SendReport
  <2>1. lost = TRUE \/ shown = Vk!Preview("report", vkDrafts["report"], Vk!Everyone)
    BY <1>5, DraftOfIs DEF Vk!SendReport, ScreenInv, DraftStands, Forms
  <2>2. QED BY <1>1, <1>5, <2>1 DEF Vk!SendReport, ShownQuestion
<1>6. CASE Vk!SendCampaign /\ ~Vk!Mute /\ lost # TRUE
  <2>1. /\ shown = Vk!Preview("broadcast", vkDrafts["broadcast"], Asked)
        /\ sent' = Vk!Preview("broadcast", vkDrafts["broadcast"], target)
    BY <1>6, DraftOfIs DEF Vk!SendCampaign, ScreenInv, DraftStands
  <2>2. CASE defaulted = TRUE
    <3>1. PICK d, p, a : d = vkDrafts["broadcast"] /\ target = [platform |-> p, audience |-> a]
      BY DEF ScreenInv
    <3>2. shown = [kind |-> "broadcast", draft |-> d, to |-> [platform |-> "all", audience |-> a]] /\ target.platform = p
      BY <2>1, <2>2, <3>1 DEF Asked, Vk!Preview
    <3>3. [shown EXCEPT !.to.platform = target.platform] = [kind |-> "broadcast", draft |-> d, to |-> target]
      BY <3>1, <3>2
    <3>4. QED BY <2>1, <2>2, <3>1, <3>3 DEF Vk!Preview, ShownQuestion
  <2>3. CASE defaulted # TRUE
    BY <2>1, <2>3 DEF Asked, ShownQuestion
  <2>4. QED BY <2>2, <2>3
<1>7. CASE Vk!ConfirmPhotos
  <2>1. mode = "ocr_preview" => lost = TRUE \/ shown = Vk!Preview("ocr", vkDrafts["ocr"], Vk!Everyone)
    BY DraftOfIs DEF ScreenInv, DraftStands, Forms
  <2>2. mode \in {"summary_preview", "json_preview"} =>
          lost = TRUE \/ shown = Vk!Preview("summary", vkDrafts["summary"], Vk!Everyone)
    BY DraftOfIs DEF ScreenInv, DraftStands, Forms
  <2>3. QED BY <1>7, <2>1, <2>2 DEF Vk!ConfirmPhotos, Vk!Applies, ShownQuestion
<1>8. CASE Vk!WaitFails \/ Vk!FileSaved
  <2>1. Vk!Mute \/ (busy.op \in Vk!FileKinds /\ sent' = Vk!Preview(busy.op, busy.draft, Vk!Everyone))
    BY <1>8 DEF Vk!WaitFails, Vk!FileSaved
  <2>2. busy # Vk!Nothing
    BY <1>8, FormsAre DEF Vk!WaitFails, Vk!FileSaved, Vk!FileKinds, Vk!Nothing, Forms
  <2>3. busy.op \in Vk!FileKinds => busy.op \notin {"photo", "pages", "apply"}
    BY FormsAre DEF Vk!FileKinds, Forms
  <2>4. QED BY <1>1, <2>1, <2>2, <2>3 DEF BusyInv, ShownQuestion
<1>9. UNCHANGED vkVars => UNCHANGED Vk!vars
  BY DEF vkVars, Vk!vars
<1>10. lost = TRUE => ShownQuestion
  BY DEF ShownQuestion
<1>11. QED
  BY <1>1, <1>2, <1>3, <1>4, <1>5, <1>6, <1>7, <1>8, <1>9, <1>10 DEF Vk!Next

(* The photos of a summary are of one sheet; JSON comes without photos. *)
JsonModes == {"json_input", "json_preview"}

VkSheetInv ==
  /\ typed \in Nat
  /\ vkImages \in Seq(Nat) /\ Vk!ToSet(vkImages) \subseteq vkSheet
  /\ mode \in JsonModes => vkImages = <<>>
  /\ "summary" \in DOMAIN vkDrafts => Vk!ToSet(vkDrafts["summary"]) \subseteq vkSheet

(* The sheet and its summary are as they were, or the summary is gone. *)
Keeps ==
  /\ UNCHANGED <<vkImages, vkSheet>>
  /\ typed' \in {typed, typed + 1}
  /\ mode' \in JsonModes => mode \in JsonModes
  /\ "summary" \in DOMAIN vkDrafts' => "summary" \in DOMAIN vkDrafts /\ vkDrafts'["summary"] = vkDrafts["summary"]

LEMMA KeepsSheet == VkSheetInv /\ Keeps => VkSheetInv'
  BY DEF VkSheetInv, Keeps

LEMMA ScreenKeeps ==
  ASSUME NEW m \in Plain \ {"json_input"}, NEW popped, Vk!Screen(m, popped), Vk!SamePages, typed' \in {typed, typed + 1}
  PROVE  Keeps
<1>1. m \notin JsonModes
  BY DEF Plain, JsonModes
<1>2. QED BY <1>1 DEF Vk!Screen, Vk!SamePages, Vk!Pop, Keeps

LEMMA PreviewKeeps ==
  ASSUME NEW m, NEW k, NEW d, Vk!Previewed(m, k, d) \/ Vk!Begins(m, k),
         k # "summary", m \notin JsonModes, Vk!SamePages, typed' \in {typed, typed + 1}
  PROVE  Keeps
  BY DEF Vk!Previewed, Vk!Begins, Vk!SamePages, Vk!Put, Keeps

(* The scenario of photos ends or begins anew. *)
LEMMA SheetCleared ==
  ASSUME VkSheetInv, NEW m, NEW popped, Vk!Screen(m, popped), "summary" \in popped,
         vkImages' = <<>>, vkSheet' = {}, typed' = typed
  PROVE  VkSheetInv'
<1>1. <<>> \in Seq(Nat) /\ Vk!ToSet(<<>>) = {}
  BY DEF Vk!ToSet
<1>2. "summary" \notin DOMAIN vkDrafts'
  BY DEF Vk!Screen, Vk!Pop
<1>3. QED BY <1>1, <1>2 DEF VkSheetInv

LEMMA VkSheetStart == Vk!Init => VkSheetInv
<1>. SUFFICES ASSUME Vk!Init PROVE VkSheetInv
  OBVIOUS
<1>1. <<>> \in Seq(Nat) /\ Vk!ToSet(<<>>) = {}
  BY DEF Vk!ToSet
<1>2. typed = 0 /\ vkImages = <<>> /\ "summary" \notin DOMAIN vkDrafts
  BY DEF Vk!Init, Vk!Empty
<1>3. QED BY <1>1, <1>2 DEF VkSheetInv

(* A page joins those of its sheet, ready JSON is a sheet of its own. *)
LEMMA PageJoins == VkSheetInv /\ Vk!Page => VkSheetInv'
<1>. SUFFICES ASSUME VkSheetInv, Vk!Page PROVE VkSheetInv'
  OBVIOUS
<1>1. typed + 1 \in Nat /\ typed' = typed + 1
  BY DEF Vk!Page, Vk!Types, VkSheetInv
<1>2. /\ vkImages' = Append(vkImages, typed + 1) /\ vkSheet' = vkSheet \cup {typed + 1}
      /\ UNCHANGED <<mode, vkDrafts>> /\ mode \notin JsonModes
  BY DEF Vk!Page, Vk!Message, Vk!SameScreen, JsonModes
<1>3. vkImages' \in Seq(Nat) /\ Vk!ToSet(vkImages') \subseteq Vk!ToSet(vkImages) \cup {typed + 1}
  BY <1>1, <1>2, AppendIs DEF Vk!ToSet, VkSheetInv
<1>4. QED BY <1>1, <1>2, <1>3 DEF VkSheetInv

LEMMA JsonAlone == VkSheetInv /\ Vk!Json => VkSheetInv'
<1>. SUFFICES ASSUME VkSheetInv, Vk!Json PROVE VkSheetInv'
  OBVIOUS
<1>1. typed + 1 \in Nat /\ typed' = typed + 1 /\ vkImages' = vkImages /\ vkImages = <<>>
  BY DEF Vk!Json, Vk!Types, VkSheetInv, JsonModes
<1>2. CASE Vk!SameScreen /\ UNCHANGED vkSheet
  BY <1>1, <1>2 DEF Vk!SameScreen, VkSheetInv
<1>3. CASE Vk!Previewed("json_preview", "summary", <<Vk!Message>>) /\ vkSheet' = {Vk!Message}
  <2>1. vkDrafts'["summary"] = <<Vk!Message>>
    BY <1>3 DEF Vk!Previewed, Vk!Put
  <2>2. Vk!ToSet(<<>>) = {} /\ Vk!ToSet(<<Vk!Message>>) = {Vk!Message} /\ <<>> \in Seq(Nat)
    BY DEF Vk!ToSet
  <2>3. QED BY <1>1, <1>3, <2>1, <2>2 DEF VkSheetInv
<1>4. QED BY <1>2, <1>3 DEF Vk!Json

LEMMA VkSheetStep == BusyInv /\ VkSheetInv /\ [Vk!Next]_vkVars => VkSheetInv'
<1>. SUFFICES ASSUME BusyInv, VkSheetInv, [Vk!Next]_vkVars PROVE VkSheetInv'
  OBVIOUS
<1>. USE KeepsSheet
<1>1. CASE \/ Vk!Start \/ Vk!LeaveChoice \/ Vk!ShowScreen \/ Vk!AskSticker \/ Vk!Choose
           \/ Vk!Unsubscribe \/ Vk!AskRoom \/ Vk!RoomGiven \/ Vk!AskSearch \/ Vk!AskReport \/ Vk!CancelReport
           \/ Vk!SendReport
  <2>1. \E m \in Plain \ {"json_input"} : \E popped : Vk!Screen(m, popped) /\ Vk!SamePages /\ typed' = typed
    BY <1>1 DEF Vk!Start, Vk!LeaveChoice, Vk!ShowScreen, Vk!AskSticker, Vk!Choose, Vk!Unsubscribe, Vk!AskRoom,
                Vk!RoomGiven, Vk!AskSearch, Vk!AskReport, Vk!CancelReport, Vk!SendReport, Vk!Opens, Vk!Quiet,
                Vk!Subscribed, Plain
  <2>2. QED BY <2>1, ScreenKeeps
<1>2. CASE \/ Vk!AdminMenu \/ Vk!AdminScreen \/ Vk!AskUser \/ Vk!LeaveResults \/ Vk!AskCampaign \/ Vk!CancelCampaign
           \/ Vk!SendCampaign \/ Vk!AskPhoto \/ Vk!AskImport \/ Vk!CancelImport \/ Vk!FileSaved
           \/ \E k \in DOMAIN ShortForms : Vk!CancelLesson(k)
  <2>1. \E m \in Plain \ {"json_input"} : \E popped : Vk!Screen(m, popped) /\ Vk!SamePages /\ typed' = typed
    BY <1>2 DEF Vk!AdminMenu, Vk!AdminScreen, Vk!AskUser, Vk!LeaveResults, Vk!AskCampaign, Vk!CancelCampaign,
                Vk!SendCampaign, Vk!AskPhoto, Vk!AskImport, Vk!CancelImport, Vk!FileSaved, Vk!CancelLesson,
                Vk!Opens, Vk!Quiet, Plain
  <2>2. QED BY <2>1, ScreenKeeps
<1>3. CASE Vk!Subscribe \/ Vk!Search
  <2>1. CASE \E m \in Plain \ {"json_input"} : \E popped : Vk!Screen(m, popped) /\ Vk!SamePages /\ typed' = typed
    BY <2>1, ScreenKeeps
  <2>2. CASE \E purpose : Vk!AskChoice(purpose)
    <3>1. mode' = "teacher_choice" /\ UNCHANGED <<vkDrafts, vkImages, vkSheet, typed>>
      BY <2>2 DEF Vk!AskChoice, Vk!Quiet, Vk!SamePages
    <3>2. QED BY <3>1 DEF Keeps, JsonModes
  <2>3. QED BY <1>3, <2>1, <2>2 DEF Vk!Subscribe, Vk!Search, Vk!Opens, Vk!Quiet, Vk!Subscribed, Plain
<1>4. CASE Vk!FindUser \/ \E k \in DOMAIN ShortForms : Vk!AskLesson(k)
  <2>1. CASE Vk!Opens("user_search", {"query"})
    BY <2>1, ScreenKeeps DEF Vk!Opens, Vk!Quiet, Plain
  <2>2. ASSUME NEW m, NEW k, Vk!Begins(m, k) /\ Vk!Quiet, k # "summary", m \notin JsonModes PROVE Keeps
    BY <2>2, PreviewKeeps DEF Vk!Quiet
  <2>3. CASE Vk!Begins("user_results", "query") /\ Vk!Quiet
    BY <2>2, <2>3 DEF JsonModes
  <2>4. CASE \E k \in Forms : Vk!Begins(k, k) /\ Vk!Quiet
    BY <2>2, <2>4 DEF JsonModes, Forms
  <2>5. QED BY <1>4, <2>1, <2>3, <2>4, FormsAre DEF Vk!FindUser, Vk!AskLesson
<1>5. CASE Vk!ReportTyped \/ Vk!CampaignTyped \/ Vk!Import
  <2>1. /\ Vk!SamePages /\ typed' = typed + 1
        /\ \E d : \/ Vk!Previewed("report_confirm", "report", d) \/ Vk!Previewed("broadcast_preview", "broadcast", d)
                  \/ Vk!Previewed("import_preview", "import", d)
    BY <1>5 DEF Vk!ReportTyped, Vk!CampaignTyped, Vk!Import, Vk!Types
  <2>2. QED BY <2>1, PreviewKeeps DEF JsonModes
<1>6. CASE \/ Vk!ToMenu \/ Vk!AskSummary \/ Vk!AskJson \/ Vk!Restart
  <2>1. "summary" \in Vk!Kinds \ {"report"}
    BY DEF Vk!Kinds
  <2>2. \E m : \E popped : /\ Vk!Screen(m, popped) /\ "summary" \in popped
                           /\ vkImages' = <<>> /\ vkSheet' = {} /\ typed' = typed
    BY <1>6, <2>1 DEF Vk!ToMenu, Vk!AskSummary, Vk!AskJson, Vk!Restart
  <2>3. QED BY <2>2, SheetCleared
<1>7. CASE Vk!CancelPhotos \/ Vk!Applied
  <2>1. \/ \E m : \E popped : /\ Vk!Screen(m, popped) /\ "summary" \in popped
                              /\ vkImages' = <<>> /\ vkSheet' = {} /\ typed' = typed
        \/ \E m \in Plain \ {"json_input"} : \E popped : Vk!Screen(m, popped) /\ Vk!SamePages /\ typed' = typed
    BY <1>7 DEF Vk!CancelPhotos, Vk!Applied, Vk!Opens, Vk!Quiet, Plain
  <2>2. QED BY <2>1, SheetCleared, ScreenKeeps
<1>8. CASE Vk!Photo
  <2>1. Vk!SamePages /\ typed' = typed + 1
    BY <1>8 DEF Vk!Photo, Vk!Types
  <2>2. CASE Vk!SameScreen
    BY <2>1, <2>2 DEF Vk!SameScreen, Vk!SamePages, Keeps
  <2>3. CASE Vk!Screen("ocr_input", {"ocr"})
    BY <2>1, <2>3, ScreenKeeps DEF Plain
  <2>4. QED BY <1>8, <2>2, <2>3 DEF Vk!Photo
<1>9. CASE Vk!Recognised
  <2>1. Vk!SamePages /\ typed' = typed
    BY <1>9 DEF Vk!Recognised
  <2>2. CASE Vk!Previewed("ocr_preview", "ocr", busy.draft)
    BY <2>1, <2>2, PreviewKeeps DEF JsonModes
  <2>3. CASE busy.op = "pages" /\ Vk!Previewed("summary_preview", "summary", busy.draft)
    <3>1. busy.draft = vkImages
      BY <2>3 DEF BusyInv, Vk!Nothing, Forms
    <3>2. vkDrafts'["summary"] = vkImages /\ mode' = "summary_preview"
      BY <2>3, <3>1 DEF Vk!Previewed, Vk!Put
    <3>3. QED BY <2>1, <3>2 DEF VkSheetInv, Vk!SamePages, JsonModes
  <2>4. QED BY <1>9, <2>2, <2>3 DEF Vk!Recognised
<1>10. CASE \/ \E name \in Jobs : Vk!StartJob(name) \/ Vk!JobEnds(name)
            \/ Vk!WaitFails \/ Vk!ConfirmPhotos \/ Vk!ConfirmFile \/ UNCHANGED vkVars
  <2>1. UNCHANGED <<mode, vkDrafts, vkImages, vkSheet, typed>>
    BY <1>10 DEF Vk!StartJob, Vk!JobEnds, Vk!WaitFails, Vk!ConfirmPhotos, Vk!ConfirmFile, vkVars, Vk!SameScreen,
                 Vk!SamePages
  <2>2. QED BY <2>1 DEF Keeps
<1>11. CASE Vk!CampaignAgain \/ \E to \in Vk!Targets : Vk!CampaignTarget(to)
  BY <1>11 DEF Vk!CampaignAgain, Vk!CampaignTarget, Vk!Put, Vk!SamePages, Vk!Types, Keeps
<1>12. CASE \E k \in DOMAIN ShortForms : Vk!Answer(k)
  <2>1. PICK k \in Forms : Vk!Answer(k)
    BY <1>12, FormsAre
  <2>2. /\ Vk!SamePages /\ typed' = typed + 1 /\ mode' = mode
        /\ \E d : vkDrafts' = Vk!Put(vkDrafts, k, d)
    BY <2>1 DEF Vk!Answer, Vk!Types
  <2>3. k # "summary"
    BY DEF Forms
  <2>4. QED BY <2>2, <2>3 DEF Vk!Put, Vk!SamePages, Keeps
<1>13. QED
  BY <1>1, <1>2, <1>3, <1>4, <1>5, <1>6, <1>7, <1>8, <1>9, <1>10, <1>11, <1>12, PageJoins, JsonAlone DEF Vk!Next

-----------------------------------------------------------------------------
(* The union: one part goes on and the others stand still *)

LEMMA OnePart ==
  ASSUME [Next]_vars
  PROVE  /\ [Reports!Next]_reportVars /\ [Stars!Next]_starVars /\ [Chats!Next]_chatVars
         /\ [Vk!Next]_vkVars /\ [Photos!Next]_photoVars /\ [Dialogue!Next]_dialogueVars
  BY DEF Next, vars

\* telegram_bot.py:3085-3130, 2782-2862, 1200-1218: a report counts as answered when its
\* author has the answer, a donation as returned when Telegram has paid it back, once a
\* charge, and a chat gets what its administrators chose last, whatever handlers do at
\* once and wherever one of their steps fails.
THEOREM DoneIsDone == Spec => []DoneAsTold
<1>. DEFINE Inv == ReportsInv /\ StarsInv /\ ChatsInv
<1>1. Init => Inv
  BY ReportsStart, StarsStart, ChatsStart DEF Init
<1>2. Inv /\ [Next]_vars => Inv'
  BY OnePart, ReportsStep, StarsStep, ChatsStep
<1>3. Inv => DoneAsTold
  BY DEF DoneAsTold, ReportsInv, StarsInv, ChatsInv
<1>4. QED BY <1>1, <1>2, <1>3, PTL DEF Spec

\* telegram_bot.py:4055-4083, 3467-3490: a draft is saved once and a text lets one message
\* out, whatever handlers are at work at once and however often the buttons are pressed.
THEOREM OnceConfirmed == Spec => []ConfirmedOnce
<1>. DEFINE Inv == PagesInv /\ TextsInv
<1>1. Init => Inv
  BY PagesStart, TextsStart DEF Init
<1>2. Inv /\ [Next]_vars => Inv'
  BY OnePart, PagesStep, TextsStep
<1>3. Inv => ConfirmedOnce
  BY PagesGive DEF ConfirmedOnce, TextsInv
<1>4. QED BY <1>1, <1>2, <1>3, PTL DEF Spec

\* vk_bot.py:2110-2987, telegram_bot.py:4850, vk_bot.py:2430: a bot that asks whether to go
\* on has the draft it asks about and has shown it, unless its preview was lost, and a
\* summary is made of the photos of one sheet, each once, whatever buttons of old screens
\* are pressed and whatever fails.
THEOREM DraftsAreHeld == Spec => []DraftsHold
<1>. DEFINE Inv == ScreenInv /\ BusyInv /\ VkSheetInv /\ PagesInv /\ KindsInv /\ SheetInv
<1>1. Init => Inv
  BY ScreenStart, BusyStart, VkSheetStart, PagesStart, KindsStart, SheetStart DEF Init
<1>2. Inv /\ [Next]_vars => Inv'
  BY OnePart, ScreenStep, BusyStep, VkSheetStep, PagesStep, KindsStep, SheetStep
<1>3. Inv => DraftsHold
  BY ScreenGives DEF DraftsHold, VkSheetInv, Vk!OneSheet, SheetInv, Photos!WholeSheet
<1>4. QED BY <1>1, <1>2, <1>3, PTL DEF Spec

\* vk_bot.py:2116-2400, telegram_bot.py:2056-2075, 3467-4435: what is sent, saved or written
\* on a confirmation is what the last preview of its kind showed, unless that one was lost,
\* is on its way or came out of order.  Two things more are let through: a VK campaign that
\* was shown again goes to the platform chosen before, and a Telegram form that is being
\* answered again is taken as far as it is.
THEOREM WhatWasShown == Spec => ConfirmedAsShown
<1>. DEFINE Inv == /\ ScreenInv /\ BusyInv /\ PagesInv /\ PreviewsInv
                   /\ TextsInv /\ FormsInv /\ DisplayInv
<1>1. Init => Inv
  BY ScreenStart, BusyStart, PagesStart, PreviewsStart, TextsStart, DisplayStart DEF Init
<1>2. Inv /\ [Next]_vars => Inv'
  BY OnePart, ScreenStep, BusyStep, PagesStep, PreviewsStep, TextsStep, DisplayStep
<1>3. Inv /\ [Next]_vars => [ShownQuestion]_Vk!vars
  BY OnePart, QuestionGives
<1>4. Inv /\ [Next]_vars => [ShownDraft]_Photos!vars
  BY OnePart, PreviewsGive
<1>5. Inv /\ [Next]_vars => [ShownText]_Dialogue!vars
  BY OnePart, DisplayGives
<1>6. [][ShownQuestion]_Vk!vars => Vk!SentAsShown
  BY PTL DEF Vk!SentAsShown, ShownQuestion
<1>7. [][ShownDraft]_Photos!vars => Photos!SavedAsShown
  BY PTL DEF Photos!SavedAsShown, ShownDraft
<1>8. [][ShownText]_Dialogue!vars => Dialogue!SentAsShown
  BY PTL DEF Dialogue!SentAsShown, ShownText
<1>9. QED BY <1>1, <1>2, <1>3, <1>4, <1>5, <1>6, <1>7, <1>8, PTL DEF Spec, ConfirmedAsShown
=============================================================================
