----------------------------- MODULE Donations -----------------------------
(***************************************************************************)
(* Telegram Stars (telegram_bot.py:2715-2911): a payment is recorded when   *)
(* its message is handled, and an administrator gives it back by number or  *)
(* by charge: Telegram first, then the row.  Telegram pays a charge back    *)
(* once and refuses after that; it may send a message again after a crash.  *)
(***************************************************************************)
EXTENDS Naturals, Sequences, FiniteSets

CONSTANTS
    Charges,        \* payments
    Treasurers,     \* full administrators
    MaxSetbacks,    \* bound: errors of SQLite or Telegram, crashes
    MaxRows         \* bound: rows of star_donations

VARIABLES
    charges,    \* charge -> "none", "paid", "refunded" at Telegram
    messages,   \* charges whose message is not handled yet
    donations,  \* star_donations: [charge, refunded]; the id is the index
    refunds,    \* administrator -> his /dnremove
    setbacks

vars == <<charges, messages, donations, refunds, setbacks>>

NoRefund == [step |-> "none"]
Setback == setbacks < MaxSetbacks /\ setbacks' = setbacks + 1

Init ==
    /\ charges = [c \in Charges |-> "none"] /\ messages = {} /\ donations = <<>>
    /\ refunds = [t \in Treasurers |-> NoRefund] /\ setbacks = 0

\* The pre-checkout query is always answered with yes.
Pay(c) ==
    /\ charges[c] = "none" /\ charges' = [charges EXCEPT ![c] = "paid"]
    /\ messages' = messages \cup {c}
    /\ UNCHANGED <<donations, refunds, setbacks>>

\* process_successful_payment; charge_id is not unique in the table.
Record(c) ==
    /\ c \in messages /\ Len(donations) < MaxRows /\ messages' = messages \ {c}
    /\ donations' = Append(donations, [charge |-> c, refunded |-> FALSE])
    /\ UNCHANGED <<charges, refunds, setbacks>>

RecordFails(c) ==
    /\ c \in messages /\ Setback /\ messages' = messages \ {c}
    /\ UNCHANGED <<charges, donations, refunds>>

\* handle_dnremove_command with the number of a row, or with a charge and its first row.
GiveBack(t, i) ==
    /\ refunds[t] = NoRefund
    /\ ~donations[i].refunded
    /\ refunds' = [refunds EXCEPT ![t] = [step |-> "refunding", row |-> i, charge |-> donations[i].charge]]
    /\ UNCHANGED <<charges, messages, donations, setbacks>>

\* The charge of a payment nobody has recorded, with its user.
GiveBackDirectly(t, c) ==
    /\ refunds[t] = NoRefund /\ charges[c] # "none" /\ \A i \in DOMAIN donations : donations[i].charge # c
    /\ refunds' = [refunds EXCEPT ![t] = [step |-> "refunding", row |-> 0, charge |-> c]]
    /\ UNCHANGED <<charges, messages, donations, setbacks>>

\* Mutant: a refund that Telegram refuses is marked as well.
MarkedAnyway(t) == TRUE

Granted(t) == charges[refunds[t].charge] = "paid"

Refund(t) ==
    /\ refunds[t].step = "refunding" /\ Granted(t)
    /\ charges' = IF Granted(t) /\ charges[refunds[t].charge] = "paid"
                    THEN [charges EXCEPT ![refunds[t].charge] = "refunded"] ELSE charges
    /\ refunds' = [refunds EXCEPT ![t] = IF @.row = 0 THEN NoRefund ELSE [@ EXCEPT !.step = "marking"]]
    /\ UNCHANGED <<messages, donations, setbacks>>

\* Given back before, or Telegram cannot be reached.
RefundRefused(t) ==
    /\ refunds[t].step = "refunding"
    /\ IF charges[refunds[t].charge] = "refunded" THEN UNCHANGED setbacks ELSE Setback
    /\ refunds' = [refunds EXCEPT ![t] = NoRefund]
    /\ UNCHANGED <<charges, messages, donations>>

Mark(t) ==
    /\ refunds[t].step = "marking"
    /\ donations' = [donations EXCEPT ![refunds[t].row].refunded = TRUE]
    /\ refunds' = [refunds EXCEPT ![t] = NoRefund]
    /\ UNCHANGED <<charges, messages, setbacks>>

MarkFails(t) ==
    /\ refunds[t].step = "marking" /\ Setback /\ refunds' = [refunds EXCEPT ![t] = NoRefund]
    /\ UNCHANGED <<charges, messages, donations>>

\* A message whose offset was not confirmed comes again, handled or not.
Crash ==
    /\ Setback /\ refunds' = [t \in Treasurers |-> NoRefund]
    /\ \E again \in SUBSET {c \in Charges : charges[c] # "none"} : messages' \in {again, messages \cup again}
    /\ UNCHANGED <<charges, donations>>

Next ==
    \/ \E c \in Charges : Pay(c) \/ Record(c) \/ RecordFails(c)
    \/ \E t \in Treasurers :
          \/ \E i \in DOMAIN donations : GiveBack(t, i)
          \/ \E c \in Charges : GiveBackDirectly(t, c)
          \/ Refund(t) \/ RefundRefused(t) \/ Mark(t) \/ MarkFails(t)
    \/ Crash

Spec == Init /\ [][Next]_vars
-----------------------------------------------------------------------------
\* A row says "returned" only of money Telegram has given back, and one row at most says
\* so of a charge, however often it was recorded or asked for (telegram_bot.py:2809-2819).
RefundsAreReal ==
    /\ \A i \in DOMAIN donations : donations[i].refunded => charges[donations[i].charge] = "refunded"
    /\ \A i, j \in DOMAIN donations :
          donations[i].refunded /\ donations[j].refunded /\ donations[i].charge = donations[j].charge => i = j
=============================================================================
