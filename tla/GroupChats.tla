----------------------------- MODULE GroupChats -----------------------------
(***************************************************************************)
(* A chat of many people that subscribes to a schedule (telegram_bot.py     *)
(* 1200-1262, 3270-3350, 3658-3690, 5069-5097; vk_bot.py 919-940,           *)
(* 1592-1663, 2082-2098, 2989-3011).  Telegram handles messages side by     *)
(* side, and each of them first writes the chat's row as it has read it;    *)
(* VK handles those of one chat in order.  The administrators decide.       *)
(***************************************************************************)
EXTENDS Naturals, FiniteSets

CONSTANTS
    Slots,          \* handlers at a time
    People,         \* members of the chat
    Choices,        \* groups and teachers the directories know
    MaxCommands,    \* bound: messages
    MaxFailures     \* bound: failed writes, restarts

VARIABLES
    network,    \* "telegram", "vk"
    rights,     \* members that administrate the chat now
    invited,    \* awaiting_group_subscription_input, awaiting_group_selection
    row,        \* of the chat in users: its subscription; NoRow if there is none
    handlers,   \* slot -> [step, kind, member, wish, base, late]
    decided,    \* history: what the last of the administrators' commands has chosen
    overtaken,  \* history: a registration wrote back what it had read before that
    commands, failures

vars == <<network, rights, invited, row, handlers, decided, overtaken, commands, failures>>

NoRow == "no row"
Nothing == "nothing"
Unknown == "unknown"
Resting == [step |-> "resting"]

Init ==
    /\ network \in {"telegram", "vk"} /\ rights \in {{p} : p \in People}
    /\ invited = FALSE /\ row = NoRow /\ handlers = [s \in Slots |-> Resting]
    /\ decided = Nothing /\ overtaken = FALSE /\ commands = 0 /\ failures = 0

At(s, step) == handlers[s].step = step
Goes(s, step) == handlers' = [handlers EXCEPT ![s].step = step]
Ends(s) == handlers' = [handlers EXCEPT ![s] = Resting]

\* In VK any text that is not a setup command is left alone until the bot has asked; then
\* every text is a name.  /startgroup of Telegram registers nobody.
Heard(kind) ==
    IF network = "telegram" THEN kind \in {"setup", "startgroup", "set", "status", "clear", "text"}
    ELSE /\ \A s \in Slots : At(s, "resting")
         /\ kind = IF invited THEN "text" ELSE "startgroup"

Arrives(s, p, kind, wish) ==
    /\ At(s, "resting") /\ Heard(kind) /\ commands < MaxCommands /\ commands' = commands + 1
    /\ (kind \in {"set", "text"}) = (wish # Nothing)
    /\ handlers' = [handlers EXCEPT ![s] =
           [step |-> IF network = "vk" \/ kind = "startgroup" THEN "checking" ELSE "reading",
            kind |-> kind, member |-> p, wish |-> wish, base |-> Nothing, late |-> FALSE]]
    /\ UNCHANGED <<network, rights, invited, row, decided, overtaken, failures>>

\* register_group_chat: get_user, then upsert_user.
Reads(s) ==
    /\ At(s, "reading")
    /\ handlers' = [handlers EXCEPT ![s].step = "registering", ![s].base = IF row = NoRow THEN Nothing ELSE row]
    /\ UNCHANGED <<network, rights, invited, row, decided, overtaken, commands, failures>>

\* Mutant: what was not there before is removed.
WrittenAsRead(base) == base

\* COALESCE: no subscription leaves the one that is there.
Upserted(base) == IF base # Nothing THEN base ELSE IF row = NoRow THEN Nothing ELSE row

Registers(s) ==
    /\ At(s, "registering")
    /\ row' = Upserted(handlers[s].base)
    /\ overtaken' = (overtaken \/ (handlers[s].late /\ handlers[s].base # Nothing))
    /\ IF handlers[s].kind = "status" \/ (handlers[s].kind = "text" /\ ~invited) THEN Ends(s) ELSE Goes(s, "checking")
    /\ UNCHANGED <<network, rights, invited, decided, commands, failures>>

\* user_can_manage_group
MayManage(s) == handlers[s].member \in rights

\* The bot asks for a name.
Asks == invited' = TRUE

\* handle_group_setup_command, handle_startgroup_command
Invites(s) ==
    /\ At(s, "checking") /\ handlers[s].kind \in {"setup", "startgroup"} /\ MayManage(s)
    /\ Asks /\ Ends(s)
    /\ UNCHANGED <<network, rights, row, decided, overtaken, commands, failures>>

\* handle_group_set_command, and a name that was asked for.
Looks(s) ==
    /\ At(s, "checking") /\ handlers[s].kind \in {"set", "text"} /\ MayManage(s)
    /\ Goes(s, "resolving")
    /\ UNCHANGED <<network, rights, invited, row, decided, overtaken, commands, failures>>

\* handle_group_clear_command
Dismisses(s) ==
    /\ At(s, "checking") /\ handlers[s].kind = "clear" /\ MayManage(s)
    /\ invited' = FALSE /\ Goes(s, "clearing")
    /\ UNCHANGED <<network, rights, row, decided, overtaken, commands, failures>>

\* No administrator, or nobody can say.
TurnedAway(s) ==
    /\ At(s, "checking") /\ Ends(s)
    /\ UNCHANGED <<network, rights, invited, row, decided, overtaken, commands, failures>>

\* Mutant: the subscription of a conversation without a row is an UPDATE of nothing.
NoRowMade == row

\* handle_subscription_input of VK: a conversation has no row before.
RowMade == IF network = "vk" /\ row = NoRow THEN Nothing ELSE row

\* resolve_subscription_input: the group or teacher is found ...
Found(s) ==
    /\ At(s, "resolving") /\ handlers[s].wish \in Choices
    /\ row' = RowMade /\ Goes(s, "saving")
    /\ UNCHANGED <<network, rights, invited, decided, overtaken, commands, failures>>

\* ... or not, or the sites are away: /group_set asks for another name then.
NotFound(s) ==
    /\ At(s, "resolving") /\ Ends(s)
    /\ row' = RowMade
    /\ invited' = (invited \/ handlers[s].kind = "set" \/ network = "vk")
    /\ UNCHANGED <<network, rights, decided, overtaken, commands, failures>>

\* Whoever has read the row before is late.
Decide(s, choice) ==
    /\ decided' = choice /\ overtaken' = FALSE
    /\ handlers' = [r \in Slots |->
          IF r = s THEN Resting
          ELSE IF At(r, "registering") THEN [handlers[r] EXCEPT !.late = TRUE] ELSE handlers[r]]

\* set_user_subscription: an UPDATE.
Saves(s) ==
    /\ At(s, "saving")
    /\ row' = IF row = NoRow THEN NoRow ELSE handlers[s].wish
    /\ invited' = FALSE /\ Decide(s, handlers[s].wish)
    /\ UNCHANGED <<network, rights, commands, failures>>

\* clear_user_subscription
Clears(s) ==
    /\ At(s, "clearing")
    /\ row' = IF row = NoRow THEN NoRow ELSE Nothing
    /\ Decide(s, Nothing)
    /\ UNCHANGED <<network, rights, invited, commands, failures>>

WriteFails(s) ==
    /\ handlers[s].step \in {"registering", "saving", "clearing"} /\ Ends(s)
    /\ failures < MaxFailures /\ failures' = failures + 1
    /\ UNCHANGED <<network, rights, invited, row, decided, overtaken, commands>>

Restart ==
    /\ failures < MaxFailures /\ failures' = failures + 1
    /\ invited' = FALSE /\ handlers' = [s \in Slots |-> Resting]
    /\ UNCHANGED <<network, rights, row, decided, overtaken, commands>>

\* The chat changes its administrators.
RightsChange ==
    /\ \E p \in People : rights' = IF p \in rights THEN rights \ {p} ELSE rights \cup {p}
    /\ UNCHANGED <<network, invited, row, handlers, decided, overtaken, commands, failures>>

Next ==
    \/ \E s \in Slots :
          \/ \E p \in People, wish \in Choices \cup {Unknown, Nothing},
                kind \in {"setup", "startgroup", "set", "status", "clear", "text"} : Arrives(s, p, kind, wish)
          \/ Reads(s) \/ Registers(s) \/ Invites(s) \/ Looks(s) \/ Dismisses(s) \/ TurnedAway(s) 
          \/ Found(s) \/ NotFound(s) \/ Saves(s) \/ Clears(s) \/ WriteFails(s)
    \/ Restart \/ RightsChange

Spec == Init /\ [][Next]_vars
-----------------------------------------------------------------------------
\* A chat gets the changes of what its administrators chose last, or none, unless the
\* registration of a message had read the row before (telegram_bot.py:1200-1218,
\* vk_bot.py:1594-1599).
ChoiceKept == (IF row = NoRow THEN Nothing ELSE row) = decided \/ overtaken
=============================================================================
