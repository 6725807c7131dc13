------------------------------ MODULE Accounts ------------------------------
(***************************************************************************)
(* Accounts and subscriptions (src/src/account_service.py, the user        *)
(* methods of src/src/db.py, the sessions and routes of src/miniapp_api).  *)
(* A person's Telegram and VK identities can share an account; its primary *)
(* subscription is projected into the rows of `users`, which the bots and  *)
(* the notifications read.                                                 *)
(*                                                                         *)
(* A method of Database begins with a write, so SQLite runs it as one      *)
(* transaction: one action; a handler that registers its user reads the    *)
(* row in an action of its own.  A request of the mini app reads the       *)
(* session, then the rows its handler looks at, and only its first write   *)
(* opens the transaction: up to three actions (Authenticate, Look.., the   *)
(* handler).                                                               *)
(* Foreign keys are declared but never switched on (PRAGMA foreign_keys),  *)
(* so deleting an account leaves everything that refers to it.             *)
(***************************************************************************)
EXTENDS Naturals, Sequences, FiniteSets, FiniteSetsExt, Functions

CONSTANTS
  Users,        \* identities <<platform, user_id>>, as numbers in their order
  PlatformOf,   \* [Users -> platforms]
  Keys,         \* sources one can subscribe to
  TypeOf,       \* [Keys -> {"group", "teacher", "audience"}]
  KeyOrder,     \* Keys ordered by type and title
  University,   \* keys of the university's groups (a negative schedule_id)
  PendingGroup, PendingTeacher,  \* sets of <<pending key, the site's key>>
  Tokens,       \* link tokens
  \* Bounds of the model.
  MaxAccounts,  \* accounts ever created, 1 .. MaxAccounts
  Starts,       \* what the users have in the beginning: functions from Users
                \* to their key, "none" or, if they never wrote, "new"
  Budgets       \* how many operations of a kind a behaviour has: in the bots,
                \* on subscriptions in the mini app, on links, logins

ASSUME AccountsAssumption ==
  /\ Users \subseteq 1 .. MaxAccounts /\ DOMAIN PlatformOf = Users
  /\ TypeOf \in [Keys -> {"group", "teacher", "audience"}]
  /\ IsFiniteSet(Keys) /\ KeyOrder \in Seq(Keys)
  /\ Range(KeyOrder) = Keys /\ Len(KeyOrder) = Cardinality(Keys)
  /\ University \subseteq Keys /\ "none" \notin Keys
  /\ PendingGroup \union PendingTeacher \subseteq Keys \X Keys
  /\ \A p \in PendingGroup : TypeOf[p[1]] = "group" /\ TypeOf[p[2]] = "group"
  /\ MaxAccounts \in Nat /\ Starts \subseteq [Users -> Keys \union {"none", "new"}]
  /\ \A f \in Starts : \A u \in Users : f[u] \in Keys => TypeOf[f[u]] # "audience"
  /\ Budgets \subseteq [{"bot", "edit", "link", "login"} -> Nat]

Ids == 1 .. MaxAccounts
NoAccount == 0

VARIABLES
  rows,      \* the table users
  accounts,  \* accounts: [Ids -> "none", "gone", or its notifications_enabled]
  owner,     \* account_identities: [Users -> Ids or NoAccount]
  subs,      \* account_subscriptions: those of an account by their keys
  requests,  \* account_link_requests
  sessions,  \* miniapp_sessions that are neither revoked nor expired
  flight,    \* the request of the mini app a user has under way
  left,      \* what is left of the behaviour's budget
  strayed,   \* history: accounts that had two primary subscriptions, or whose
             \* rows were moved to another key than its subscriptions, and
             \* those made as a copy of one
  late,      \* history: users whose row was made after their account, or got
             \* an old source back
  raced,     \* history: accounts a handler changed on the word of an old read,
             \* and those made as a copy of one
  contested, \* history: tokens that two requests held at the same time
  joined     \* history: [Tokens -> users whose account was merged by it]

store == <<rows, accounts, owner, subs>>
history == <<strayed, late, raced, contested, joined>>
vars == <<rows, accounts, owner, subs, requests, sessions, flight, left,
          strayed, late, raced, contested, joined>>

(* A subscription: is_primary, notifications_enabled, its subgroup and, for   *)
(* the order of the table, its id.  An account has one of a key (UNIQUE), so   *)
(* its subscriptions are a function from keys.                                 *)
Sub == [main : BOOLEAN, on : BOOLEAN, half : 0 .. 1, id : Nat]
Row == [known : BOOLEAN, key : Keys \union {"none"}, half : 0 .. 1,
        room : Keys \union {"none"}, on : BOOLEAN, auto : BOOLEAN]
NoRow == [known |-> FALSE, key |-> "none", half |-> 0, room |-> "none",
          on |-> TRUE, auto |-> FALSE]

Exists(a) == a # NoAccount /\ accounts[a] \in {"on", "off"}
SameType(k, l) == TypeOf[k] = TypeOf[l]
Mains(s) == {k \in DOMAIN s : s[k].main}
MainGroups(s) == {k \in Mains(s) : TypeOf[k] = "group"}
Oldest(s, keys) == CHOOSE k \in keys : \A l \in keys : s[k].id <= s[l].id

-----------------------------------------------------------------------------
(* The steps of AccountService on the subscriptions of one account. *)

(* is_primary = 0 for the subscriptions of the type of `key`. *)
Demoted(s, key) ==
  [k \in DOMAIN s |-> IF SameType(k, key) THEN [s[k] EXCEPT !.main = FALSE] ELSE s[k]]

(* The first group of an account becomes its primary subscription. *)
BecomesMain(s, key, main) == main \/ (TypeOf[key] = "group" /\ MainGroups(s) = {})

(* AUTOINCREMENT, of which only the order within an account matters. *)
LastId(s) == Max({s[k].id : k \in DOMAIN s} \union {0})

(* The row of `key` is inserted, or overwritten if there is one. *)
Upserted(s, key, main) ==
  [k \in DOMAIN s \union {key} |->
     IF k # key THEN s[k]
     ELSE IF key \in DOMAIN s THEN [s[key] EXCEPT !.main = @ \/ main, !.on = TRUE, !.half = 0]
     ELSE [main |-> main, on |-> TRUE, half |-> 0, id |-> LastId(s) + 1]]

(* Mutant: the former primary subscription stays one. *)
AddedBeside(s, key, main) == Upserted(s, key, main)

(* add_subscription, once it is known whether the new one is primary. *)
Added(s, key, main) == Upserted(IF main THEN Demoted(s, key) ELSE s, key, main)

(* remove_subscription for some keys: for one that was primary the oldest that *)
(* is left of its type becomes it.  Removed one by one they leave the same.    *)
Removed(s, keys, mains) ==
  LET rest == DOMAIN s \ keys
      heir(k) == \E m \in mains : LET same == {l \in rest : SameType(l, m)} IN k \in same /\ k = Oldest(s, same)
  IN [k \in rest |-> [s[k] EXCEPT !.main = @ \/ heir(k)]]

(* get_account's order: primary ones first, then by type and title. *)
Place(key) == CHOOSE i \in DOMAIN KeyOrder : KeyOrder[i] = key
Before(s, k, l) == IF s[k].main = s[l].main THEN Place(k) < Place(l) ELSE s[k].main

(* What unlink_identity inserts, in that order. *)
Copied(s) ==
  [k \in DOMAIN s |-> [s[k] EXCEPT !.id = 1 + Cardinality({l \in DOMAIN s : Before(s, l, k)})]]

(* Account.primary_subscription: a group before anything else. *)
Primary(s) ==
  LET leading == IF MainGroups(s) # {} THEN MainGroups(s) ELSE Mains(s)
  IN CHOOSE k \in leading : \A l \in leading \ {k} : Before(s, k, l)

(* What _sync_primary_to_users selects: LIMIT 1 without an ORDER BY over the *)
(* index of account_id is the oldest primary subscription.                   *)
Shown(s) == IF Mains(s) = {} THEN "none" ELSE Oldest(s, Mains(s))

(* Its UPDATE: the subgroup stays with a row that has the key already. *)
Projected(r, s) ==
  [r EXCEPT !.key = Shown(s), !.half = IF Mains(s) # {} /\ r.key = Shown(s) THEN s[Shown(s)].half ELSE 0]

(* Mutant: only the identity that made the change gets it. *)
SyncedFirst(rs, ow, s, a) ==
  [u \in Users |-> IF rs[u].known /\ ow[u] = a /\ \A v \in Users : ow[v] = a => u <= v
                   THEN Projected(rs[u], s) ELSE rs[u]]

(* _sync_primary_to_users for account a, whose subscriptions are s. *)
Synced(rs, ow, s, a) ==
  [u \in Users |-> IF rs[u].known /\ ow[u] = a THEN Projected(rs[u], s) ELSE rs[u]]

-----------------------------------------------------------------------------
(* get_or_create_account.  A new account takes over the user's row; an       *)
(* identity whose account is gone ends in the RuntimeError of its last line. *)

Fresh == Min({a \in Ids : accounts[a] = "none"})
CanCreate == \E a \in Ids : accounts[a] = "none"

NoSubs == [k \in {} |-> TRUE]
FromRow(r) == IF r.known /\ r.key # "none"
              THEN [k \in {r.key} |-> [main |-> TRUE, on |-> r.on, half |-> r.half, id |-> 1]]
              ELSE NoSubs

(* Account a of user u, of rows rs: its owner, its subscriptions, its flag. *)
GetOrCreate(u, rs) ==
  IF owner[u] = NoAccount
  THEN [id |-> Fresh, subs |-> [subs EXCEPT ![Fresh] = FromRow(rs[u])],
        owner |-> [owner EXCEPT ![u] = Fresh], accounts |-> [accounts EXCEPT ![Fresh] = "on"]]
  ELSE [id |-> owner[u], subs |-> subs, owner |-> owner, accounts |-> accounts]

CanGet(u) == IF owner[u] = NoAccount THEN CanCreate ELSE Exists(owner[u])

-----------------------------------------------------------------------------
Idle == [pc |-> "idle"]

TypeOK ==
  /\ rows \in [Users -> Row]
  /\ accounts \in [Ids -> {"none", "gone", "on", "off"}]
  /\ owner \in [Users -> Ids \union {NoAccount}]
  /\ DOMAIN subs = Ids
  /\ \A a \in Ids : DOMAIN subs[a] \subseteq Keys /\ subs[a] \in [DOMAIN subs[a] -> Sub]
  /\ \A t \in Tokens : requests[t].state \in {"none", "open", "over"}
  /\ sessions \subseteq Users \X Ids
  /\ \A u \in Users : rows[u].key # "none" => rows[u].known

(* Users who have written to their bot and subscribed, or not yet.  Those in *)
(* the mini app have an account and a session.                               *)
Init ==
  /\ \E f \in Starts :
       rows = [u \in Users |-> IF f[u] = "new" THEN NoRow
                               ELSE [NoRow EXCEPT !.known = TRUE, !.key = f[u]]]
  /\ accounts = [a \in Ids |-> IF a \in Users THEN "on" ELSE "none"]
  /\ owner = [u \in Users |-> u]
  /\ subs = [a \in Ids |-> IF a \in Users THEN FromRow(rows[a]) ELSE NoSubs]
  /\ requests = [t \in Tokens |-> [state |-> "none", account |-> NoAccount]]
  /\ sessions = {<<u, u>> : u \in Users}
  /\ flight = [u \in Users |-> Idle]
  /\ left \in Budgets
  /\ strayed = {} /\ raced = {} /\ contested = {}
  /\ late = {u \in Users : ~rows[u].known}
  /\ joined = [t \in Tokens |-> {}]

(* Accounts with more than one primary subscription never come back. *)
Stray(new) == strayed' = strayed \union {a \in Ids : Cardinality(Mains(new[a])) > 1}

(* Users whose row has just been written by a synchronisation. *)
NoLonger(users) == late' = late \ users

Takes(kind) == left[kind] > 0 /\ left' = [left EXCEPT ![kind] = @ - 1]

-----------------------------------------------------------------------------
(* The bots: methods of Database. *)

(* register_message_user, register_user and their like read the row at every *)
(* message and every button, ...                                             *)
Register(u) ==
  /\ flight[u].pc = "idle" /\ Takes("bot")
  /\ flight' = [flight EXCEPT ![u] = [pc |-> "registering", seen |-> rows[u].key]]
  /\ UNCHANGED <<rows, accounts, owner, subs, requests, sessions, history>>

(* ... VK asks for the user's name, and upsert_user writes back the source   *)
(* that was read.  The bot can reach the user again.                         *)
Write(u) ==
  LET seen == flight[u].seen
      stale == seen \notin {"none", rows[u].key}
  IN /\ flight[u].pc = "registering"
     /\ flight' = [flight EXCEPT ![u] = Idle]
     /\ rows' = [rows EXCEPT ![u] = [@ EXCEPT !.known = TRUE, !.on = rows[u].on \/ rows[u].auto, !.auto = FALSE,
                                              !.key = IF stale THEN seen ELSE rows[u].key,
                                              !.half = IF stale THEN 0 ELSE rows[u].half]]
     /\ late' = IF stale \/ (~rows[u].known /\ owner[u] # NoAccount) THEN late \union {u} ELSE late
     /\ UNCHANGED <<accounts, owner, subs, requests, sessions, left, strayed, raced, contested, joined>>

(* add_subscription for the bots: the account is made if there is none. *)
Subscribe(u, rs, key, asMain) ==
  LET g == GetOrCreate(u, rs)
      main == BecomesMain(g.subs[g.id], key, asMain)
      s == [g.subs EXCEPT ![g.id] = Added(@, key, main)]
  IN /\ CanGet(u)
     /\ accounts' = g.accounts /\ owner' = g.owner /\ subs' = s
     /\ rows' = IF main THEN Synced(rs, g.owner, s[g.id], g.id) ELSE rs
     /\ NoLonger(IF main THEN {v \in Users : g.owner[v] = g.id} ELSE {})
     /\ Stray(s)

(* set_user_subscription: the chosen source becomes the primary one. *)
Choose(u, key) ==
  /\ Takes("bot") /\ rows[u].known /\ TypeOf[key] # "audience"
  /\ Subscribe(u, [rows EXCEPT ![u] = [@ EXCEPT !.key = key, !.half = IF rows[u].half = 1 /\ rows[u].key = key THEN 1 ELSE 0]],
               key, TRUE)
  /\ UNCHANGED <<requests, sessions, flight, raced, contested, joined>>

(* set_user_audience_subscription *)
ChooseRoom(u, key) ==
  /\ Takes("bot") /\ rows[u].known /\ TypeOf[key] = "audience"
  /\ Subscribe(u, [rows EXCEPT ![u].room = key], key, FALSE)
  /\ UNCHANGED <<requests, sessions, flight, raced, contested, joined>>

(* An id is not given twice: a request that has read one of the rows that are *)
(* deleted will not find it again.                                            *)
Dropped(fl, a, keys) ==
  [u \in Users |-> IF fl[u].pc = "row" /\ fl[u].account = a /\ fl[u].key \in keys
                   THEN [fl[u] EXCEPT !.there = FALSE] ELSE fl[u]]

(* Subscriptions of u's account are removed; a primary one brings a *)
(* synchronisation.                                                 *)
Unsubscribe(u, rs, keys) ==
  LET a == owner[u]
      mains == keys \intersect Mains(subs[a])
      s == Removed(subs[a], keys, mains)
  IN IF Exists(a)
     THEN /\ subs' = [subs EXCEPT ![a] = s]
          /\ flight' = Dropped(flight, a, keys)
          /\ rows' = IF mains # {} THEN Synced(rs, owner, s, a) ELSE rs
          /\ NoLonger(IF mains # {} THEN {v \in Users : owner[v] = a} ELSE {})
     ELSE subs' = subs /\ rows' = rs /\ late' = late /\ flight' = flight

(* clear_user_audience_subscription *)
LeaveRoom(u) ==
  /\ Takes("bot") /\ rows[u].known
  /\ Unsubscribe(u, [rows EXCEPT ![u].room = "none"],
                 {k \in DOMAIN subs[owner[u]] : TypeOf[k] = "audience"})
  /\ Stray(subs')
  /\ UNCHANGED <<accounts, owner, requests, sessions, raced, contested, joined>>

(* clear_user_subscription: the next one of the same type is promoted and   *)
(* written back into the row that was just cleared.                         *)
Leave(u) ==
  /\ Takes("bot") /\ rows[u].known
  /\ Unsubscribe(u, [rows EXCEPT ![u] = [@ EXCEPT !.key = "none", !.half = 0, !.room = "none"]],
                 Mains(subs[owner[u]]))
  /\ Stray(subs')
  /\ UNCHANGED <<accounts, owner, requests, sessions, raced, contested, joined>>

(* update_subscription(university_subgroup) of the primary subscription. *)
Halved(s, half) == [s EXCEPT ![Primary(s)].half = half]

(* set_university_subgroup, for the group of the user's row. *)
SetHalf(u, half) ==
  LET a == owner[u]
      rs == [rows EXCEPT ![u].half = half]
  IN /\ Takes("bot") /\ rows[u].key \in University
     /\ IF Exists(a) /\ Mains(subs[a]) # {}
        THEN /\ subs' = [subs EXCEPT ![a] = Halved(@, half)]
             /\ rows' = Synced(rs, owner, subs'[a], a)
             /\ NoLonger({v \in Users : owner[v] = a})
        ELSE subs' = subs /\ rows' = rs /\ late' = late
     /\ UNCHANGED <<accounts, owner, requests, sessions, flight, strayed, raced, contested, joined>>

(* update_preferences, which every identity of the account shares. *)
Preferring(rs, a, on) ==
  /\ accounts' = [accounts EXCEPT ![a] = IF on THEN "on" ELSE "off"]
  /\ rows' = [u \in Users |-> IF rs[u].known /\ owner[u] = a THEN [rs[u] EXCEPT !.on = on] ELSE rs[u]]

(* set_notifications_enabled *)
SetNotifications(u, on) ==
  LET rs == [rows EXCEPT ![u] = [@ EXCEPT !.on = on, !.auto = rows[u].auto /\ ~on]] IN
  /\ Takes("bot") /\ rows[u].known
  /\ IF Exists(owner[u]) THEN Preferring(rs, owner[u], on)
     ELSE accounts' = accounts /\ rows' = rs
  /\ UNCHANGED <<owner, subs, requests, sessions, flight, history>>

(* mark_delivery_auto_disabled and auto_disable_undeliverable_telegram_users. *)
Undeliverable(u) ==
  /\ Takes("bot") /\ rows[u].known
  /\ rows' = [rows EXCEPT ![u] = [@ EXCEPT !.on = FALSE, !.auto = TRUE]]
  /\ UNCHANGED <<accounts, owner, subs, requests, sessions, flight, history>>

(* UPDATE OR IGNORE: a subscription whose account has the new key is left alone. *)
Moves(s, pending, key) == pending \in DOMAIN s /\ key \notin DOMAIN s
Moved(s, pending, key) ==
  IF Moves(s, pending, key)
  THEN [k \in (DOMAIN s \ {pending}) \union {key} |-> IF k = key THEN s[pending] ELSE s[k]]
  ELSE s

(* promote_pending_group_subscription: the pending group has appeared on the *)
(* site.                                                                     *)
PromoteGroup(pending, key) ==
  LET moved == {u \in Users : rows[u].key = pending} IN
  /\ Takes("bot") /\ moved # {}
  /\ rows' = [u \in Users |-> IF u \in moved THEN [rows[u] EXCEPT !.key = key] ELSE rows[u]]
  /\ subs' = [a \in Ids |-> Moved(subs[a], pending, key)]
  /\ flight' = [u \in Users |->
       IF flight[u].pc = "row" /\ flight[u].key = pending /\ flight[u].there
          /\ Moves(subs[flight[u].account], pending, key)
       THEN [flight[u] EXCEPT !.key = key] ELSE flight[u]]
  /\ strayed' = strayed \union {a \in Ids : {pending, key} \subseteq DOMAIN subs[a]}
  /\ UNCHANGED <<accounts, owner, requests, sessions, late, raced, contested, joined>>

(* promote_pending_teacher_subscription leaves account_subscriptions alone. *)
PromoteTeacher(pending, key) ==
  LET moved == {u \in Users : rows[u].key = pending} IN
  /\ Takes("bot") /\ moved # {}
  /\ rows' = [u \in Users |-> IF u \in moved THEN [rows[u] EXCEPT !.key = key] ELSE rows[u]]
  /\ strayed' = strayed \union {owner[u] : u \in moved}
  /\ UNCHANGED <<accounts, owner, subs, requests, sessions, flight, late, raced, contested, joined>>

-----------------------------------------------------------------------------
(* The mini app. *)

(* auth_telegram, auth_vk: launching the mini app, which reopens an account. *)
Login(u) ==
  LET g == GetOrCreate(u, rows) IN
  /\ Takes("login")
  /\ CanGet(u)
  /\ accounts' = g.accounts /\ owner' = g.owner /\ subs' = g.subs
  /\ sessions' = sessions \union {<<u, g.id>>}
  /\ UNCHANGED <<rows, requests, flight, history>>

(* logout, or the session's day is over. *)
SessionEnds(u, a) ==
  /\ Takes("login") /\ <<u, a>> \in sessions
  /\ sessions' = sessions \ {<<u, a>>}
  /\ UNCHANGED <<rows, accounts, owner, subs, requests, flight, history>>

(* authenticate_session: the account of the session has to exist and to have *)
(* the identity.                                                             *)
Authenticate(u) ==
  /\ flight[u].pc = "idle" /\ left.edit + left.link > 0
  /\ \E a \in Ids : /\ <<u, a>> \in sessions /\ Exists(a) /\ owner[u] = a
                    /\ flight' = [flight EXCEPT ![u] = [pc |-> "authenticated", account |-> a]]
  /\ UNCHANGED <<rows, accounts, owner, subs, requests, sessions, left, history>>

Answered(u) == flight' = [flight EXCEPT ![u] = Idle]
At(u, pc) == flight[u].pc = pc

(* PATCH /me/preferences *)
Preferences(u, on) ==
  /\ At(u, "authenticated") /\ Takes("edit") /\ Answered(u)
  /\ IF Exists(flight[u].account) THEN Preferring(rows, flight[u].account, on)
     ELSE UNCHANGED <<rows, accounts>>
  /\ UNCHANGED <<owner, subs, requests, sessions, history>>

(* add_subscription looks for a primary group before it writes. *)
LookAdd(u, key, main) ==
  /\ At(u, "authenticated") /\ Takes("edit")
  /\ flight' = [flight EXCEPT ![u] = [pc |-> "adding", account |-> @.account, key |-> key,
                                      main |-> BecomesMain(subs[@.account], key, main)]]
  /\ UNCHANGED <<rows, accounts, owner, subs, requests, sessions, history>>

(* The account of flight f gets subscriptions s; other requests of its users *)
(* hold what they read.                                                      *)
Synchronised(f, s) ==
  /\ subs' = [subs EXCEPT ![f.account] = s]
  /\ rows' = Synced(rows, owner, s, f.account)
  /\ NoLonger({v \in Users : owner[v] = f.account})

(* POST /me/subscriptions.  An account that is gone fails the assertion at *)
(* the end and nothing is committed.                                       *)
Add(u) ==
  LET f == flight[u]
      s == Added(subs[f.account], f.key, f.main)
  IN /\ At(u, "adding") /\ Answered(u)
     /\ IF ~Exists(f.account) THEN UNCHANGED <<rows, subs, late>>
        ELSE IF f.main THEN Synchronised(f, s)
        ELSE subs' = [subs EXCEPT ![f.account] = s] /\ UNCHANGED <<rows, late>>
     /\ Stray(subs')
     /\ UNCHANGED <<accounts, owner, requests, sessions, left, raced, contested, joined>>

(* update_subscription and remove_subscription look at the row first. *)
LookRow(u, key) ==
  /\ At(u, "authenticated") /\ Takes("edit") /\ key \in DOMAIN subs[flight[u].account]
  /\ flight' = [flight EXCEPT ![u] = [pc |-> "row", account |-> @.account, key |-> key, there |-> TRUE,
                                      main |-> subs[@.account][key].main]]
  /\ UNCHANGED <<rows, accounts, owner, subs, requests, sessions, history>>

(* Whether the row is primary is not what this request read. *)
OldWord(u) ==
  LET f == flight[u]
      main == f.there /\ f.key \in Mains(subs[f.account])
  IN raced' = IF main = f.main THEN raced ELSE raced \union {f.account}

(* PATCH /me/subscriptions/{id}: the subscription becomes the primary one.   *)
(* Nothing is committed for a row that is not there any more.                *)
MakeMain(u) ==
  LET f == flight[u]
      t == IF f.main THEN subs[f.account] ELSE Demoted(subs[f.account], f.key)
  IN /\ At(u, "row") /\ Answered(u) /\ OldWord(u)
     /\ IF Exists(f.account) /\ f.there THEN Synchronised(f, [t EXCEPT ![f.key].main = TRUE])
        ELSE UNCHANGED <<rows, subs, late>>
     /\ Stray(subs')
     /\ UNCHANGED <<accounts, owner, requests, sessions, left, contested, joined>>

(* PATCH /me/subscriptions/{id}: its notifications. *)
Mute(u, on) ==
  LET f == flight[u] IN
  /\ At(u, "row") /\ Answered(u)
  /\ subs' = IF Exists(f.account) /\ f.there THEN [subs EXCEPT ![f.account][f.key].on = on] ELSE subs
  /\ UNCHANGED <<rows, accounts, owner, requests, sessions, left, history>>

(* DELETE /me/subscriptions/{id} *)
RemoveSub(u) ==
  LET f == flight[u]
      keys == IF f.there THEN {f.key} ELSE {}
      s == Removed(subs[f.account], keys, IF f.main THEN {f.key} ELSE {})
  IN /\ At(u, "row") /\ OldWord(u)
     /\ flight' = [Dropped(flight, f.account, keys) EXCEPT ![u] = Idle]
     /\ IF f.main THEN Synchronised(f, s)
        ELSE subs' = [subs EXCEPT ![f.account] = s] /\ UNCHANGED <<rows, late>>
     /\ Stray(subs')
     /\ UNCHANGED <<accounts, owner, requests, sessions, left, contested, joined>>

-----------------------------------------------------------------------------
(* Linking two accounts. *)

(* POST /account-links *)
CreateLink(u, t) ==
  /\ At(u, "authenticated") /\ Takes("link") /\ Answered(u)
  /\ requests[t].state = "none"
  /\ requests' = [requests EXCEPT ![t] = [state |-> "open", account |-> flight[u].account]]
  /\ UNCHANGED <<rows, accounts, owner, subs, sessions, history>>

(* The link request has expired. *)
LinkExpires(t) ==
  /\ requests[t].state = "open"
  /\ requests' = [requests EXCEPT ![t].state = "over"]
  /\ UNCHANGED <<rows, accounts, owner, subs, sessions, flight, left, history>>

(* confirm_link reads the request and the identity's account, and nothing is *)
(* written yet.                                                              *)
LookLink(u, t) ==
  /\ At(u, "authenticated") /\ Takes("link") /\ requests[t].state = "open"
  /\ owner[u] # requests[t].account
  /\ flight' = [flight EXCEPT ![u] = [pc |-> "linking", account |-> owner[u], token |-> t]]
  /\ contested' = IF \E v \in Users \ {u} : At(v, "linking") /\ flight[v].token = t
                  THEN contested \union {t} ELSE contested
  /\ UNCHANGED <<rows, accounts, owner, subs, requests, sessions, strayed, late, raced, joined>>

(* The initiator's subscriptions `mine` and some of the target's account, *)
(* which stay primary if the target's choice counts.                      *)
Joint(mine, theirs, extra, choice) ==
  [k \in DOMAIN mine \union extra |->
     IF k \in extra THEN [theirs[k] EXCEPT !.main = @ /\ choice = "target", !.id = LastId(mine) + @] ELSE mine[k]]

(* Mutant: the merge stops at the first subscription both accounts have. *)
MergedToFirst(mine, theirs, choice) ==
  LET common == DOMAIN theirs \intersect DOMAIN mine IN
  Joint(mine, theirs, {k \in DOMAIN theirs \ common : \A l \in common : theirs[k].id < theirs[l].id}, choice)

(* Those it does not have are added; with "target" chosen the target's *)
(* primary one becomes the only primary group.                         *)
Merged(mine, theirs, choice) ==
  LET all == Joint(mine, theirs, DOMAIN theirs \ DOMAIN mine, choice) IN
  IF choice = "target" /\ Mains(theirs) # {}
  THEN [k \in DOMAIN all |-> IF TypeOf[k] = "group" THEN [all[k] EXCEPT !.main = k = Primary(theirs)] ELSE all[k]]
  ELSE all

(* Linking writes: everyone of the target's account joins the initiator's. *)
Join(u, choice, state) ==
  LET f == flight[u]
      a == requests[f.token].account
      movers == {v \in Users : owner[v] = f.account}
      s == Merged(subs[a], subs[f.account], choice)
  IN /\ At(u, "linking") /\ Answered(u)
     /\ Exists(f.account)
     /\ owner' = [v \in Users |-> IF v \in movers THEN a ELSE owner[v]]
     /\ subs' = [subs EXCEPT ![a] = s]
     /\ rows' = Synced(rows, owner', s, a)
     /\ NoLonger({v \in Users : owner'[v] = a})
     /\ requests' = [requests EXCEPT ![f.token].state = state]
     /\ accounts' = [accounts EXCEPT ![f.account] = "gone"]
     /\ joined' = [joined EXCEPT ![f.token] = @ \union {f.account}]
     /\ Stray(subs')
     /\ UNCHANGED <<sessions, left, raced, contested>>

(* Mutant: the request is not marked as used. *)
JoinAgain(u, choice) == Join(u, choice, requests[flight[u].token].state)

(* POST /account-links/confirm.  Neither that the request is still unused nor *)
(* that the initiator's account is still there is looked at again.            *)
Confirm(u, choice) == Join(u, choice, "over")

(* The target's account has gone in the meantime: RuntimeError. *)
ConfirmFails(u) ==
  /\ At(u, "linking") /\ ~Exists(flight[u].account) /\ Answered(u)
  /\ UNCHANGED <<rows, accounts, owner, subs, requests, sessions, left, history>>

(* unlink_identity reads the account: whom it takes out and what is copied. *)
LookUnlink(u, platform) ==
  LET a == flight[u].account
      there == {v \in Users : owner[v] = a /\ PlatformOf[v] = platform}
  IN /\ At(u, "authenticated") /\ Takes("link") /\ Exists(a) /\ there # {}
     /\ Cardinality({v \in Users : owner[v] = a}) > 1
     /\ flight' = [flight EXCEPT ![u] = [pc |-> "unlinking", account |-> a, who |-> Min(there),
                                         copy |-> Copied(subs[a]), on |-> accounts[a]]]
     /\ UNCHANGED <<rows, accounts, owner, subs, requests, sessions, history>>

(* Mutant: the identity goes, its new account is not made. *)
UnlinkBare(u) ==
  LET f == flight[u] IN
  /\ At(u, "unlinking") /\ CanCreate /\ Answered(u)
  /\ owner' = [owner EXCEPT ![f.who] = Fresh]
  /\ subs' = [subs EXCEPT ![Fresh] = f.copy]
  /\ sessions' = {s \in sessions : s[1] # f.who}
  /\ Stray(subs')
  /\ UNCHANGED <<rows, accounts, requests, left, late, raced, contested, joined>>

(* The identity still has the account that was read, with the same primary *)
(* subscriptions.                                                          *)
AsCopied(f) ==
  Exists(f.account) /\ owner[f.who] = f.account /\ Mains(f.copy) = Mains(subs[f.account])

(* DELETE /me/identities/{platform} *)
Unlink(u) ==
  LET f == flight[u] IN
  /\ At(u, "unlinking") /\ CanCreate /\ Answered(u)
  /\ accounts' = [accounts EXCEPT ![Fresh] = f.on]
  /\ owner' = [owner EXCEPT ![f.who] = Fresh]
  /\ subs' = [subs EXCEPT ![Fresh] = f.copy]
  /\ sessions' = {s \in sessions : s[1] # f.who}
  /\ raced' = IF AsCopied(f) /\ f.account \notin raced THEN raced ELSE raced \union {Fresh}
  /\ strayed' = IF Cardinality(Mains(f.copy)) <= 1 /\ f.account \notin strayed THEN strayed
                ELSE strayed \union {Fresh}
  /\ UNCHANGED <<rows, requests, left, late, contested, joined>>

(* The request finds nothing to do: 400 or 404. *)
Refused(u) ==
  /\ At(u, "authenticated") /\ Answered(u)
  /\ UNCHANGED <<rows, accounts, owner, subs, requests, sessions, left, history>>

-----------------------------------------------------------------------------
(* get_users_for_notifications: users whose row has the source, and those of *)
(* accounts that have it beside their primary subscription.                  *)
Active(a) == Exists(a) /\ accounts[a] = "on"
Recipients(platform, key) ==
  {u \in Users : /\ PlatformOf[u] = platform /\ rows[u].known /\ ~rows[u].auto
                 /\ \/ rows[u].key = key /\ rows[u].on
                    \/ /\ Active(owner[u])
                       /\ key \in DOMAIN subs[owner[u]] /\ ~subs[owner[u]][key].main /\ subs[owner[u]][key].on}

-----------------------------------------------------------------------------
LinkChoices == {"initiator", "target"}

Bot(u) ==
  \/ Register(u) \/ Write(u) \/ LeaveRoom(u) \/ Leave(u) \/ Undeliverable(u)
  \/ \E k \in Keys : Choose(u, k) \/ ChooseRoom(u, k)
  \/ \E h \in 0 .. 1 : SetHalf(u, h)
  \/ \E on \in BOOLEAN : SetNotifications(u, on)

Promotion ==
  \/ \E p \in PendingGroup : PromoteGroup(p[1], p[2])
  \/ \E p \in PendingTeacher : PromoteTeacher(p[1], p[2])

MiniApp(u) ==
  \/ Login(u) \/ Authenticate(u) \/ Refused(u)
  \/ \E a \in Ids : SessionEnds(u, a)
  \/ \E on \in BOOLEAN : Preferences(u, on) \/ Mute(u, on)
  \/ \E k \in Keys : (\E main \in BOOLEAN : LookAdd(u, k, main)) \/ LookRow(u, k)
  \/ Add(u) \/ MakeMain(u) \/ RemoveSub(u)
  \/ \E t \in Tokens : CreateLink(u, t) \/ LookLink(u, t)
  \/ \E c \in LinkChoices : Confirm(u, c)
  \/ ConfirmFails(u)
  \/ \E p \in Range(PlatformOf) : LookUnlink(u, p)
  \/ Unlink(u)

Next ==
  \/ \E u \in Users : Bot(u) \/ MiniApp(u)
  \/ \E t \in Tokens : LinkExpires(t)
  \/ Promotion

Spec == Init /\ [][Next]_vars

-----------------------------------------------------------------------------
(* One at most of an account's groups is its primary one, unless a request   *)
(* acted on a subscription another one had changed since it was read         *)
(* (account_service.py:348, :401 read before they write).                    *)
OneMainGroup ==
  \A a \in Ids \ raced : Cardinality(MainGroups(subs[a])) <= 1

(* Who can be reached is notified of the account's primary subscription and  *)
(* of its others that are not muted, and of nothing else: the row the bots   *)
(* and list_users read follows every change on either platform, every link,  *)
(* unlink and promotion.  Not so for accounts that had two primary ones, and *)
(* for rows made after the account or written back by a handler that had     *)
(* read them before they changed.                                            *)
NotifiedAsSubscribed ==
  \A u \in Users : rows[u].known /\ rows[u].on /\ ~rows[u].auto /\ Active(owner[u]) =>
    \/ u \in late \/ owner[u] \in strayed \union raced
    \/ {k \in Keys : u \in Recipients(PlatformOf[u], k)} =
         {k \in DOMAIN subs[owner[u]] : subs[owner[u]][k].main \/ subs[owner[u]][k].on}

(* The account of an identity exists, unless its account was merged into one *)
(* that was itself gone when the other side confirmed (:534, :552): nothing  *)
(* removes the link requests of a deleted account.                           *)
IdentityHasAccount ==
  \A u \in Users : owner[u] # NoAccount /\ ~Exists(owner[u]) =>
    \E t \in Tokens : joined[t] # {} /\ ~Exists(requests[t].account)

(* A link request joins one account, unless two confirmations of it were    *)
(* under way at once: it is marked as used without asking (:605).           *)
OneLinkPerToken ==
  \A t \in Tokens \ contested : Cardinality(joined[t]) <= 1

(* Linking loses no subscription of either account (:556-584). *)
LinkKeepsAll ==
  [][\A u \in Users, c \in LinkChoices : Confirm(u, c) =>
       LET a == requests[flight[u].token].account IN
       DOMAIN subs[a] \union DOMAIN subs[flight[u].account] \subseteq DOMAIN subs'[a]]_vars

(* docs/miniapp-development-plan.md:115: a source chosen in a bot becomes the *)
(* primary subscription, which is what the bot then shows (db.py:653-702).    *)
ChosenIsShown ==
  [][\A u \in Users, k \in Keys : Choose(u, k) => rows'[u].key = k]_vars
=============================================================================
