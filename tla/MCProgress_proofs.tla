-------------------------- MODULE MCProgress_proofs --------------------------
(***************************************************************************)
(* What MCProgress checks of its parts, for every value of its constants:  *)
(* no change of a teacher's groups is forgotten, the callers of a delivery *)
(* are counted, one client of Gemini is watched and signed in with the     *)
(* newest cookies, no update of Telegram is missed, a reply in VK is shown *)
(* whole and in order, and an update of the database leaves nobody behind. *)
(***************************************************************************)
EXTENDS MCProgress, FiniteSetTheorems, SequenceTheorems, WellFoundedInduction, NaturalsInduction, TLAPS

(* The parts stand still or take a step of their own. *)
LEMMA EachPart ==
  ASSUME [ProgressNext]_allVars
  PROVE  /\ [Teachers!Next]_teacherVars /\ [Waits!Next]_waitVars /\ [Gemini!Next]_geminiVars
         /\ [Telegram!Next]_telegramVars /\ [Reply!Next]_replyVars /\ [Upgrade!Next]_upgradeVars
  BY DEF ProgressNext, OfVk, OfTeachers, OfWaiters, OfGemini, OfTelegram, OfReply, OfUpgrade, allVars

LEMMA EachStart ==
  ASSUME ProgressInit
  PROVE  Teachers!Init /\ Waits!Init /\ Gemini!Init /\ Telegram!Init /\ Reply!Init /\ Upgrade!Init
  BY DEF ProgressInit

-----------------------------------------------------------------------------
(* Passes over teachers *)

TeachersInv ==
  /\ version \in [Tutors -> Nat] /\ affected \in [Tutors -> Nat]
  /\ timer \in [Tutors -> {"none", "sleeping", "reading", "delivering"}]
  /\ teacherSeen \in [Tutors -> Nat]
  /\ Teachers!NoChangeForgotten

(* The pass over t is over, as it was wanted or not. *)
LEMMA PassOver ==
  ASSUME TeachersInv, NEW t \in Tutors, Teachers!Over(t), timer[t] \in {"reading", "delivering"},
         t \in rerun \/ t \in left' \/ timer[t] = "delivering",
         left \subseteq left', UNCHANGED <<version, affected, teacherSeen>>
  PROVE  TeachersInv'
<1>1. /\ timer' \in [Tutors -> {"none", "sleeping", "reading", "delivering"}]
      /\ timer'[t] = (IF t \in rerun THEN "sleeping" ELSE "none")
      /\ \A u \in Tutors \ {t} : timer'[u] = timer[u] /\ (u \in rerun => u \in rerun')
  BY DEF Teachers!Over, TeachersInv
<1>2. Teachers!NoChangeForgotten'
  BY <1>1 DEF TeachersInv, Teachers!NoChangeForgotten
<1>3. QED BY <1>1, <1>2 DEF TeachersInv

LEMMA TeachersStep == TeachersInv /\ [Teachers!Next]_teacherVars => TeachersInv'
<1>. SUFFICES ASSUME TeachersInv, [Teachers!Next]_teacherVars PROVE TeachersInv'
  OBVIOUS
<1>1. ASSUME NEW t \in Tutors, Teachers!GroupChanges(t) PROVE TeachersInv'
  <2>1. /\ version' \in [Tutors -> Nat] /\ affected' \in [Tutors -> Nat] /\ affected'[t] > 0
        /\ \A u \in Tutors \ {t} : version'[u] = version[u] /\ affected'[u] = affected[u]
    BY <1>1 DEF Teachers!GroupChanges, TeachersInv
  <2>2. UNCHANGED <<timer, rerun, teacherSeen, left>>
    BY <1>1 DEF Teachers!GroupChanges
  <2>3. Teachers!NoChangeForgotten'
    BY <2>1, <2>2 DEF TeachersInv, Teachers!NoChangeForgotten
  <2>4. QED BY <2>1, <2>2, <2>3 DEF TeachersInv
<1>2. ASSUME NEW t \in Tutors, Teachers!Schedule(t) PROVE TeachersInv'
  <2>1. /\ affected' \in [Tutors -> Nat] /\ \A u \in Tutors \ {t} : affected'[u] = affected[u]
        /\ UNCHANGED <<version, teacherSeen>> /\ left' = left \ {t}
    BY <1>2 DEF Teachers!Schedule, TeachersInv
  <2>2. /\ timer' \in [Tutors -> {"none", "sleeping", "reading", "delivering"}]
        /\ t \in rerun' \/ timer'[t] = "sleeping"
        /\ \A u \in Tutors \ {t} : timer'[u] = timer[u] /\ (u \in rerun => u \in rerun')
    BY <1>2 DEF Teachers!Schedule, Teachers!TimerSet, TeachersInv
  <2>3. Teachers!NoChangeForgotten'
    BY <2>1, <2>2 DEF TeachersInv, Teachers!NoChangeForgotten
  <2>4. QED BY <2>1, <2>2, <2>3 DEF TeachersInv
<1>3. ASSUME NEW t \in Tutors, Teachers!Elapses(t) \/ Teachers!Reads(t) PROVE TeachersInv'
  <2>1. /\ timer' \in [Tutors -> {"none", "sleeping", "reading", "delivering"}]
        /\ teacherSeen' \in [Tutors -> Nat]
        /\ timer'[t] = "reading" \/ teacherSeen'[t] = version[t]
        /\ \A u \in Tutors \ {t} : timer'[u] = timer[u] /\ teacherSeen'[u] = teacherSeen[u]
        /\ UNCHANGED <<version, affected, rerun, left>>
    BY <1>3 DEF Teachers!Elapses, Teachers!Reads, TeachersInv
  <2>2. Teachers!NoChangeForgotten'
    BY <2>1 DEF TeachersInv, Teachers!NoChangeForgotten
  <2>3. QED BY <2>1, <2>2 DEF TeachersInv
<1>4. ASSUME NEW t \in Tutors, Teachers!Ends(t) PROVE TeachersInv'
  BY <1>4, PassOver DEF Teachers!Ends
<1>5. ASSUME NEW t \in Tutors, Teachers!PassFails(t) PROVE TeachersInv'
  BY <1>5, PassOver DEF Teachers!PassFails, Teachers!Running
<1>6. CASE UNCHANGED teacherVars
  BY <1>6 DEF TeachersInv, Teachers!NoChangeForgotten, teacherVars
<1>7. QED BY <1>1, <1>2, <1>3, <1>4, <1>5, <1>6 DEF Teachers!Next

LEMMA TeachersStart == Teachers!Init => TeachersInv
  BY DEF Teachers!Init, TeachersInv, Teachers!NoChangeForgotten

-----------------------------------------------------------------------------
(* The callers of a delivery *)

Inside == {w \in Waiters : waiter[w] # "out"}

WaitersInv ==
  /\ waiter \in [Waiters -> {"out", "clearing", "reading", "asleep"}]
  /\ Waits!EntryKept

LEMMA EntryIs ==
  /\ Waits!EntryKept <=> references = Cardinality(Inside)
  /\ Waits!EntryKept' <=> references' = Cardinality(Inside')
<1>1. Inside = {w \in Waiters : waiter[w] # "out"} /\ Inside' = {w \in Waiters : waiter'[w] # "out"}
  BY DEF Inside
<1>2. \A S : Waits!Cardinality(S) = Cardinality(S)
  BY DEF Waits!Cardinality, Cardinality
<1>3. QED BY <1>1, <1>2 DEF Waits!EntryKept

LEMMA InsideIsFinite == IsFiniteSet(Inside) /\ IsFiniteSet(Inside')
  BY ProgressAssumption, FS_Subset DEF Inside

LEMMA StillInside ==
  ASSUME WaitersInv, NEW w \in Waiters, NEW to \in {"clearing", "reading", "asleep"},
         Waits!Goes(w, to), waiter[w] # "out", references' = references
  PROVE  WaitersInv'
<1>1. waiter' \in [Waiters -> {"out", "clearing", "reading", "asleep"}] /\ Inside' = Inside
  BY DEF Waits!Goes, WaitersInv, Inside
<1>2. QED BY <1>1 DEF WaitersInv, Waits!EntryKept, Inside

LEMMA WaiterLeaves ==
  ASSUME WaitersInv, NEW w \in Waiters, Waits!Goes(w, "out"), waiter[w] # "out", Waits!EntryLeft
  PROVE  WaitersInv'
<1>1. waiter' \in [Waiters -> {"out", "clearing", "reading", "asleep"}] /\ Inside' = Inside \ {w} /\ w \in Inside
  BY DEF Waits!Goes, WaitersInv, Inside
<1>2. Cardinality(Inside') = Cardinality(Inside) - 1
  BY <1>1, InsideIsFinite, FS_RemoveElement
<1>3. QED BY <1>1, <1>2, EntryIs DEF WaitersInv, Waits!EntryLeft

LEMMA WaitersStep == WaitersInv /\ [Waits!Next]_waitVars => WaitersInv'
<1>. SUFFICES ASSUME WaitersInv, [Waits!Next]_waitVars PROVE WaitersInv'
  OBVIOUS
<1>1. ASSUME NEW w \in Waiters, Waits!Enter(w) PROVE WaitersInv'
  <2>1. /\ waiter' \in [Waiters -> {"out", "clearing", "reading", "asleep"}]
        /\ Inside' = Inside \cup {w} /\ w \notin Inside
    BY <1>1 DEF Waits!Enter, Waits!Goes, WaitersInv, Inside
  <2>2. Cardinality(Inside') = Cardinality(Inside) + 1 /\ references' = references + 1
    BY <1>1, <2>1, InsideIsFinite, FS_AddElement DEF Waits!Enter
  <2>3. QED BY <2>1, <2>2, EntryIs DEF WaitersInv
<1>2. ASSUME NEW w \in Waiters, \/ Waits!Clear(w) \/ Waits!Sleeps(w) \/ Waits!Wakes(w) \/ Waits!LooksAgain(w)
      PROVE  WaitersInv'
  BY <1>2, StillInside DEF Waits!Clear, Waits!Sleeps, Waits!Wakes, Waits!LooksAgain, Waits!Timeout
<1>3. ASSUME NEW w \in Waiters, Waits!Answered(w) \/ Waits!Cancelled(w) PROVE WaitersInv'
  BY <1>3, WaiterLeaves DEF Waits!Answered, Waits!Cancelled
<1>4. CASE \/ Waits!SettledHere \/ Waits!SettledElsewhere \/ Waits!Purged \/ Waits!PumpLooks \/ Waits!PumpStops
           \/ UNCHANGED waitVars
  <2>1. UNCHANGED <<references, waiter>>
    BY <1>4 DEF Waits!SettledHere, Waits!SettledElsewhere, Waits!Purged, Waits!PumpLooks, Waits!PumpStops, waitVars
  <2>2. QED BY <2>1 DEF WaitersInv, Waits!EntryKept
<1>5. QED BY <1>1, <1>2, <1>3, <1>4 DEF Waits!Next

LEMMA WaitersStart == Waits!Init => WaitersInv
<1>. SUFFICES ASSUME Waits!Init PROVE WaitersInv
  OBVIOUS
<1>1. waiter \in [Waiters -> {"out", "clearing", "reading", "asleep"}] /\ Inside = {} /\ references = 0
  BY DEF Waits!Init, Inside
<1>2. QED BY <1>1, EntryIs, FS_EmptySet DEF WaitersInv

-----------------------------------------------------------------------------
(* The session with Gemini *)

SigningIn == {"probing", "login", "installing"}
RequestSet ==
  [step : {"rest", "waiting", "generating"} \cup SigningIn, client : {0} \cup Gemini!Clients, try : Nat, pro : BOOLEAN]
TaskSet == [step : {"none", "asleep", "writing", "cancelled"}, carried : Nat]

SessionInv ==
  /\ requests \in [Requests -> RequestSet]
  /\ client \in {0} \cup Gemini!Clients
  /\ \A r \in Requests : requests[r].step = "installing" => requests[r].client \in Gemini!Clients
  /\ Gemini!OneSignIn
  /\ syncs \in [Gemini!Clients -> TaskSet]
  /\ Gemini!ClientIsWatched

(* The newest cookies are in the file, unless it was spoiled. *)
CookiesInv ==
  /\ latest \in Nat /\ env \in Nat /\ cookies \in Nat
  /\ jar \in [Gemini!Clients -> Nat]
  /\ env = latest \/ spoiled = TRUE

(* The request r takes a step. *)
Steps(r) ==
  /\ requests' \in [Requests -> RequestSet]
  /\ \A q \in Requests \ {r} : requests'[q] = requests[q]

LEMMA RequestSteps ==
  ASSUME SessionInv, NEW r \in Requests, NEW q \in RequestSet, requests' = [requests EXCEPT ![r] = q]
  PROVE  Steps(r) /\ requests'[r] = q
  BY DEF SessionInv, Steps

LEMMA RequestGoes ==
  ASSUME SessionInv, NEW r \in Requests, NEW s \in {"rest", "waiting", "generating"} \cup SigningIn, Gemini!Goes(r, s)
  PROVE  Steps(r) /\ requests'[r].step = s /\ requests'[r].client = requests[r].client
<1>1. PICK q : q = [requests[r] EXCEPT !.step = s, !.try = 0]
  OBVIOUS
<1>2. q \in RequestSet /\ q.step = s /\ q.client = requests[r].client
  BY <1>1 DEF SessionInv, RequestSet
<1>3. requests' = [requests EXCEPT ![r] = q]
  BY <1>1 DEF Gemini!Goes, SessionInv, RequestSet
<1>4. QED BY <1>2, <1>3, RequestSteps

LEMMA RequestEnds ==
  ASSUME SessionInv, NEW r \in Requests, Gemini!Ends(r)
  PROVE  Steps(r) /\ requests'[r].step = "rest"
<1>1. Gemini!Rest \in RequestSet /\ Gemini!Rest.step = "rest"
  BY DEF Gemini!Rest, RequestSet
<1>2. QED BY <1>1, RequestSteps DEF Gemini!Ends

LEMMA RequestRetries ==
  ASSUME SessionInv, NEW r \in Requests, NEW n \in Nat, requests' = [requests EXCEPT ![r].try = n]
  PROVE  Steps(r) /\ requests'[r].step = requests[r].step /\ requests'[r].client = requests[r].client
<1>1. PICK q : q = [requests[r] EXCEPT !.try = n]
  OBVIOUS
<1>2. q \in RequestSet /\ q.step = requests[r].step /\ q.client = requests[r].client
  BY <1>1 DEF SessionInv, RequestSet
<1>3. requests' = [requests EXCEPT ![r] = q]
  BY <1>1 DEF SessionInv, RequestSet
<1>4. QED BY <1>2, <1>3, RequestSteps

(* The request r signs in no longer, or goes on with it; the client is as it was. *)
LEMMA SessionGoesOn ==
  ASSUME SessionInv, NEW r \in Requests, Steps(r), UNCHANGED <<client, syncs>>,
         \/ requests'[r].step \notin SigningIn /\ lock' = lock
         \/ requests'[r].step \notin SigningIn /\ requests[r].step \in SigningIn /\ lock' = {}
         \/ requests[r].step \in SigningIn /\ lock' = lock,
         requests'[r].step = "installing" => requests'[r].client \in Gemini!Clients
  PROVE  SessionInv'
<1>1. \A q \in Requests \ {r} : requests'[q].step \in SigningIn => client = 0 /\ lock = {q} /\ lock' = lock
  BY DEF SessionInv, Steps, Gemini!OneSignIn, SigningIn
<1>2. requests'[r].step \in SigningIn => client = 0 /\ lock' = {r}
  BY DEF SessionInv, Gemini!OneSignIn, SigningIn
<1>3. Gemini!OneSignIn'
  BY <1>1, <1>2 DEF Gemini!OneSignIn, SigningIn
<1>4. QED BY <1>3 DEF SessionInv, Steps, Gemini!ClientIsWatched

LEMMA SessionStep == SessionInv /\ CookiesInv /\ [Gemini!Next]_geminiVars => SessionInv'
<1>. SUFFICES ASSUME SessionInv, CookiesInv, [Gemini!Next]_geminiVars PROVE SessionInv'
  OBVIOUS
<1>1. ASSUME NEW r \in Requests, Gemini!Begin(r) \/ Gemini!Join(r) PROVE SessionInv'
  <2>1. PICK s \in {"waiting", "generating"} : requests' = [requests EXCEPT ![r].step = s, ![r].client = client]
    BY <1>1 DEF Gemini!Begin, Gemini!Join
  <2>2. PICK q : q = [requests[r] EXCEPT !.step = s, !.client = client]
    OBVIOUS
  <2>3. q \in RequestSet /\ q.step = s
    BY <2>2 DEF SessionInv, RequestSet
  <2>4. requests' = [requests EXCEPT ![r] = q]
    BY <2>1, <2>2 DEF SessionInv, RequestSet
  <2>5. Steps(r) /\ requests'[r].step = s /\ UNCHANGED <<client, syncs, lock>>
    BY <1>1, <2>3, <2>4, RequestSteps DEF Gemini!Begin, Gemini!Join, Gemini!Session
  <2>6. QED BY <2>5, SessionGoesOn DEF SigningIn
<1>2. ASSUME NEW r \in Requests, Gemini!SignIn(r) PROVE SessionInv'
  <2>1. /\ Steps(r) /\ requests'[r].step = "probing" /\ UNCHANGED <<client, syncs>>
        /\ client = 0 /\ lock = {} /\ lock' = {r}
    BY <1>2, RequestGoes DEF Gemini!SignIn, SigningIn, Gemini!AlreadyThere, Gemini!Session
  <2>2. \A q \in Requests \ {r} : requests'[q].step \notin SigningIn
    BY <2>1 DEF SessionInv, Gemini!OneSignIn, Steps, SigningIn
  <2>3. Gemini!OneSignIn'
    BY <2>1, <2>2 DEF Gemini!OneSignIn, SigningIn
  <2>4. QED BY <2>1, <2>3 DEF SessionInv, Steps, Gemini!ClientIsWatched
<1>3. ASSUME NEW r \in Requests, \/ Gemini!Transient(r, "probing") \/ Gemini!Transient(r, "generating")
                                 \/ Gemini!StaleCache(r)
      PROVE  SessionInv'
  <2>1. requests[r].try + 1 \in Nat /\ 1 \in Nat
    BY DEF SessionInv, RequestSet
  <2>2. \E n \in Nat : requests' = [requests EXCEPT ![r].try = n]
    BY <1>3, <2>1 DEF Gemini!Transient, Gemini!StaleCache, SessionInv
  <2>3. /\ Steps(r) /\ requests'[r].step = requests[r].step /\ UNCHANGED <<client, syncs, lock>>
        /\ requests[r].step # "installing"
    BY <1>3, <2>2, RequestRetries DEF Gemini!Transient, Gemini!StaleCache, Gemini!Session
  <2>4. QED BY <2>3, SessionGoesOn
<1>4. ASSUME NEW r \in Requests, Gemini!Probed(r) PROVE SessionInv'
  <2>1. /\ Steps(r) /\ requests'[r].step = "login" /\ requests[r].step \in SigningIn
        /\ UNCHANGED <<client, syncs, lock>>
    BY <1>4, RequestGoes DEF Gemini!Probed, SigningIn, Gemini!Session
  <2>2. QED BY <2>1, SessionGoesOn
<1>5. ASSUME NEW r \in Requests, Gemini!SignInFails(r) \/ Gemini!GenerationFails(r) PROVE SessionInv'
  <2>1. /\ Steps(r) /\ requests'[r].step = "rest" /\ UNCHANGED <<client, syncs>>
        /\ lock' = lock \/ (requests[r].step \in SigningIn /\ lock' = {})
    BY <1>5, RequestEnds DEF Gemini!SignInFails, Gemini!GenerationFails, SigningIn, Gemini!Session
  <2>2. QED BY <2>1, SessionGoesOn DEF SigningIn
<1>6. ASSUME NEW r \in Requests, NEW c \in Gemini!Clients, Gemini!LogsIn(r, c) PROVE SessionInv'
  <2>1. PICK q : q = [requests[r] EXCEPT !.step = "installing", !.client = c, !.try = 0]
    OBVIOUS
  <2>2. q \in RequestSet /\ q.step = "installing" /\ q.client = c
    BY <2>1 DEF SessionInv, RequestSet, SigningIn
  <2>3. requests' = [requests EXCEPT ![r] = q]
    BY <1>6, <2>1 DEF Gemini!LogsIn, SessionInv, RequestSet
  <2>4. /\ Steps(r) /\ requests'[r] = q /\ requests[r].step \in SigningIn /\ UNCHANGED <<client, syncs, lock>>
    BY <1>6, <2>2, <2>3, RequestSteps DEF Gemini!LogsIn, SigningIn
  <2>5. QED BY <2>2, <2>4, SessionGoesOn
<1>7. ASSUME NEW r \in Requests, Gemini!Install(r) PROVE SessionInv'
  <2>1. PICK c \in Gemini!Clients : c = requests[r].client
    BY <1>7 DEF Gemini!Install, SessionInv
  <2>2. /\ Steps(r) /\ requests'[r].step = "generating" /\ lock = {r}
    BY <1>7, RequestGoes DEF Gemini!Install, SessionInv, Gemini!OneSignIn
  <2>3. \A q \in Requests : requests'[q].step \notin SigningIn
    BY <2>2 DEF SessionInv, Gemini!OneSignIn, Steps, SigningIn
  <2>4. client' = c /\ syncs' = [syncs EXCEPT ![c] = [step |-> "asleep", carried |-> 0]]
    BY <1>7, <2>1 DEF Gemini!Install
  <2>5. [step |-> "asleep", carried |-> 0] \in TaskSet
    BY DEF TaskSet
  <2>6. syncs' \in [Gemini!Clients -> TaskSet] /\ syncs'[c].step = "asleep"
    BY <2>4, <2>5 DEF SessionInv
  <2>7. Gemini!OneSignIn'
    BY <2>3 DEF Gemini!OneSignIn, SigningIn
  <2>8. QED BY <2>2, <2>3, <2>4, <2>6, <2>7 DEF SessionInv, Steps, Gemini!ClientIsWatched, SigningIn
<1>8. ASSUME NEW r \in Requests, Gemini!Generated(r) PROVE SessionInv'
  <2>1. CASE Gemini!Ends(r)
    <3>1. Steps(r) /\ requests'[r].step = "rest" /\ UNCHANGED <<client, syncs, lock>>
      BY <1>8, <2>1, RequestEnds DEF Gemini!Generated, Gemini!Session
    <3>2. QED BY <3>1, SessionGoesOn DEF SigningIn
  <2>2. CASE requests' = [requests EXCEPT ![r].pro = TRUE, ![r].try = 0]
    <3>1. PICK q : q = [requests[r] EXCEPT !.pro = TRUE, !.try = 0]
      OBVIOUS
    <3>2. q \in RequestSet /\ q.step = "generating"
      BY <1>8, <3>1 DEF SessionInv, RequestSet, Gemini!Generated
    <3>3. requests' = [requests EXCEPT ![r] = q]
      BY <2>2, <3>1 DEF SessionInv, RequestSet
    <3>4. Steps(r) /\ requests'[r].step = "generating" /\ UNCHANGED <<client, syncs, lock>>
      BY <1>8, <3>2, <3>3, RequestSteps DEF Gemini!Generated, Gemini!Session
    <3>5. QED BY <3>4, SessionGoesOn DEF SigningIn
  <2>3. QED BY <1>8, <2>1, <2>2 DEF Gemini!Generated
<1>9. ASSUME NEW r \in Requests, Gemini!Refused(r) PROVE SessionInv'
  <2>1. Steps(r) /\ requests'[r].step = "rest" /\ client' = 0 /\ lock' = lock
    BY <1>9, RequestEnds DEF Gemini!Refused
  <2>2. Gemini!OneSignIn'
    BY <2>1 DEF SessionInv, Gemini!OneSignIn, Steps
  <2>3. syncs' \in [Gemini!Clients -> TaskSet]
    BY <1>9 DEF Gemini!Refused, Gemini!Cancelled, SessionInv, TaskSet, Gemini!NoTask
  <2>4. QED BY <2>1, <2>2, <2>3 DEF SessionInv, Steps, Gemini!ClientIsWatched, SigningIn
<1>10. ASSUME NEW c \in Gemini!Clients, Gemini!SignedOut(c) \/ Gemini!Rotate(c) PROVE SessionInv'
  BY <1>10 DEF Gemini!SignedOut, Gemini!Rotate, Gemini!Session, SessionInv, Gemini!OneSignIn, Gemini!ClientIsWatched
<1>11. ASSUME NEW c \in Gemini!Clients, NEW k \in TaskSet, syncs' = [syncs EXCEPT ![c] = k],
              client' \in {client, 0}, client' = c => k.step \in {"asleep", "writing"},
              UNCHANGED <<requests, lock>>
       PROVE  SessionInv'
  BY <1>11 DEF SessionInv, Gemini!OneSignIn, Gemini!ClientIsWatched, SigningIn
<1>12. ASSUME NEW c \in Gemini!Clients, Gemini!NoticesDeath(c) PROVE SessionInv'
  <2>1. Gemini!NoTask \in TaskSet /\ c # 0
    BY DEF Gemini!NoTask, TaskSet, Gemini!Clients
  <2>2. QED BY <1>11, <1>12, <2>1 DEF Gemini!NoticesDeath
<1>13. ASSUME NEW c \in Gemini!Clients, Gemini!WritesCookies(c) PROVE SessionInv'
  <2>1. PICK k : k = [step |-> "writing", carried |-> jar[c]]
    OBVIOUS
  <2>2. k \in TaskSet /\ k.step = "writing"
    BY <2>1 DEF TaskSet, CookiesInv
  <2>3. QED BY <1>11, <1>13, <2>1, <2>2 DEF Gemini!WritesCookies
<1>14. ASSUME NEW c \in Gemini!Clients, Gemini!Written(c) \/ Gemini!WriteFails(c) PROVE SessionInv'
  <2>1. PICK k : k = (IF syncs[c].step = "writing" THEN [syncs[c] EXCEPT !.step = "asleep"] ELSE Gemini!NoTask)
    OBVIOUS
  <2>2. syncs' = [syncs EXCEPT ![c] = k] /\ client' = client /\ UNCHANGED <<requests, lock>>
    BY <1>14, <2>1 DEF Gemini!Written, Gemini!WriteFails, Gemini!TaskGoesOn, SessionInv
  <2>3. k \in TaskSet
    BY <2>1 DEF SessionInv, TaskSet, Gemini!NoTask
  <2>4. client = c => k.step = "asleep"
    <3>1. c # 0 /\ syncs[c].step # "asleep"
      BY <1>14 DEF Gemini!Written, Gemini!WriteFails, Gemini!Clients
    <3>2. client = c => syncs[c].step = "writing"
      BY <3>1 DEF SessionInv, Gemini!ClientIsWatched
    <3>3. QED BY <2>1, <3>2 DEF SessionInv, TaskSet
  <2>5. QED BY <1>11, <2>2, <2>3, <2>4
<1>15. CASE Gemini!Restart
  <2>1. Gemini!NoTask \in TaskSet /\ Gemini!Rest \in RequestSet /\ Gemini!Rest.step = "rest"
    BY DEF Gemini!NoTask, TaskSet, Gemini!Rest, RequestSet
  <2>2. /\ requests' = [r \in Requests |-> Gemini!Rest] /\ syncs' = [c \in Gemini!Clients |-> Gemini!NoTask]
        /\ client' = 0
    BY <1>15 DEF Gemini!Restart
  <2>3. QED BY <2>1, <2>2 DEF SessionInv, Gemini!OneSignIn, Gemini!ClientIsWatched
<1>16. CASE UNCHANGED geminiVars
  BY <1>16 DEF geminiVars, SessionInv, Gemini!OneSignIn, Gemini!ClientIsWatched
<1>17. QED
  BY <1>1, <1>2, <1>3, <1>4, <1>5, <1>6, <1>7, <1>8, <1>9, <1>10, <1>12, <1>13, <1>14, <1>15, <1>16
     DEF Gemini!Next, Gemini!Proceeds, Gemini!Syncs

LEMMA SessionStart == Gemini!Init => SessionInv /\ CookiesInv
<1>. SUFFICES ASSUME Gemini!Init PROVE SessionInv /\ CookiesInv
  OBVIOUS
<1>1. Gemini!NoTask \in TaskSet /\ Gemini!Rest \in RequestSet /\ Gemini!Rest.step = "rest"
  BY DEF Gemini!NoTask, TaskSet, Gemini!Rest, RequestSet
<1>2. SessionInv
  BY <1>1 DEF Gemini!Init, SessionInv, Gemini!OneSignIn, Gemini!ClientIsWatched
<1>3. CookiesInv
  BY DEF Gemini!Init, CookiesInv
<1>4. QED BY <1>2, <1>3

(* A version is written into the file. *)
LEMMA CookiesWritten ==
  ASSUME CookiesInv, NEW v \in Nat, Gemini!WriteEnv(v)
  PROVE  latest' \in Nat /\ env' \in Nat /\ (env' = latest' \/ spoiled' = TRUE)
  BY DEF CookiesInv, Gemini!WriteEnv

LEMMA CookiesStep == SessionInv /\ CookiesInv /\ [Gemini!Next]_geminiVars => CookiesInv'
<1>. SUFFICES ASSUME SessionInv, CookiesInv, [Gemini!Next]_geminiVars PROVE CookiesInv'
  OBVIOUS
<1>1. CASE UNCHANGED Gemini!Files \/ UNCHANGED geminiVars
  BY <1>1 DEF Gemini!Files, geminiVars, CookiesInv
<1>2. ASSUME NEW r \in Requests, Gemini!SignIn(r) PROVE CookiesInv'
  BY <1>2 DEF Gemini!SignIn, Gemini!FromFile, CookiesInv
<1>3. ASSUME NEW r \in Requests, NEW c \in Gemini!Clients, Gemini!LogsIn(r, c) PROVE CookiesInv'
  BY <1>3 DEF Gemini!LogsIn, CookiesInv
<1>4. ASSUME NEW r \in Requests, Gemini!Install(r) PROVE CookiesInv'
  <2>1. PICK v \in Nat : v = jar[requests[r].client]
    BY <1>4 DEF Gemini!Install, SessionInv, CookiesInv
  <2>2. Gemini!WriteEnv(v) /\ cookies' = v /\ jar' = jar
    BY <1>4, <2>1 DEF Gemini!Install
  <2>3. QED BY <2>2, CookiesWritten DEF CookiesInv
<1>5. ASSUME NEW c \in Gemini!Clients, Gemini!Rotate(c) PROVE CookiesInv'
  BY <1>5 DEF Gemini!Rotate, CookiesInv
<1>6. ASSUME NEW c \in Gemini!Clients, Gemini!Written(c) PROVE CookiesInv'
  <2>1. PICK v \in Nat : v = syncs[c].carried
    BY DEF SessionInv, TaskSet
  <2>2. Gemini!WriteEnv(v) /\ cookies' \in {v, cookies} /\ jar' = jar
    BY <1>6, <2>1 DEF Gemini!Written
  <2>3. QED BY <2>2, CookiesWritten DEF CookiesInv
<1>7. CASE Gemini!Restart
  BY <1>7 DEF Gemini!Restart, CookiesInv
<1>8. QED
  BY <1>1, <1>2, <1>3, <1>4, <1>5, <1>6, <1>7
     DEF Gemini!Next, Gemini!Proceeds, Gemini!Syncs, Gemini!Begin, Gemini!Join, Gemini!Transient, Gemini!Probed,
         Gemini!SignInFails, Gemini!StaleCache, Gemini!Generated, Gemini!GenerationFails, Gemini!Refused,
         Gemini!SignedOut, Gemini!NoticesDeath, Gemini!WritesCookies, Gemini!WriteFails

(* A sign-in begins with the cookies of the file. *)
NewestTaken == lock = {} /\ lock' # {} => cookies' = latest \/ spoiled'

LEMMA CookiesGive == SessionInv /\ CookiesInv /\ [Gemini!Next]_geminiVars => [NewestTaken]_Gemini!vars
<1>. SUFFICES ASSUME SessionInv, CookiesInv, [Gemini!Next]_geminiVars PROVE [NewestTaken]_Gemini!vars
  OBVIOUS
<1>1. ASSUME NEW r \in Requests, Gemini!SignIn(r) PROVE NewestTaken
  <2>1. (cookies' = env /\ spoiled' = spoiled) \/ spoiled' = TRUE
    BY <1>1 DEF Gemini!SignIn, Gemini!FromFile
  <2>2. QED BY <2>1 DEF CookiesInv, NewestTaken
<1>2. CASE lock' = lock \/ lock' = {}
  BY <1>2 DEF NewestTaken
<1>3. UNCHANGED geminiVars => UNCHANGED Gemini!vars
  BY DEF geminiVars, Gemini!vars
<1>4. QED
  BY <1>1, <1>2, <1>3
     DEF Gemini!Next, Gemini!Proceeds, Gemini!Syncs, Gemini!Begin, Gemini!Join, Gemini!Transient, Gemini!Probed,
         Gemini!SignInFails, Gemini!StaleCache, Gemini!Generated, Gemini!GenerationFails, Gemini!Refused,
         Gemini!SignedOut, Gemini!NoticesDeath, Gemini!WritesCookies, Gemini!WriteFails, Gemini!LogsIn,
         Gemini!Install, Gemini!Rotate, Gemini!Written, Gemini!Restart

-----------------------------------------------------------------------------
(* The updates of Telegram *)

Taken == taken \cup served \cup cut

(* Below the offset, and among what Telegram has forgotten, every update was taken; before
   anything began anew nothing else was. *)
PollingInv ==
  /\ given \in Nat /\ confirmed \in Nat /\ offset \in Nat /\ given <= LastTelegram
  /\ confirmed <= given /\ offset <= given + 1 /\ Taken \subseteq Telegram!Updates
  /\ \A u \in Telegram!Updates : u <= confirmed \/ u < offset => u \in Taken
  /\ restarted = FALSE =>
        /\ twice = {} /\ \A u \in Taken : u < offset
        /\ polling = "off" => Taken = {}

(* What Telegram forgets on a request is below its offset. *)
LEMMA Forgotten ==
  ASSUME PollingInv, Telegram!Forgets
  PROVE  /\ confirmed' \in Nat /\ confirmed' <= given
         /\ \A u \in Telegram!Updates : u <= confirmed' => u <= confirmed \/ u < offset
  BY DEF PollingInv, Telegram!Forgets, Telegram!Maximum, Telegram!Updates

(* Who has asked knows what he has taken. *)
LEMMA PollingGoesOn ==
  ASSUME PollingInv, confirmed' \in Nat, confirmed' <= given,
         \A u \in Telegram!Updates : u <= confirmed' => u <= confirmed \/ u < offset,
         UNCHANGED <<given, offset, twice, restarted>>, Taken' = Taken,
         restarted = FALSE /\ polling' = "off" => polling = "off"
  PROVE  PollingInv'
  BY DEF PollingInv

LEMMA PollingStep == PollingInv /\ [Telegram!Next]_telegramVars => PollingInv'
<1>. SUFFICES ASSUME PollingInv, [Telegram!Next]_telegramVars PROVE PollingInv'
  OBVIOUS
<1>1. CASE Telegram!Arrive
  <2>1. given' = given + 1 /\ given' <= LastTelegram
    BY <1>1, ProgressAssumption DEF Telegram!Arrive, PollingInv
  <2>2. UNCHANGED <<confirmed, offset, polling, twice, restarted>> /\ Taken' = Taken
    BY <1>1 DEF Telegram!Arrive, Taken
  <2>3. QED BY <2>1, <2>2 DEF PollingInv
<1>2. CASE Telegram!StartPolling
  <2>1. Taken' = Taken /\ offset' = 0 /\ polling = "off" /\ polling' = "asking"
    BY <1>2 DEF Telegram!StartPolling, Taken
  <2>2. UNCHANGED <<given, confirmed, twice, restarted>>
    BY <1>2 DEF Telegram!StartPolling
  <2>3. \A u \in Telegram!Updates : ~(u < 0)
    BY DEF Telegram!Updates
  <2>4. QED BY <2>1, <2>2, <2>3 DEF PollingInv
<1>3. CASE Telegram!Answered
  <2>1. /\ Taken' = Taken \cup Telegram!Given /\ offset' = given + 1
        /\ Telegram!Given \subseteq Telegram!Updates
    BY <1>3 DEF Telegram!Answered, Taken, Telegram!Given
  <2>2. twice' = twice \cup (Telegram!Given \cap Taken) /\ UNCHANGED <<given, polling, restarted>>
    BY <1>3 DEF Telegram!Answered, Taken
  <2>3. \A u \in Telegram!Updates : u < offset' => u \in Taken'
    BY <2>1 DEF PollingInv, Telegram!Given, Telegram!Updates
  <2>4. confirmed' \in Nat /\ confirmed' <= given
    BY <1>3, Forgotten DEF Telegram!Answered
  <2>5. \A u \in Telegram!Updates : u <= confirmed' \/ u < offset' => u \in Taken'
    BY <2>1, <2>3, <2>4 DEF PollingInv, Telegram!Updates
  <2>6. restarted = FALSE => twice' = {} /\ \A u \in Taken' : u < offset'
    <3>1. SUFFICES ASSUME restarted = FALSE PROVE twice' = {} /\ \A u \in Taken' : u < offset'
      OBVIOUS
    <3>2. \A u \in Telegram!Given : u \in Nat /\ u >= offset /\ u <= given
      BY DEF Telegram!Given, Telegram!Updates
    <3>3. \A u \in Taken : u < offset
      BY <3>1 DEF PollingInv
    <3>4. Telegram!Given \cap Taken = {}
      BY <3>2, <3>3 DEF PollingInv
    <3>5. \A u \in Taken : u < given + 1
      <4>1. SUFFICES ASSUME NEW u \in Taken PROVE u < given + 1
        OBVIOUS
      <4>2. u < offset /\ u \in Nat
        BY <3>3 DEF PollingInv, Telegram!Updates
      <4>3. QED BY <4>2 DEF PollingInv
    <3>6. QED BY <2>1, <2>2, <3>1, <3>2, <3>4, <3>5 DEF PollingInv
  <2>7. polling' # "off"
    BY <1>3 DEF Telegram!Answered
  <2>8. QED BY <2>1, <2>2, <2>4, <2>5, <2>6, <2>7 DEF PollingInv
<1>4. CASE Telegram!Nothing \/ Telegram!Fails \/ Telegram!AsksAgain
  <2>1. /\ UNCHANGED <<given, offset, twice, restarted>> /\ Taken' = Taken
        /\ polling' = "off" => polling = "off"
    BY <1>4 DEF Telegram!Nothing, Telegram!Fails, Telegram!AsksAgain, Telegram!SameOffset, Taken
  <2>2. Telegram!Forgets \/ confirmed' = confirmed
    BY <1>4 DEF Telegram!Nothing, Telegram!Fails, Telegram!AsksAgain
  <2>3. confirmed' \in Nat /\ confirmed' <= given /\ \A u \in Telegram!Updates : u <= confirmed' => u <= confirmed \/ u < offset
    BY <2>2, Forgotten DEF PollingInv
  <2>4. QED BY <2>1, <2>3, PollingGoesOn
<1>5. CASE (\E u \in Telegram!Updates : Telegram!HandlerEnds(u)) \/ UNCHANGED telegramVars
  <2>1. UNCHANGED <<given, confirmed, offset, polling, twice, restarted>> /\ Taken' = Taken
    BY <1>5 DEF Telegram!HandlerEnds, Taken, telegramVars
  <2>2. confirmed' \in Nat /\ confirmed' <= given /\ \A u \in Telegram!Updates : u <= confirmed' => u <= confirmed \/ u < offset
    BY <2>1 DEF PollingInv
  <2>3. QED BY <2>1, <2>2, PollingGoesOn
<1>6. CASE Telegram!PollingEnds \/ Telegram!Crash
  <2>1. UNCHANGED <<given, confirmed, offset>> /\ Taken' = Taken /\ restarted' = TRUE
    BY <1>6 DEF Telegram!PollingEnds, Telegram!Crash, Taken
  <2>2. QED BY <2>1 DEF PollingInv
<1>7. QED BY <1>1, <1>2, <1>3, <1>4, <1>5, <1>6 DEF Telegram!Next

LEMMA PollingStart == Telegram!Init => PollingInv
  BY ProgressAssumption DEF Telegram!Init, PollingInv, Taken, Telegram!Updates

LEMMA PollingGives == PollingInv => Telegram!NothingMissed /\ Telegram!RepeatedAfterRestart
<1>. SUFFICES ASSUME PollingInv PROVE Telegram!NothingMissed /\ Telegram!RepeatedAfterRestart
  OBVIOUS
<1>1. ASSUME NEW u \in 1..confirmed PROVE u \in taken \cup served \cup cut
  <2>1. u \in Telegram!Updates /\ u <= confirmed
    BY ProgressAssumption DEF PollingInv, Telegram!Updates
  <2>2. QED BY <2>1 DEF PollingInv, Taken
<1>2. QED BY <1>1 DEF PollingInv, Telegram!RepeatedAfterRestart, Telegram!NothingMissed

-----------------------------------------------------------------------------
LEMMA SmallestExists ==
  ASSUME NEW S, S \subseteq Nat, S # {}
  PROVE  \E n \in S : \A m \in S : n <= m
<1>. DEFINE Less == OpToRel(<, Nat)
<1>1. IsWellFoundedOn(Less, Nat)
  BY NatLessThanWellFounded
<1>. HIDE DEF Less
<1>2. PICK n \in S : \A m \in S : <<m, n>> \notin Less
  BY <1>1, WFMin
<1>3. \A m \in S : ~(m < n)
  BY <1>2 DEF Less, OpToRel
<1>4. QED BY <1>3

-----------------------------------------------------------------------------
(* The parts of a reply in VK *)

Words == {"a", "b"}
Statuses == {"queued", "sent", "keyboard", "failed", "expired"}
RowSet == [id : Words \X BOOLEAN \X Nat, part : Nat, keyboard : BOOLEAN, random : Nat, status : Statuses]
LastPart == Len(reply)

(* How many parts without a keyboard have the text of the last one. *)
Alike == Cardinality({p \in 1..LastPart : <<reply[p], Reply!KeyboardOf(p)>> = <<reply[LastPart], FALSE>>})
BareName == <<reply[LastPart], FALSE>>
BareId(n) == Reply!DeliveryId(reply[LastPart], FALSE, n)

(* Each part has a row; behind them are those of the last part without its keyboard. *)
RowsAre ==
  /\ rows \in Seq(RowSet) /\ randoms \in Nat /\ LastPart <= Len(rows) /\ LastPart <= randoms
  /\ \A i \in 1..LastPart :
        rows[i].id = Reply!IdOf(i) /\ rows[i].part = i /\ rows[i].keyboard = (i = LastPart) /\ rows[i].random = i
  /\ \A i \in (LastPart + 1)..Len(rows) :
        /\ rows[i].id = BareId(Alike + (i - LastPart)) /\ rows[i].part = LastPart /\ rows[i].keyboard = FALSE
        /\ rows[i].random \in (LastPart + 1)..randoms

ReplyType ==
  /\ reply \in Seq(Words) /\ LastPart \in Nat \ {0} /\ picky \in BOOLEAN
  /\ DOMAIN calls = Words \X BOOLEAN /\ shown \in Seq(1..LastPart) /\ at \in 1..LastPart

LEMMA LastPartIs == ASSUME ReplyType PROVE Reply!Final = LastPart /\ Reply!Parts = 1..LastPart
<1>1. Reply!Final = LastPart
  BY DEF Reply!Final, LastPart
<1>2. QED BY <1>1 DEF Reply!Parts, ReplyType, LastPart

LEMMA CountsTheSame == \A S : Reply!Cardinality(S) = Cardinality(S)
  BY DEF Reply!Cardinality, Cardinality

Same(p) == {q \in 1..p : reply[q] = reply[p] /\ Reply!KeyboardOf(q) = Reply!KeyboardOf(p)}

LEMMA OccurrenceIs ==
  ASSUME ReplyType, NEW p \in 1..LastPart
  PROVE  Reply!Occurrence(p) = Cardinality(Same(p)) /\ IsFiniteSet(Same(p)) /\ Reply!Occurrence(p) \in Nat
<1>1. Reply!Occurrence(p) = Cardinality(Same(p))
  BY CountsTheSame DEF Reply!Occurrence, Same
<1>2. IsFiniteSet(1..p) /\ Same(p) \subseteq 1..p
  BY FS_Interval DEF Same, ReplyType
<1>3. IsFiniteSet(Same(p)) /\ Cardinality(Same(p)) \in Nat
  BY <1>2, FS_Subset, FS_CardinalityType
<1>4. QED BY <1>1, <1>3

(* A later part of the same text and keyboard has another number. *)
LEMMA OccurrencesGrow ==
  ASSUME ReplyType, NEW p \in 1..LastPart, NEW q \in 1..LastPart, p < q, reply[p] = reply[q],
         Reply!KeyboardOf(p) = Reply!KeyboardOf(q)
  PROVE  Reply!Occurrence(p) < Reply!Occurrence(q)
<1>1. Same(p) \subseteq Same(q) /\ q \in Same(q) /\ q \notin Same(p)
  BY DEF Same, ReplyType
<1>2. IsFiniteSet(Same(q)) /\ Same(p) # Same(q)
  BY <1>1, OccurrenceIs
<1>3. Cardinality(Same(p)) <= Cardinality(Same(q)) /\ Cardinality(Same(p)) # Cardinality(Same(q))
  BY <1>1, <1>2, FS_Subset
<1>4. QED BY <1>3, OccurrenceIs

LEMMA AlikeIs ==
  ASSUME ReplyType
  PROVE  /\ Alike \in Nat
         /\ \A p \in 1..LastPart : reply[p] = reply[LastPart] /\ p # LastPart => Reply!Occurrence(p) <= Alike
<1>. DEFINE A == {p \in 1..LastPart : <<reply[p], Reply!KeyboardOf(p)>> = <<reply[LastPart], FALSE>>}
<1>1. IsFiniteSet(A)
  <2>1. A \subseteq 1..LastPart
    OBVIOUS
  <2>. HIDE DEF A
  <2>2. IsFiniteSet(1..LastPart)
    BY FS_Interval DEF ReplyType
  <2>3. QED BY <2>1, <2>2, FS_Subset
<1>2. Alike = Cardinality(A) /\ Alike \in Nat
  BY <1>1, FS_CardinalityType DEF Alike
<1>3. ASSUME NEW p \in 1..LastPart, reply[p] = reply[LastPart], p # LastPart
      PROVE  Reply!Occurrence(p) <= Alike
  <2>1. \A q \in 1..LastPart : Reply!KeyboardOf(q) <=> q = LastPart
    BY LastPartIs DEF Reply!KeyboardOf
  <2>2. \A q \in 1..p : q \in 1..LastPart /\ q # LastPart
    BY <1>3 DEF ReplyType
  <2>3. p \in 1..p
    OBVIOUS
  <2>4. ASSUME NEW q \in Same(p) PROVE q \in A
    <3>1. q \in 1..LastPart /\ q # LastPart /\ reply[q] = reply[LastPart]
      BY <1>3, <2>2 DEF Same
    <3>2. Reply!KeyboardOf(q) = FALSE
      BY <2>1, <3>1 DEF Reply!KeyboardOf
    <3>3. QED BY <3>1, <3>2
  <2>5. Same(p) \subseteq A
    BY <2>4
  <2>. HIDE DEF A
  <2>6. Cardinality(Same(p)) <= Cardinality(A)
    BY <1>1, <2>5, FS_Subset
  <2>7. QED BY <1>2, <2>6, OccurrenceIs
<1>4. QED BY <1>2, <1>3

(* No two requests have one name. *)
LEMMA IdsDiffer ==
  ASSUME ReplyType
  PROVE  /\ \A p, q \in 1..LastPart : Reply!IdOf(p) = Reply!IdOf(q) => p = q
         /\ \A p \in 1..LastPart, n \in Nat : n > Alike => Reply!IdOf(p) # BareId(n)
         /\ \A m, n : BareId(m) = BareId(n) => m = n
<1>1. ASSUME NEW p \in 1..LastPart, NEW q \in 1..LastPart, Reply!IdOf(p) = Reply!IdOf(q) PROVE p = q
  <2>1. reply[p] = reply[q] /\ Reply!KeyboardOf(p) = Reply!KeyboardOf(q) /\ Reply!Occurrence(p) = Reply!Occurrence(q)
    BY <1>1 DEF Reply!IdOf, Reply!DeliveryId
  <2>2. ~(p < q) /\ ~(q < p)
    BY <2>1, OccurrencesGrow, OccurrenceIs
  <2>3. QED BY <2>2 DEF ReplyType
<1>2. ASSUME NEW p \in 1..LastPart, NEW n \in Nat, n > Alike, Reply!IdOf(p) = BareId(n) PROVE FALSE
  <2>1. reply[p] = reply[LastPart] /\ Reply!KeyboardOf(p) = FALSE /\ Reply!Occurrence(p) = n
    BY <1>2 DEF Reply!IdOf, Reply!DeliveryId, BareId
  <2>2. p # LastPart
    BY <2>1, LastPartIs DEF Reply!KeyboardOf
  <2>3. Reply!Occurrence(p) <= Alike
    BY <2>1, <2>2, AlikeIs
  <2>4. QED BY <1>2, <2>1, <2>3, AlikeIs
<1>3. \A m, n : BareId(m) = BareId(n) => m = n
  BY DEF BareId, Reply!DeliveryId
<1>4. QED BY <1>1, <1>2, <1>3

LEMMA RowIdsDiffer ==
  ASSUME ReplyType, RowsAre
  PROVE  \A i, j \in 1..Len(rows) : rows[i].id = rows[j].id => i = j
<1>1. Len(rows) \in Nat /\ LastPart \in Nat /\ Alike \in Nat
  BY AlikeIs, LenProperties DEF RowsAre, ReplyType
<1>2. \A i \in 1..Len(rows) : \/ i \in 1..LastPart /\ rows[i].id = Reply!IdOf(i)
                              \/ /\ i \in (LastPart + 1)..Len(rows) /\ rows[i].id = BareId(Alike + (i - LastPart))
                                 /\ Alike + (i - LastPart) \in Nat /\ Alike + (i - LastPart) > Alike
  BY <1>1 DEF RowsAre
<1>3. SUFFICES ASSUME NEW i \in 1..Len(rows), NEW j \in 1..Len(rows), rows[i].id = rows[j].id PROVE i = j
  OBVIOUS
<1>4. CASE i \in 1..LastPart /\ j \in 1..LastPart /\ rows[i].id = Reply!IdOf(i) /\ rows[j].id = Reply!IdOf(j)
  BY <1>3, <1>4, IdsDiffer
<1>5. CASE i \in (LastPart + 1)..Len(rows) /\ j \in (LastPart + 1)..Len(rows)
           /\ rows[i].id = BareId(Alike + (i - LastPart)) /\ rows[j].id = BareId(Alike + (j - LastPart))
  <2>1. Alike + (i - LastPart) = Alike + (j - LastPart)
    BY <1>3, <1>5, IdsDiffer
  <2>2. QED BY <1>1, <1>5, <2>1
<1>6. QED BY <1>2, <1>3, <1>4, <1>5, IdsDiffer

LEMMA StatusIs ==
  ASSUME ReplyType, RowsAre, NEW i \in 1..Len(rows)
  PROVE  Reply!Status(rows[i].id) = rows[i].status
<1>1. DOMAIN rows = 1..Len(rows)
  BY DEF RowsAre
<1>2. Reply!IndexOf(rows, rows[i].id) = {i}
  BY <1>1, RowIdsDiffer DEF Reply!IndexOf
<1>3. QED BY <1>2 DEF Reply!Status

-----------------------------------------------------------------------------
(* f[n] is the table after the first n of the new rows. *)
Filled(f, new, k) ==
  f = [n \in 0..k |->
         IF n = 0 THEN rows
         ELSE IF Reply!IndexOf(f[n - 1], new[n].id) = {} THEN Append(f[n - 1], new[n]) ELSE f[n - 1]]

LEMMA FilledExists ==
  ASSUME NEW new, NEW k \in Nat
  PROVE  \E f : Filled(f, new, k)
<1>. DEFINE Bad == {m \in Nat : ~\E f : Filled(f, new, m)}
<1>1. SUFFICES ASSUME Bad # {} PROVE FALSE
  OBVIOUS
<1>2. PICK m \in Bad : \A n \in Bad : m <= n
  BY <1>1, SmallestExists
<1>3. CASE m = 0
  <2>1. 0..m = {0}
    BY <1>3
  <2>. DEFINE f == [n \in 0..m |-> rows]
  <2>2. f = [n \in 0..m |->
               IF n = 0 THEN rows
               ELSE IF Reply!IndexOf(f[n - 1], new[n].id) = {} THEN Append(f[n - 1], new[n]) ELSE f[n - 1]]
    BY <2>1
  <2>. HIDE DEF f
  <2>3. QED BY <1>2, <2>2 DEF Filled
<1>4. CASE m # 0
  <2>1. m - 1 \in Nat /\ m - 1 \notin Bad
    BY <1>2, <1>4
  <2>2. PICK f : Filled(f, new, m - 1)
    BY <2>1
  <2>. DEFINE After(t, n) == IF Reply!IndexOf(t, new[n].id) = {} THEN Append(t, new[n]) ELSE t
              F == [n \in 0..m |-> IF n = m THEN After(f[n - 1], n) ELSE f[n]]
  <2>3. ASSUME NEW n \in 0..m PROVE F[n] = IF n = 0 THEN rows ELSE After(F[n - 1], n)
    <3>1. CASE n = m
      <4>1. n # 0 /\ n - 1 \in 0..m /\ n - 1 # m
        BY <1>2, <1>4, <3>1
      <4>2. F[n - 1] = f[n - 1]
        BY <4>1
      <4>3. QED BY <3>1, <4>1, <4>2
    <3>2. CASE n # m
      <4>1. n \in 0..(m - 1)
        BY <1>2, <3>2
      <4>2. f[n] = IF n = 0 THEN rows ELSE After(f[n - 1], n)
        BY <2>2, <4>1 DEF Filled
      <4>3. n # 0 => n - 1 \in 0..m /\ n - 1 # m
        BY <1>2, <4>1
      <4>. HIDE DEF After
      <4>4. F[n] = f[n] /\ (n # 0 => F[n - 1] = f[n - 1])
        BY <3>2, <4>3
      <4>5. QED BY <4>2, <4>4
    <3>3. QED BY <3>1, <3>2
  <2>4. F = [n \in 0..m |-> F[n]]
    OBVIOUS
  <2>. HIDE DEF F
  <2>5. F = [n \in 0..m |->
               IF n = 0 THEN rows
               ELSE IF Reply!IndexOf(F[n - 1], new[n].id) = {} THEN Append(F[n - 1], new[n]) ELSE F[n - 1]]
    BY <2>3, <2>4
  <2>6. QED BY <1>2, <2>5 DEF Filled
<1>5. QED BY <1>3, <1>4

LEMMA EnqueuedIs ==
  ASSUME NEW new, Len(new) \in Nat
  PROVE  \E f : /\ Reply!Enqueued(new) = f[Len(new)] /\ f[0] = rows
                /\ \A n \in 1..Len(new) :
                      f[n] = IF Reply!IndexOf(f[n - 1], new[n].id) = {} THEN Append(f[n - 1], new[n]) ELSE f[n - 1]
<1>. DEFINE f == CHOOSE F : Filled(F, new, Len(new))
<1>1. Filled(f, new, Len(new))
  BY FilledExists
<1>2. Reply!Enqueued(new) = f[Len(new)]
  BY DEF Reply!Enqueued, Filled
<1>. HIDE DEF f
<1>3. f[0] = rows
  BY <1>1 DEF Filled
<1>4. \A n \in 1..Len(new) : n \in 0..Len(new) /\ n # 0
  OBVIOUS
<1>5. ASSUME NEW n \in 1..Len(new)
      PROVE  f[n] = IF Reply!IndexOf(f[n - 1], new[n].id) = {} THEN Append(f[n - 1], new[n]) ELSE f[n - 1]
  BY <1>1, <1>4 DEF Filled
<1>6. QED BY <1>2, <1>3, <1>5

(* What is all there leaves the table as it is. *)
LEMMA NothingIsNew ==
  ASSUME NEW new, Len(new) \in Nat, \A n \in 1..Len(new) : Reply!IndexOf(rows, new[n].id) # {}
  PROVE  Reply!Enqueued(new) = rows
<1>1. PICK f : /\ Reply!Enqueued(new) = f[Len(new)] /\ f[0] = rows
               /\ \A n \in 1..Len(new) :
                     f[n] = IF Reply!IndexOf(f[n - 1], new[n].id) = {} THEN Append(f[n - 1], new[n]) ELSE f[n - 1]
  BY EnqueuedIs
<1>. DEFINE Bad == {n \in 0..Len(new) : f[n] # rows}
<1>2. SUFFICES ASSUME Bad # {} PROVE FALSE
  BY <1>1
<1>3. PICK n \in Bad : \A m \in Bad : n <= m
  <2>1. Bad \subseteq Nat
    OBVIOUS
  <2>. HIDE DEF Bad
  <2>2. QED BY <1>2, <2>1, SmallestExists
<1>4. n \in 1..Len(new) /\ n - 1 \in 0..Len(new) /\ n - 1 \notin Bad
  BY <1>1, <1>3
<1>5. f[n - 1] = rows
  BY <1>4
<1>6. QED BY <1>1, <1>3, <1>4, <1>5

(* New rows of different names fill the empty table. *)
LEMMA AllIsNew ==
  ASSUME NEW new \in Seq(RowSet), rows = <<>>, \A i, j \in 1..Len(new) : new[i].id = new[j].id => i = j
  PROVE  LET all == Reply!Enqueued(new)
         IN  all \in Seq(RowSet) /\ Len(all) = Len(new) /\ \A i \in 1..Len(new) : all[i] = new[i]
<1>0. Len(new) \in Nat
  BY LenProperties
<1>1. PICK f : /\ Reply!Enqueued(new) = f[Len(new)] /\ f[0] = rows
               /\ \A n \in 1..Len(new) :
                     f[n] = IF Reply!IndexOf(f[n - 1], new[n].id) = {} THEN Append(f[n - 1], new[n]) ELSE f[n - 1]
  BY <1>0, EnqueuedIs
<1>. DEFINE Good(n) == f[n] \in Seq(RowSet) /\ Len(f[n]) = n /\ \A i \in 1..n : f[n][i] = new[i]
            Bad == {n \in 0..Len(new) : ~Good(n)}
<1>2. SUFFICES ASSUME Bad # {} PROVE FALSE
  BY <1>0, <1>1
<1>3. PICK n \in Bad : \A m \in Bad : n <= m
  <2>1. Bad \subseteq Nat
    BY <1>0
  <2>. HIDE DEF Bad
  <2>2. QED BY <1>2, <2>1, SmallestExists
<1>4. Good(0)
  <2>1. f[0] \in Seq(RowSet) /\ Len(f[0]) = 0
    BY <1>1, EmptySeq
  <2>2. 1..0 = {}
    OBVIOUS
  <2>3. QED BY <2>1, <2>2
<1>5. n \in 1..Len(new) /\ n - 1 \in 0..Len(new) /\ n - 1 \notin Bad
  BY <1>0, <1>3, <1>4
<1>6. PICK t : t = f[n - 1] /\ t \in Seq(RowSet) /\ Len(t) = n - 1 /\ \A i \in 1..(n - 1) : t[i] = new[i]
  BY <1>5
<1>7. Reply!IndexOf(t, new[n].id) = {}
  <2>1. DOMAIN t = 1..(n - 1)
    BY <1>6, LenProperties
  <2>2. \A i \in 1..(n - 1) : i \in 1..Len(new) /\ i # n
    BY <1>0, <1>5
  <2>3. QED BY <1>5, <1>6, <2>1, <2>2 DEF Reply!IndexOf
<1>8. f[n] = Append(t, new[n])
  BY <1>1, <1>5, <1>6, <1>7
<1>9. new[n] \in RowSet
  BY <1>5, ElementOfSeq
<1>10. f[n] \in Seq(RowSet) /\ Len(f[n]) = n /\ f[n][n] = new[n] /\ \A i \in 1..(n - 1) : f[n][i] = t[i]
  <2>1. /\ Append(t, new[n]) \in Seq(RowSet) /\ Len(Append(t, new[n])) = Len(t) + 1
        /\ \A i \in 1..Len(t) : Append(t, new[n])[i] = t[i] /\ Append(t, new[n])[Len(t) + 1] = new[n]
        /\ Append(t, new[n])[Len(t) + 1] = new[n]
    BY <1>6, <1>9, AppendProperties
  <2>2. Len(t) + 1 = n
    BY <1>5, <1>6, <1>0
  <2>3. QED BY <1>6, <1>8, <2>1, <2>2
<1>11. \A i \in 1..n : i \in 1..(n - 1) \/ i = n
  BY <1>0, <1>5
<1>12. Good(n)
  BY <1>6, <1>10, <1>11
<1>13. QED BY <1>3, <1>12

(* One row is added, or is there. *)
LEMMA OneRow ==
  ASSUME NEW r
  PROVE  Reply!Enqueued(<<r>>) = IF Reply!IndexOf(rows, r.id) = {} THEN Append(rows, r) ELSE rows
<1>0. Len(<<r>>) = 1 /\ <<r>>[1] = r
  OBVIOUS
<1>1. PICK new : new = <<r>> /\ Len(new) = 1 /\ new[1] = r
  BY <1>0
<1>2. PICK f : /\ Reply!Enqueued(new) = f[1] /\ f[0] = rows
               /\ \A n \in 1..1 :
                     f[n] = IF Reply!IndexOf(f[n - 1], new[n].id) = {} THEN Append(f[n - 1], new[n]) ELSE f[n - 1]
  <2>1. Len(new) \in Nat
    BY <1>1
  <2>2. \E f : /\ Reply!Enqueued(new) = f[Len(new)] /\ f[0] = rows
               /\ \A n \in 1..Len(new) :
                     f[n] = IF Reply!IndexOf(f[n - 1], new[n].id) = {} THEN Append(f[n - 1], new[n]) ELSE f[n - 1]
    BY ONLY <2>1, EnqueuedIs
  <2>3. QED BY <1>1, <2>2
<1>3. 1 \in 1..1 /\ 1 - 1 = 0
  OBVIOUS
<1>4. QED BY <1>1, <1>2, <1>3

-----------------------------------------------------------------------------
(* The dialogue *)

Shows(p) == \E m \in 1..Len(shown) : shown[m] = p

(* Rows are settled in their order. *)
InTurn ==
  \A i \in 1..Len(rows), j \in 1..Len(rows) :
     j < i /\ (rows[i].status # "queued" \/ rows[i].random \in accepted) => rows[j].status # "queued"

(* The keyboard is refused where it may be, and what goes without it was refused with it. *)
KeyboardsAre ==
  /\ \A i \in 1..Len(rows) : rows[i].status = "keyboard" => i = LastPart
  /\ LastPart <= Len(rows) => (rows[LastPart].status = "keyboard" => LastPart \notin accepted)
  /\ LastPart < Len(rows) => rows[LastPart].status = "keyboard"
  /\ \A i \in (LastPart + 1)..Len(rows) : i # Len(rows) => rows[i].status = "expired"
  /\ picky => LastPart \notin accepted
  /\ \A i \in 1..Len(rows) : rows[i].status = "keyboard" => picky

(* What VK knows is shown, and what is shown VK knows. *)
ShownIs ==
  /\ \A i \in 1..Len(rows) : rows[i].status = "sent" => rows[i].random \in accepted
  /\ \A i \in 1..Len(rows) : rows[i].random \in accepted => Shows(rows[i].part)
  /\ \A x \in accepted : \E i \in 1..Len(rows) : rows[i].random = x
  /\ \A m \in 1..Len(shown) : \E i \in 1..Len(rows) : rows[i].random \in accepted /\ rows[i].part = shown[m]

(* What the handler has seen sent, and which request of the last part is its latest. *)
HandlerIs ==
  /\ step \in {"given", "waiting", "bare", "done", "failed"}
  /\ rows = <<>> => step = "given"
  /\ step \in {"waiting", "bare"} => \A p \in 1..(at - 1) : rows[p].status = "sent"
  /\ step = "waiting" => calls[BareName] = Alike
  /\ step = "bare" => at = LastPart /\ calls[BareName] \in (Alike + 1)..(Alike + (Len(rows) - LastPart))
  /\ step = "done" => \A p \in 1..LastPart : Shows(p)

ReplyInv ==
  /\ ReplyType
  /\ (rows = <<>> /\ randoms = 0) \/ RowsAre
  /\ InTurn /\ KeyboardsAre /\ ShownIs /\ HandlerIs
  /\ Reply!EachPartOnce

-----------------------------------------------------------------------------
ReplyStays ==
  /\ LastPart' = LastPart /\ Alike' = Alike /\ BareName' = BareName
  /\ \A n : BareId(n)' = BareId(n)
  /\ \A p : Reply!IdOf(p)' = Reply!IdOf(p)

LEMMA SameReply == ASSUME reply' = reply PROVE ReplyStays
<1>1. LastPart' = LastPart /\ BareName' = BareName
  BY DEF LastPart, BareName
<1>2. \A p : Reply!KeyboardOf(p)' = Reply!KeyboardOf(p)
  BY DEF Reply!KeyboardOf, Reply!Final
<1>3. Alike' = Alike
  BY <1>1, <1>2 DEF Alike
<1>4. \A n : BareId(n)' = BareId(n)
  BY <1>1 DEF BareId, Reply!DeliveryId
<1>5. \A p : Reply!IdOf(p)' = Reply!IdOf(p)
  BY <1>2 DEF Reply!IdOf, Reply!DeliveryId, Reply!Occurrence
<1>6. QED BY <1>1, <1>3, <1>4, <1>5 DEF ReplyStays

(* The rows are those that were there, and what is settled stays settled. *)
RowsStay ==
  /\ rows' \in Seq(RowSet) /\ Len(rows') = Len(rows)
  /\ \A i \in 1..Len(rows) :
        /\ rows'[i].id = rows[i].id /\ rows'[i].part = rows[i].part
        /\ rows'[i].keyboard = rows[i].keyboard /\ rows'[i].random = rows[i].random
        /\ rows[i].status # "queued" => rows'[i].status = rows[i].status

LEMMA RowIs ==
  ASSUME ReplyType, RowsAre, NEW i \in 1..Len(rows)
  PROVE  /\ rows[i] \in RowSet /\ rows[i].part \in 1..LastPart /\ rows[i].random \in Nat
         /\ rows[i].random = LastPart <=> i = LastPart
         /\ \A j \in 1..Len(rows) : rows[j].random = rows[i].random => rows[j].part = rows[i].part
         /\ \A j \in 1..Len(rows) : rows[j].random = rows[i].random => i = j \/ (i > LastPart /\ j > LastPart)
         /\ i > LastPart => rows[i].part = LastPart
         /\ i <= LastPart => rows[i].part = i
<1>1. Len(rows) \in Nat /\ LastPart \in Nat \ {0} /\ randoms \in Nat
  BY LenProperties DEF RowsAre, ReplyType
<1>2. rows[i] \in RowSet
  BY ElementOfSeq DEF RowsAre
<1>3. \A j \in 1..Len(rows) : \/ j \in 1..LastPart /\ rows[j].part = j /\ rows[j].random = j
                              \/ /\ j \in (LastPart + 1)..Len(rows) /\ rows[j].part = LastPart
                                 /\ rows[j].random \in (LastPart + 1)..randoms
  BY <1>1 DEF RowsAre
<1>4. rows[i].part \in 1..LastPart /\ rows[i].random \in Nat
  BY <1>1, <1>3
<1>5. rows[i].random = LastPart <=> i = LastPart
  BY <1>1, <1>3
<1>6. ASSUME NEW j \in 1..Len(rows), rows[j].random = rows[i].random
      PROVE  rows[j].part = rows[i].part /\ (i = j \/ (i > LastPart /\ j > LastPart))
  BY <1>1, <1>3, <1>6
<1>7. QED BY <1>1, <1>2, <1>3, <1>4, <1>5, <1>6

LEMMA SameRows ==
  ASSUME ReplyType, RowsAre, RowsStay, reply' = reply, randoms' \in Nat, randoms' >= randoms
  PROVE  RowsAre'
<1>1. ReplyStays
  BY SameReply
<1>2. Len(rows) \in Nat /\ LastPart \in Nat \ {0} /\ randoms \in Nat /\ LastPart <= Len(rows)
  BY LenProperties DEF RowsAre, ReplyType
<1>3. rows' \in Seq(RowSet) /\ LastPart' <= Len(rows') /\ LastPart' <= randoms'
  BY <1>1, <1>2 DEF RowsStay, RowsAre, ReplyStays
<1>4. ASSUME NEW i \in 1..LastPart
      PROVE  rows'[i].id = Reply!IdOf(i)' /\ rows'[i].part = i /\ rows'[i].keyboard = (i = LastPart) /\ rows'[i].random = i
  <2>1. i \in 1..Len(rows)
    BY <1>2
  <2>2. QED BY <1>1, <2>1 DEF RowsStay, RowsAre, ReplyStays
<1>5. ASSUME NEW i \in (LastPart + 1)..Len(rows)
      PROVE  /\ rows'[i].id = BareId(Alike + (i - LastPart))' /\ rows'[i].part = LastPart /\ rows'[i].keyboard = FALSE
             /\ rows'[i].random \in (LastPart + 1)..randoms'
  <2>1. i \in 1..Len(rows)
    BY <1>2
  <2>2. rows[i].random \in (LastPart + 1)..randoms
    BY DEF RowsAre
  <2>3. rows'[i].random \in (LastPart + 1)..randoms'
    BY <1>2, <2>1, <2>2 DEF RowsStay
  <2>4. rows'[i].id = BareId(Alike + (i - LastPart)) /\ rows'[i].part = LastPart /\ rows'[i].keyboard = FALSE
    BY <2>1 DEF RowsStay, RowsAre
  <2>5. BareId(Alike + (i - LastPart))' = BareId(Alike + (i - LastPart))
    BY <1>1 DEF BareId, Reply!DeliveryId, ReplyStays, BareName
  <2>6. QED BY <2>3, <2>4, <2>5
<1>6. QED BY <1>1, <1>3, <1>4, <1>5 DEF RowsAre, ReplyStays, RowsStay

-----------------------------------------------------------------------------
(* What VK and the pump do to the first queued row. *)
OthersStay(i) ==
  /\ i \in 1..Len(rows) /\ rows[i].status = "queued" /\ \A j \in 1..(i - 1) : rows[j].status # "queued"
  /\ \A j \in 1..Len(rows) : j # i => rows'[j].status = rows[j].status

HandlerStays == UNCHANGED <<reply, picky, step, at, calls, randoms>>

LEMMA SettlesIs ==
  ASSUME ReplyType, RowsAre, NEW i \in 1..Len(rows), Reply!IsNext(i),
         rows' = rows \/ \E s \in Statuses : Reply!Settled(i, s)
  PROVE  RowsStay /\ OthersStay(i)
<1>1. rows[i].status = "queued" /\ \A j \in 1..(i - 1) : rows[j].status # "queued"
  BY DEF Reply!IsNext
<1>2. rows \in Seq(RowSet) /\ DOMAIN rows = 1..Len(rows) /\ \A j \in 1..Len(rows) : rows[j] \in RowSet
  BY RowIs, LenProperties DEF RowsAre
<1>3. CASE rows' = rows
  BY <1>1, <1>2, <1>3 DEF RowsStay, OthersStay
<1>4. ASSUME NEW s \in Statuses, Reply!Settled(i, s) PROVE RowsStay /\ OthersStay(i)
  <2>1. rows' = [rows EXCEPT ![i].status = s]
    BY <1>4 DEF Reply!Settled
  <2>. DEFINE r == [rows[i] EXCEPT !.status = s]
  <2>2. r \in RowSet
    BY <1>2 DEF RowSet
  <2>3. rows' = [rows EXCEPT ![i] = r]
    BY <2>1
  <2>4. /\ r.id = rows[i].id /\ r.part = rows[i].part /\ r.keyboard = rows[i].keyboard /\ r.random = rows[i].random
        /\ r.status = s
    BY <1>2 DEF RowSet
  <2>. HIDE DEF r
  <2>5. rows' \in Seq(RowSet) /\ Len(rows') = Len(rows)
    BY <1>2, <2>2, <2>3, ExceptSeq
  <2>6. \A j \in 1..Len(rows) : rows'[j] = IF j = i THEN r ELSE rows[j]
    BY <1>2, <2>3
  <2>7. QED BY <1>1, <2>4, <2>5, <2>6 DEF RowsStay, OthersStay
<1>5. QED BY <1>3, <1>4

LEMMA StaysExpired ==
  ASSUME RowsStay, accepted \subseteq accepted', Reply!ShownAndExpired, rows \in Seq(RowSet)
  PROVE  Reply!ShownAndExpired'
<1>1. DOMAIN rows = 1..Len(rows) /\ DOMAIN rows' = 1..Len(rows)
  BY LenProperties DEF RowsStay
<1>2. PICK i \in 1..Len(rows) : rows[i].status = "expired" /\ rows[i].random \in accepted
  BY <1>1 DEF Reply!ShownAndExpired
<1>3. rows'[i].status = "expired" /\ rows'[i].random \in accepted'
  BY <1>2 DEF RowsStay
<1>4. QED BY <1>1, <1>3 DEF Reply!ShownAndExpired

(* A row is settled, and nothing is new in the dialogue. *)
LEMMA RowSettled ==
  ASSUME ReplyInv, RowsAre, RowsStay, NEW i, OthersStay(i), HandlerStays, UNCHANGED <<accepted, shown>>,
         rows'[i].status = "sent" => rows[i].random \in accepted,
         rows'[i].status = "keyboard" => picky /\ rows[i].keyboard
  PROVE  ReplyInv'
<1>1. ReplyStays /\ reply' = reply /\ RowsAre' /\ Len(rows') = Len(rows)
  <2>1. randoms' \in Nat /\ randoms' >= randoms
    BY DEF HandlerStays, RowsAre
  <2>2. QED BY <2>1, SameReply, SameRows DEF HandlerStays, ReplyInv, RowsStay
<1>2. Len(rows) \in Nat /\ LastPart \in Nat \ {0} /\ LastPart <= Len(rows) /\ i \in 1..Len(rows)
  BY LenProperties DEF RowsAre, ReplyType, ReplyInv, OthersStay
<1>3. ReplyType'
  BY <1>1 DEF ReplyInv, ReplyType, ReplyStays, HandlerStays
<1>4. \A j \in 1..Len(rows) : j # i => rows'[j].status = rows[j].status
  BY DEF OthersStay
<1>5. InTurn'
  <2>1. SUFFICES ASSUME NEW k \in 1..Len(rows), NEW j \in 1..Len(rows), j < k,
                        rows'[k].status # "queued" \/ rows'[k].random \in accepted
                 PROVE  rows'[j].status # "queued"
    BY <1>1 DEF InTurn
  <2>2. rows[j].status # "queued"
    <3>1. CASE k = i
      BY <1>2, <2>1, <3>1 DEF OthersStay
    <3>2. CASE k # i
      BY <1>4, <2>1, <3>2 DEF ReplyInv, InTurn, RowsStay
    <3>3. QED BY <3>1, <3>2
  <2>3. QED BY <2>2 DEF RowsStay
<1>6. rows[i].keyboard => i = LastPart
  <2>1. i \in 1..LastPart \/ i \in (LastPart + 1)..Len(rows)
    BY <1>2
  <2>2. QED BY <1>2, <2>1 DEF RowsAre
<1>7. KeyboardsAre'
  <2>1. \A k \in 1..Len(rows) : rows'[k].status = "keyboard" => k = LastPart /\ picky
    BY <1>4, <1>6 DEF ReplyInv, KeyboardsAre
  <2>2. picky => LastPart \notin accepted
    BY DEF ReplyInv, KeyboardsAre
  <2>3. rows'[LastPart].status = "keyboard" => LastPart \notin accepted
    BY <1>2, <2>1, <2>2
  <2>4. LastPart < Len(rows) => rows'[LastPart].status = "keyboard"
    BY <1>2 DEF ReplyInv, KeyboardsAre, RowsStay
  <2>5. \A k \in (LastPart + 1)..Len(rows) : k # Len(rows) => rows'[k].status = "expired"
    BY <1>2 DEF ReplyInv, KeyboardsAre, RowsStay
  <2>6. QED BY <1>1, <2>1, <2>2, <2>3, <2>4, <2>5 DEF KeyboardsAre, ReplyStays, HandlerStays
<1>8. ShownIs'
  <2>1. \A k \in 1..Len(rows) : rows'[k].status = "sent" => rows'[k].random \in accepted
    BY <1>4 DEF ReplyInv, ShownIs, RowsStay
  <2>2. \A p : Shows(p)' = Shows(p)
    BY DEF Shows
  <2>3. \A k \in 1..Len(rows) : rows'[k].random \in accepted => Shows(rows[k].part)'
    BY <2>2 DEF ReplyInv, ShownIs, RowsStay
  <2>4. \A x \in accepted : \E k \in 1..Len(rows) : rows'[k].random = x
    BY DEF ReplyInv, ShownIs, RowsStay
  <2>5. \A m \in 1..Len(shown) : \E k \in 1..Len(rows) : rows'[k].random \in accepted /\ rows'[k].part = shown[m]
    BY DEF ReplyInv, ShownIs, RowsStay
  <2>6. \A k \in 1..Len(rows) : rows'[k].random \in accepted => (Shows(rows[k].part)' <=> \E m \in 1..Len(shown) : shown[m] = rows'[k].part)
    BY DEF Shows, RowsStay
  <2>7. QED BY <1>1, <2>1, <2>3, <2>4, <2>5, <2>6 DEF ShownIs, Shows
<1>9. HandlerIs'
  <2>1. rows # <<>> /\ rows' # <<>>
    BY <1>1, <1>2
  <2>2. \A p \in 1..(at - 1) : p \in 1..Len(rows)
    BY <1>2 DEF ReplyInv, ReplyType
  <2>3. \A p : Shows(p)' = Shows(p)
    BY DEF Shows
  <2>4. step \in {"waiting", "bare"} => \A p \in 1..(at - 1) : rows'[p].status = "sent"
    BY <2>2 DEF ReplyInv, HandlerIs, RowsStay
  <2>5. QED BY <1>1, <2>1, <2>3, <2>4 DEF ReplyInv, HandlerIs, ReplyStays, HandlerStays
<1>10. Reply!EachPartOnce'
  <2>1. Reply!ShownAndExpired => Reply!ShownAndExpired'
    BY StaysExpired DEF RowsAre
  <2>2. QED BY <2>1 DEF ReplyInv, Reply!EachPartOnce
<1>11. QED BY <1>1, <1>3, <1>5, <1>7, <1>8, <1>9, <1>10 DEF ReplyInv

(* VK shows the part of a row that it did not know. *)
LEMMA PartShown ==
  ASSUME ReplyInv, RowsAre, RowsStay, NEW i, OthersStay(i), HandlerStays, rows[i].random \notin accepted,
         accepted' = accepted \cup {rows[i].random}, shown' = Append(shown, rows[i].part),
         ~(picky /\ rows[i].keyboard), rows'[i].status \in {"queued", "sent"}
  PROVE  ReplyInv'
<1>1. ReplyStays /\ reply' = reply /\ RowsAre' /\ Len(rows') = Len(rows)
  <2>1. randoms' \in Nat /\ randoms' >= randoms
    BY DEF HandlerStays, RowsAre
  <2>2. QED BY <2>1, SameReply, SameRows DEF HandlerStays, ReplyInv, RowsStay
<1>2. Len(rows) \in Nat /\ LastPart \in Nat \ {0} /\ LastPart <= Len(rows) /\ i \in 1..Len(rows)
  BY LenProperties DEF RowsAre, ReplyType, ReplyInv, OthersStay
<1>3. rows[i].part \in 1..LastPart /\ shown \in Seq(1..LastPart) /\ Len(shown) \in Nat
  BY <1>2, RowIs, LenProperties DEF ReplyInv, ReplyType
<1>4. /\ shown' \in Seq(1..LastPart) /\ Len(shown') = Len(shown) + 1 /\ shown'[Len(shown) + 1] = rows[i].part
      /\ \A m \in 1..Len(shown) : shown'[m] = shown[m]
  BY <1>3, AppendProperties
<1>5. ReplyType'
  BY <1>1, <1>4 DEF ReplyInv, ReplyType, ReplyStays, HandlerStays
<1>6. \A j \in 1..Len(rows) : j # i => rows'[j].status = rows[j].status
  BY DEF OthersStay
(* Rows behind this one are not of the same request. *)
<1>7. ASSUME NEW k \in 1..Len(rows), rows[k].random = rows[i].random PROVE k <= i
  <2>1. k = i \/ (k > LastPart /\ i > LastPart)
    BY <1>2, <1>7, RowIs DEF ReplyInv
  <2>2. i > LastPart /\ i # Len(rows) => rows[i].status = "expired"
    BY <1>2 DEF ReplyInv, KeyboardsAre
  <2>3. QED BY <1>2, <2>1, <2>2 DEF OthersStay
<1>8. InTurn'
  <2>1. SUFFICES ASSUME NEW k \in 1..Len(rows), NEW j \in 1..Len(rows), j < k,
                        rows'[k].status # "queued" \/ rows'[k].random \in accepted'
                 PROVE  rows'[j].status # "queued"
    BY <1>1 DEF InTurn
  <2>2. rows[j].status # "queued"
    <3>1. CASE k = i \/ rows[k].random = rows[i].random
      <4>1. j \in 1..(i - 1)
        BY <1>2, <1>7, <2>1, <3>1
      <4>2. QED BY <4>1 DEF OthersStay
    <3>2. CASE k # i /\ rows[k].random # rows[i].random
      BY <1>6, <2>1, <3>2 DEF ReplyInv, InTurn, RowsStay
    <3>3. QED BY <3>1, <3>2
  <2>3. QED BY <2>2 DEF RowsStay
<1>9. LastPart \in accepted' => i = LastPart \/ LastPart \in accepted
  BY <1>2, RowIs DEF ReplyInv
<1>10. i = LastPart => ~picky
  <2>1. LastPart \in 1..LastPart
    BY <1>2
  <2>2. rows[LastPart].keyboard = (LastPart = LastPart)
    BY <2>1 DEF RowsAre
  <2>3. QED BY <2>2
<1>11. KeyboardsAre'
  <2>1. \A k \in 1..Len(rows) : rows'[k].status = "keyboard" => k # i /\ k = LastPart /\ picky
    BY <1>6 DEF ReplyInv, KeyboardsAre
  <2>2. picky => LastPart \notin accepted'
    BY <1>9, <1>10 DEF ReplyInv, KeyboardsAre
  <2>3. rows'[LastPart].status = "keyboard" => LastPart \notin accepted'
    BY <1>2, <2>1, <2>2
  <2>4. LastPart < Len(rows) => rows'[LastPart].status = "keyboard"
    BY <1>2 DEF ReplyInv, KeyboardsAre, RowsStay
  <2>5. \A k \in (LastPart + 1)..Len(rows) : k # Len(rows) => rows'[k].status = "expired"
    BY <1>2 DEF ReplyInv, KeyboardsAre, RowsStay
  <2>6. QED BY <1>1, <2>1, <2>2, <2>3, <2>4, <2>5 DEF KeyboardsAre, ReplyStays, HandlerStays
<1>12. /\ \A p : Shows(p) => Shows(p)'
       /\ Shows(rows[i].part)'
  <2>1. ASSUME NEW p, Shows(p) PROVE Shows(p)'
    <3>1. PICK m \in 1..Len(shown) : shown[m] = p
      BY <2>1 DEF Shows
    <3>2. m \in 1..Len(shown') /\ shown'[m] = p
      BY <1>3, <1>4, <3>1
    <3>3. QED BY <3>2 DEF Shows
  <2>2. Len(shown) + 1 \in 1..Len(shown')
    BY <1>3, <1>4
  <2>3. Shows(rows[i].part)'
    <3>1. \E m \in 1..Len(shown') : shown'[m] = rows[i].part
      BY <1>4, <2>2
    <3>2. PICK part : part = rows[i].part /\ part = rows'[i].part
      BY <1>2 DEF RowsStay
    <3>3. QED BY <3>1, <3>2 DEF Shows
  <2>4. QED BY <2>1, <2>3
<1>13. ShownIs'
  <2>1. \A k \in 1..Len(rows) : rows'[k].status = "sent" => rows'[k].random \in accepted'
    BY <1>6 DEF ReplyInv, ShownIs, RowsStay
  <2>2. ASSUME NEW k \in 1..Len(rows), rows[k].random \in accepted' PROVE Shows(rows[k].part)'
    <3>1. rows[k].random \in accepted => Shows(rows[k].part)
      BY DEF ReplyInv, ShownIs
    <3>2. rows[k].random = rows[i].random => rows[k].part = rows[i].part
      BY <1>2, RowIs DEF ReplyInv
    <3>3. Shows(rows[k].part) \/ rows[k].part = rows[i].part
      BY <2>2, <3>1, <3>2
    <3>4. PICK part : part = rows[k].part /\ part = rows'[k].part
      BY DEF RowsStay
    <3>5. rows[i].part = rows'[i].part
      BY <1>2 DEF RowsStay
    <3>6. CASE Shows(rows[k].part)
      <4>1. Shows(part)
        BY <3>4, <3>6
      <4>2. Shows(part)'
        BY <1>12, <4>1
      <4>3. QED BY <3>4, <4>2 DEF Shows
    <3>7. CASE rows[k].part = rows[i].part
      BY <1>12, <3>4, <3>5, <3>7 DEF Shows
    <3>8. QED BY <3>3, <3>6, <3>7
  <2>3. \A x \in accepted' : \E k \in 1..Len(rows) : rows'[k].random = x
    <3>1. SUFFICES ASSUME NEW x \in accepted' PROVE \E k \in 1..Len(rows) : rows'[k].random = x
      OBVIOUS
    <3>2. CASE x \in accepted
      BY <3>2 DEF ReplyInv, ShownIs, RowsStay
    <3>3. CASE x = rows[i].random
      BY <1>2, <3>3 DEF RowsStay
    <3>4. QED BY <3>1, <3>2, <3>3
  <2>4. ASSUME NEW m \in 1..Len(shown')
        PROVE  \E k \in 1..Len(rows) : rows'[k].random \in accepted' /\ rows'[k].part = shown'[m]
    <3>1. CASE m \in 1..Len(shown)
      BY <1>4, <3>1 DEF ReplyInv, ShownIs, RowsStay
    <3>2. CASE m = Len(shown) + 1
      BY <1>2, <1>4, <3>2 DEF RowsStay
    <3>3. QED BY <1>3, <1>4, <2>4, <3>1, <3>2
  <2>5. \A k \in 1..Len(rows) : rows'[k].random \in accepted' => \E m \in 1..Len(shown') : shown'[m] = rows'[k].part
    BY <2>2 DEF RowsStay, Shows
  <2>6. QED BY <1>1, <2>1, <2>3, <2>4, <2>5 DEF ShownIs, Shows
<1>14. HandlerIs'
  <2>1. rows # <<>> /\ rows' # <<>>
    BY <1>1, <1>2
  <2>2. \A p \in 1..(at - 1) : p \in 1..Len(rows)
    BY <1>2 DEF ReplyInv, ReplyType
  <2>3. step \in {"waiting", "bare"} => \A p \in 1..(at - 1) : rows'[p].status = "sent"
    BY <2>2 DEF ReplyInv, HandlerIs, RowsStay
  <2>4. QED BY <1>1, <1>12, <2>1, <2>3 DEF ReplyInv, HandlerIs, ReplyStays, HandlerStays
<1>15. ASSUME NEW m \in 1..Len(shown)
       PROVE  shown[m] < rows[i].part \/ (Reply!ShownAndExpired' /\ shown[m] = rows[i].part)
  <2>1. PICK q \in 1..Len(rows) : rows[q].random \in accepted /\ rows[q].part = shown[m]
    BY DEF ReplyInv, ShownIs
  <2>2. ~(i < q)
    BY <1>2, <2>1 DEF ReplyInv, InTurn, OthersStay
  <2>3. q < i
    BY <1>2, <2>1, <2>2
  <2>4. CASE i <= LastPart
    BY <1>2, <2>1, <2>3, <2>4, RowIs DEF ReplyInv
  <2>5. CASE i > LastPart /\ q <= LastPart
    <3>1. rows[LastPart].status = "keyboard" /\ LastPart \notin accepted
      BY <1>2, <2>5 DEF ReplyInv, KeyboardsAre
    <3>2. q # LastPart
      BY <2>1, <3>1, RowIs DEF ReplyInv
    <3>3. QED BY <1>2, <2>1, <2>5, <3>2, RowIs DEF ReplyInv
  <2>6. CASE i > LastPart /\ q > LastPart
    <3>1. rows[q].status = "expired"
      BY <1>2, <2>3, <2>6 DEF ReplyInv, KeyboardsAre
    <3>2. q \in DOMAIN rows'
      BY <1>1 DEF RowsStay
    <3>3. rows'[q].status = "expired" /\ rows'[q].random \in accepted'
      BY <2>1, <3>1 DEF RowsStay
    <3>4. QED BY <1>2, <2>1, <2>6, <3>2, <3>3, RowIs DEF ReplyInv, Reply!ShownAndExpired
  <2>7. QED BY <1>2, <2>4, <2>5, <2>6
<1>16. Reply!EachPartOnce'
  <2>1. Reply!ShownAndExpired => Reply!ShownAndExpired'
    BY StaysExpired DEF RowsAre
  <2>2. SUFFICES ASSUME NEW k \in 1..Len(shown'), NEW j \in 1..Len(shown'), k < j
                 PROVE  shown'[k] < shown'[j] \/ (Reply!ShownAndExpired' /\ shown'[k] = shown'[j])
    BY <1>4, LenProperties DEF Reply!EachPartOnce
  <2>3. k \in 1..Len(shown)
    BY <1>3, <1>4, <2>2
  <2>4. CASE j \in 1..Len(shown)
    BY <1>3, <1>4, <2>1, <2>2, <2>3, <2>4, LenProperties DEF ReplyInv, Reply!EachPartOnce
  <2>5. CASE j = Len(shown) + 1
    BY <1>4, <1>15, <2>3, <2>5
  <2>6. QED BY <1>3, <1>4, <2>4, <2>5
<1>17. QED BY <1>1, <1>5, <1>8, <1>11, <1>13, <1>14, <1>16 DEF ReplyInv

LEMMA WorldStep ==
  ASSUME ReplyInv, NEW i \in DOMAIN rows,
         Reply!Delivered(i) \/ Reply!AnswerLost(i) \/ Reply!Refused(i) \/ Reply!Lost(i, "failed") \/ Reply!Lost(i, "expired")
  PROVE  ReplyInv'
<1>1. RowsAre /\ i \in 1..Len(rows)
  <2>1. rows # <<>>
    OBVIOUS
  <2>2. RowsAre
    BY <2>1 DEF ReplyInv
  <2>3. QED BY <2>2, LenProperties DEF RowsAre
<1>2. HandlerStays
  BY DEF HandlerStays, Reply!Delivered, Reply!AnswerLost, Reply!Refused, Reply!Lost
<1>3. Reply!IsNext(i) /\ (rows' = rows \/ \E s \in Statuses : Reply!Settled(i, s))
  BY DEF Reply!Delivered, Reply!AnswerLost, Reply!Refused, Reply!Lost, Reply!Accepted, Statuses
<1>4. RowsStay /\ OthersStay(i)
  BY <1>1, <1>3, SettlesIs DEF ReplyInv
<1>5. \A s : Reply!Settled(i, s) => rows'[i].status = s
  <2>1. rows[i] \in RowSet /\ DOMAIN rows = 1..Len(rows)
    BY <1>1, RowIs, LenProperties DEF ReplyInv, RowsAre
  <2>2. QED BY <1>1, <2>1 DEF Reply!Settled, RowSet
<1>6. CASE Reply!Refused(i)
  <2>1. rows'[i].status = "keyboard" /\ picky /\ rows[i].keyboard /\ UNCHANGED <<accepted, shown>>
    BY <1>5, <1>6 DEF Reply!Refused
  <2>2. QED BY <1>1, <1>2, <1>4, <2>1, RowSettled
<1>7. CASE Reply!Lost(i, "failed") \/ Reply!Lost(i, "expired")
  <2>1. rows'[i].status \in {"failed", "expired"} /\ UNCHANGED <<accepted, shown>>
    BY <1>5, <1>7 DEF Reply!Lost
  <2>2. QED BY <1>1, <1>2, <1>4, <2>1, RowSettled
<1>8. CASE Reply!Delivered(i) \/ Reply!AnswerLost(i)
  <2>1. Reply!Accepted(i)
    BY <1>8 DEF Reply!Delivered, Reply!AnswerLost
  <2>2. rows'[i].status \in {"queued", "sent"}
    BY <1>4, <1>5, <1>8 DEF Reply!Delivered, Reply!AnswerLost, OthersStay
  <2>3. CASE rows[i].random \in accepted
    <3>1. UNCHANGED <<accepted, shown>>
      BY <2>1, <2>3 DEF Reply!Accepted
    <3>2. QED BY <1>1, <1>2, <1>4, <2>2, <2>3, <3>1, RowSettled
  <2>4. CASE rows[i].random \notin accepted
    <3>1. /\ ~(picky /\ rows[i].keyboard) /\ accepted' = accepted \cup {rows[i].random}
          /\ shown' = Append(shown, rows[i].part)
      BY <2>1, <2>4 DEF Reply!Accepted
    <3>2. QED BY <1>1, <1>2, <1>4, <2>2, <2>4, <3>1, PartShown
  <2>5. QED BY <2>3, <2>4
<1>9. QED BY <1>6, <1>7, <1>8

-----------------------------------------------------------------------------
(* What the handler does leaves the dialogue as it is. *)
LEMMA HandlerGoes ==
  ASSUME ReplyInv, RowsAre, UNCHANGED <<reply, picky, rows, accepted, shown>>, randoms' \in Nat, randoms' >= randoms,
         DOMAIN calls' = DOMAIN calls, at' \in 1..LastPart, HandlerIs'
  PROVE  ReplyInv'
<1>1. ReplyStays
  BY SameReply
<1>2. RowsAre'
  <2>1. RowsStay
    BY DEF RowsAre, RowsStay
  <2>2. QED BY <2>1, SameRows DEF ReplyInv
<1>3. ReplyType'
  BY <1>1 DEF ReplyInv, ReplyType, ReplyStays
<1>4. InTurn' /\ KeyboardsAre' /\ Reply!EachPartOnce'
  BY <1>1 DEF ReplyInv, InTurn, KeyboardsAre, ReplyStays, Reply!EachPartOnce, Reply!ShownAndExpired
<1>5. ShownIs'
  BY DEF ReplyInv, ShownIs, Shows
<1>6. QED BY <1>2, <1>3, <1>4, <1>5 DEF ReplyInv

LEMMA AwaitedIs ==
  ASSUME ReplyInv, step \in {"waiting", "bare"}
  PROVE  /\ RowsAre /\ at \in 1..Len(rows) /\ Reply!Status(Reply!IdOf(at)) = rows[at].status
         /\ step = "bare" => \E i \in (LastPart + 1)..Len(rows) :
                                calls[BareName] = Alike + (i - LastPart) /\ Reply!BareStatus = rows[i].status
<1>1. RowsAre
  BY DEF ReplyInv, HandlerIs
<1>2. Len(rows) \in Nat /\ LastPart \in Nat /\ LastPart <= Len(rows) /\ at \in 1..LastPart /\ Alike \in Nat
  BY <1>1, AlikeIs, LenProperties DEF RowsAre, ReplyType, ReplyInv
<1>3. at \in 1..Len(rows) /\ rows[at].id = Reply!IdOf(at)
  BY <1>1, <1>2 DEF RowsAre
<1>4. Reply!Status(Reply!IdOf(at)) = rows[at].status
  BY <1>1, <1>3, StatusIs DEF ReplyInv
<1>5. ASSUME step = "bare"
      PROVE  \E i \in (LastPart + 1)..Len(rows) :
                calls[BareName] = Alike + (i - LastPart) /\ Reply!BareStatus = rows[i].status
  <2>1. calls[BareName] \in (Alike + 1)..(Alike + (Len(rows) - LastPart))
    BY <1>5 DEF ReplyInv, HandlerIs
  <2>. DEFINE i == LastPart + (calls[BareName] - Alike)
  <2>2. i \in (LastPart + 1)..Len(rows) /\ i \in 1..Len(rows) /\ calls[BareName] = Alike + (i - LastPart)
    BY <1>2, <2>1
  <2>. HIDE DEF i
  <2>3. rows[i].id = BareId(calls[BareName])
    BY <1>1, <2>2 DEF RowsAre
  <2>4. Reply!BareStatus = Reply!Status(BareId(calls[BareName]))
    BY LastPartIs DEF ReplyInv, Reply!BareStatus, BareId, BareName
  <2>5. Reply!BareStatus = rows[i].status
    BY <1>1, <2>2, <2>3, <2>4, StatusIs DEF ReplyInv
  <2>6. QED BY <2>2, <2>5
<1>6. QED BY <1>1, <1>3, <1>4, <1>5

LEMMA PartSentStep == ReplyInv /\ Reply!PartSent => ReplyInv'
<1>1. SUFFICES ASSUME ReplyInv, Reply!PartSent PROVE ReplyInv'
  OBVIOUS
<1>2. /\ step = "waiting" /\ UNCHANGED <<reply, picky, calls, rows, randoms, accepted, shown>>
      /\ Reply!Status(Reply!IdOf(at)) = "sent"
  BY <1>1 DEF Reply!PartSent
<1>3. RowsAre /\ rows[at].status = "sent" /\ at \in 1..LastPart /\ LastPart \in Nat /\ randoms \in Nat
  BY <1>1, <1>2, AwaitedIs DEF ReplyInv, ReplyType, RowsAre
<1>4. ReplyStays /\ \A p : Shows(p)' = Shows(p)
  BY <1>2, SameReply DEF Shows
<1>5. /\ at = LastPart => step' = "done" /\ at' = at
      /\ at # LastPart => step' = step /\ at' = at + 1
  BY <1>1, LastPartIs DEF Reply!PartSent, ReplyInv
<1>6. \A p \in 1..at : rows[p].status = "sent"
  <2>1. \A p \in 1..at : p \in 1..(at - 1) \/ p = at
    BY <1>3
  <2>2. QED BY <1>1, <1>2, <1>3, <2>1 DEF ReplyInv, HandlerIs
<1>7. at' \in 1..LastPart
  BY <1>3, <1>5
<1>8. CASE at = LastPart
  <2>1. \A p \in 1..LastPart : p \in 1..Len(rows) /\ rows[p].part = p
    BY <1>3, LenProperties DEF RowsAre
  <2>2. \A p \in 1..LastPart : Shows(p)
    <3>1. SUFFICES ASSUME NEW p \in 1..LastPart PROVE Shows(p)
      OBVIOUS
    <3>2. Shows(rows[p].part)
      BY <1>1, <1>6, <1>8, <2>1 DEF ReplyInv, ShownIs
    <3>3. QED BY <2>1, <3>2
  <2>3. rows # <<>>
    BY <1>1, <1>2 DEF ReplyInv, HandlerIs
  <2>4. HandlerIs'
    BY <1>2, <1>4, <1>5, <1>8, <2>2, <2>3 DEF HandlerIs, ReplyStays
  <2>5. QED BY <1>1, <1>2, <1>3, <1>7, <2>4, HandlerGoes
<1>9. CASE at # LastPart
  <2>1. HandlerIs'
    BY <1>1, <1>2, <1>3, <1>4, <1>5, <1>6, <1>9 DEF ReplyInv, HandlerIs, ReplyStays
  <2>2. QED BY <1>1, <1>2, <1>3, <1>7, <2>1, HandlerGoes
<1>10. QED BY <1>8, <1>9

LEMMA BareSentStep == ReplyInv /\ Reply!BareSent => ReplyInv'
<1>1. SUFFICES ASSUME ReplyInv, Reply!BareSent PROVE ReplyInv'
  OBVIOUS
<1>2. /\ step = "bare" /\ step' = "done" /\ Reply!BareStatus = "sent"
      /\ UNCHANGED <<reply, picky, at, calls, rows, randoms, accepted, shown>>
  BY <1>1 DEF Reply!BareSent
<1>3. PICK i \in (LastPart + 1)..Len(rows) : rows[i].status = "sent"
  BY <1>1, <1>2, AwaitedIs
<1>4. RowsAre /\ at \in 1..LastPart /\ LastPart \in Nat \ {0} /\ randoms \in Nat /\ at = LastPart /\ Len(rows) \in Nat
      /\ LastPart <= Len(rows)
  BY <1>1, <1>2, AwaitedIs, LenProperties DEF ReplyInv, ReplyType, RowsAre, HandlerIs
<1>5. ReplyStays /\ \A p : Shows(p)' = Shows(p)
  BY <1>2, SameReply DEF Shows
<1>6. Shows(LastPart)
  <2>1. i \in 1..Len(rows) /\ rows[i].part = LastPart
    BY <1>4 DEF RowsAre
  <2>2. Shows(rows[i].part)
    BY <1>1, <1>3, <2>1 DEF ReplyInv, ShownIs
  <2>3. QED BY <2>1, <2>2
<1>7. ASSUME NEW p \in 1..(LastPart - 1) PROVE Shows(p)
  <2>1. p \in 1..LastPart /\ p \in 1..Len(rows) /\ rows[p].status = "sent"
    BY <1>1, <1>2, <1>4 DEF ReplyInv, HandlerIs
  <2>2. rows[p].part = p
    BY <1>4, <2>1 DEF RowsAre
  <2>3. Shows(rows[p].part)
    BY <1>1, <2>1 DEF ReplyInv, ShownIs
  <2>4. QED BY <2>2, <2>3
<1>8. \A p \in 1..LastPart : Shows(p)
  BY <1>4, <1>6, <1>7
<1>9. HandlerIs'
  BY <1>1, <1>2, <1>5, <1>8 DEF ReplyInv, HandlerIs, ReplyStays
<1>10. QED BY <1>1, <1>2, <1>4, <1>9, HandlerGoes

LEMMA GivesUpStep == ReplyInv /\ (Reply!ReplyFails \/ Reply!TimesOut \/ Reply!Crash) => ReplyInv'
<1>1. SUFFICES ASSUME ReplyInv, Reply!ReplyFails \/ Reply!TimesOut \/ Reply!Crash PROVE ReplyInv'
  OBVIOUS
<1>2. /\ step # "given" /\ step' \in {"given", "failed"} /\ UNCHANGED <<reply, picky, rows, randoms, accepted, shown>>
      /\ DOMAIN calls' = DOMAIN calls /\ at' \in {1, at}
  BY <1>1 DEF Reply!ReplyFails, Reply!TimesOut, Reply!Crash
<1>3. RowsAre /\ at' \in 1..LastPart /\ randoms \in Nat
  BY <1>1, <1>2 DEF ReplyInv, HandlerIs, ReplyType, RowsAre
<1>4. HandlerIs'
  BY <1>1, <1>2 DEF ReplyInv, HandlerIs
<1>5. QED BY <1>1, <1>2, <1>3, <1>4, HandlerGoes

-----------------------------------------------------------------------------
LEMMA CallsAre ==
  ASSUME ReplyType, Reply!Send
  PROVE  DOMAIN calls' = DOMAIN calls /\ calls'[BareName] = Alike
<1>. DEFINE Count(k) == Reply!Cardinality({p \in Reply!Parts : <<reply[p], Reply!KeyboardOf(p)>> = k})
<1>1. calls' = [k \in DOMAIN calls |-> Count(k)]
  BY DEF Reply!Send
<1>2. BareName \in DOMAIN calls
  <2>1. reply[LastPart] \in Words
    BY ElementOfSeq DEF ReplyType, LastPart
  <2>2. QED BY <2>1 DEF ReplyType, BareName
<1>3. Count(BareName) = Alike
  BY LastPartIs, CountsTheSame DEF Alike, BareName
<1>. HIDE DEF Count
<1>4. QED BY <1>1, <1>2, <1>3

LEMMA NewRowIs ==
  ASSUME ReplyType, NEW p \in 1..LastPart, NEW n \in Nat
  PROVE  LET r == Reply!Row(Reply!IdOf(p), p, Reply!KeyboardOf(p), n)
         IN  /\ r \in RowSet /\ r.id = Reply!IdOf(p) /\ r.part = p /\ r.keyboard = (p = LastPart) /\ r.random = n
             /\ r.status = "queued"
<1>1. reply[p] \in Words /\ p \in Nat
  BY ElementOfSeq DEF ReplyType, LastPart
<1>2. Reply!KeyboardOf(p) \in BOOLEAN /\ Reply!KeyboardOf(p) = (p = LastPart)
  BY LastPartIs DEF Reply!KeyboardOf
<1>3. Reply!IdOf(p) \in Words \X BOOLEAN \X Nat
  BY <1>1, <1>2, OccurrenceIs DEF Reply!IdOf, Reply!DeliveryId
<1>. HIDE DEF Words
<1>4. PICK id : id = Reply!IdOf(p) /\ id \in Words \X BOOLEAN \X Nat
  BY <1>3
<1>5. PICK keyboard \in BOOLEAN : keyboard = Reply!KeyboardOf(p)
  BY <1>2
<1>6. [id |-> id, part |-> p, keyboard |-> keyboard, random |-> n, status |-> "queued"] \in RowSet
  BY <1>1, <1>4 DEF RowSet, Statuses
<1>7. QED BY <1>2, <1>4, <1>5, <1>6 DEF Reply!Row

(* The parts are queued for the first time. *)
LEMMA SendFirst == ReplyInv /\ rows = <<>> /\ randoms = 0 /\ Reply!Send => ReplyInv'
<1>1. SUFFICES ASSUME ReplyInv, rows = <<>>, randoms = 0, Reply!Send PROVE ReplyInv'
  OBVIOUS
<1>2. ReplyType /\ LastPart \in Nat \ {0} /\ Reply!Parts = 1..LastPart /\ Reply!Final = LastPart
  BY <1>1, LastPartIs DEF ReplyInv, ReplyType
<1>3. ReplyStays /\ reply' = reply
  BY <1>1, SameReply DEF Reply!Send
<1>. DEFINE New == [p \in 1..LastPart |-> Reply!Row(Reply!IdOf(p), p, Reply!KeyboardOf(p), randoms + p)]
<1>4. rows' = Reply!Enqueued(New)
  BY <1>1, <1>2 DEF Reply!Send
<1>5. \A p \in 1..LastPart :
         /\ New[p] \in RowSet /\ New[p].id = Reply!IdOf(p) /\ New[p].part = p /\ New[p].keyboard = (p = LastPart)
         /\ New[p].random = p /\ New[p].status = "queued"
  <2>1. SUFFICES ASSUME NEW p \in 1..LastPart
                 PROVE  /\ New[p] \in RowSet /\ New[p].id = Reply!IdOf(p) /\ New[p].part = p
                        /\ New[p].keyboard = (p = LastPart) /\ New[p].random = p /\ New[p].status = "queued"
    OBVIOUS
  <2>2. randoms + p = p /\ p \in Nat
    BY <1>1
  <2>3. New[p] = Reply!Row(Reply!IdOf(p), p, Reply!KeyboardOf(p), p)
    BY <2>2
  <2>4. QED BY <1>2, <2>2, <2>3, NewRowIs
<1>6. New \in Seq(RowSet) /\ Len(New) = LastPart
  <2>1. New \in [1..LastPart -> RowSet]
    BY <1>5
  <2>. HIDE DEF New
  <2>2. LastPart \in Nat
    BY <1>2
  <2>3. New \in Seq(RowSet)
    BY ONLY <2>1, <2>2, SeqDef
  <2>4. DOMAIN New = 1..LastPart
    BY <2>1
  <2>5. Len(New) = LastPart
    BY <2>2, <2>3, <2>4, LenProperties
  <2>6. QED BY <2>3, <2>5
<1>. HIDE DEF New
<1>7. \A i, j \in 1..Len(New) : New[i].id = New[j].id => i = j
  BY <1>2, <1>5, <1>6, IdsDiffer
<1>8. rows' \in Seq(RowSet) /\ Len(rows') = LastPart /\ \A p \in 1..LastPart : rows'[p] = New[p]
  BY <1>1, <1>4, <1>6, <1>7, AllIsNew
<1>9. /\ step' = "waiting" /\ at' = 1 /\ randoms' = LastPart /\ UNCHANGED <<picky, accepted, shown>>
  BY <1>1, <1>2 DEF Reply!Send
<1>10. /\ DOMAIN calls' = DOMAIN calls /\ calls'[BareName] = Alike
  BY <1>1, <1>2, CallsAre
<1>11. accepted = {} /\ Len(shown) = 0
  <2>1. Len(rows) = 0
    BY <1>1, EmptySeq
  <2>2. 1..Len(rows) = {}
    BY <2>1
  <2>3. accepted = {} /\ 1..Len(shown) = {}
    BY <1>1, <2>2 DEF ReplyInv, ShownIs
  <2>4. Len(shown) \in Nat
    BY <1>2, LenProperties DEF ReplyType
  <2>5. 1 \notin 1..Len(shown)
    BY <2>3
  <2>6. QED BY <2>3, <2>4, <2>5
<1>12. ReplyType'
  BY <1>2, <1>3, <1>9, <1>10 DEF ReplyType, ReplyStays
<1>13. RowsAre'
  <2>1. (LastPart + 1)..Len(rows') = {}
    BY <1>2, <1>8
  <2>2. \A p \in 1..LastPart :
           /\ rows'[p].id = Reply!IdOf(p)' /\ rows'[p].part = p /\ rows'[p].keyboard = (p = LastPart)
           /\ rows'[p].random = p
    BY <1>3, <1>5, <1>8 DEF ReplyStays
  <2>3. QED BY <1>2, <1>3, <1>8, <1>9, <2>1, <2>2 DEF RowsAre, ReplyStays
<1>14. \A p \in 1..LastPart : rows'[p].status = "queued"
  BY <1>5, <1>8
<1>15. InTurn'
  BY <1>8, <1>9, <1>11, <1>14 DEF InTurn
<1>16. KeyboardsAre'
  <2>1. (LastPart + 1)..Len(rows') = {} /\ LastPart \in 1..LastPart /\ ~(LastPart < Len(rows'))
    BY <1>2, <1>8
  <2>2. QED BY <1>3, <1>8, <1>9, <1>11, <1>14, <2>1 DEF KeyboardsAre, ReplyStays
<1>17. ShownIs'
  <2>1. 1..Len(shown) = {}
    BY <1>11
  <2>2. QED BY <1>8, <1>9, <1>11, <1>14, <2>1 DEF ShownIs
<1>18. HandlerIs'
  <2>1. rows' # <<>> /\ 1..(at' - 1) = {}
    BY <1>2, <1>8, <1>9, EmptySeq
  <2>2. QED BY <1>3, <1>9, <1>10, <2>1 DEF HandlerIs, ReplyStays
<1>19. Reply!EachPartOnce'
  <2>1. DOMAIN shown = {}
    BY <1>2, <1>11, LenProperties DEF ReplyType
  <2>2. QED BY <1>9, <2>1 DEF Reply!EachPartOnce
<1>20. QED BY <1>12, <1>13, <1>15, <1>16, <1>17, <1>18, <1>19 DEF ReplyInv

(* After a crash they are there. *)
LEMMA SendAgain == ReplyInv /\ RowsAre /\ Reply!Send => ReplyInv'
<1>1. SUFFICES ASSUME ReplyInv, RowsAre, Reply!Send PROVE ReplyInv'
  OBVIOUS
<1>2. ReplyType /\ LastPart \in Nat \ {0} /\ Reply!Parts = 1..LastPart /\ Reply!Final = LastPart
  BY <1>1, LastPartIs DEF ReplyInv, ReplyType
<1>3. ReplyStays
  BY <1>1, SameReply DEF Reply!Send
<1>. DEFINE New == [p \in 1..LastPart |-> Reply!Row(Reply!IdOf(p), p, Reply!KeyboardOf(p), randoms + p)]
<1>4. rows' = Reply!Enqueued(New)
  BY <1>1, <1>2 DEF Reply!Send
<1>5. Len(New) = LastPart
  BY <1>2
<1>6. \A p \in 1..LastPart : New[p].id = Reply!IdOf(p)
  BY DEF Reply!Row
<1>. HIDE DEF New
<1>7. DOMAIN rows = 1..Len(rows) /\ \A p \in 1..LastPart : p \in 1..Len(rows) /\ rows[p].id = Reply!IdOf(p)
  BY <1>1, <1>2, LenProperties DEF RowsAre
<1>8. \A p \in 1..Len(New) : Reply!IndexOf(rows, New[p].id) # {}
  BY <1>5, <1>6, <1>7 DEF Reply!IndexOf
<1>9. rows' = rows
  BY <1>2, <1>4, <1>5, <1>8, NothingIsNew
<1>10. /\ step' = "waiting" /\ at' = 1 /\ randoms' = randoms + LastPart /\ UNCHANGED <<reply, picky, accepted, shown>>
  BY <1>1, <1>2 DEF Reply!Send
<1>11. /\ DOMAIN calls' = DOMAIN calls /\ calls'[BareName] = Alike
  BY <1>1, <1>2, CallsAre
<1>12. rows # <<>> /\ 1..(at' - 1) = {} /\ at' \in 1..LastPart /\ randoms' \in Nat /\ randoms' >= randoms
  BY <1>1, <1>2, <1>10, EmptySeq DEF RowsAre
<1>13. HandlerIs'
  BY <1>3, <1>9, <1>10, <1>11, <1>12 DEF HandlerIs, ReplyStays
<1>14. QED BY <1>1, <1>9, <1>10, <1>11, <1>12, <1>13, HandlerGoes

-----------------------------------------------------------------------------
(* The last part is, or was, to go without its keyboard: n requests of it were made. *)
GoesBare(n, random) ==
  /\ ReplyInv /\ RowsAre /\ Reply!Bare(random) /\ random \in (LastPart + 1)..randoms'
  /\ at = LastPart /\ at' = at /\ step' = "bare" /\ UNCHANGED <<reply, picky, accepted, shown>>
  /\ \A p \in 1..(at - 1) : rows[p].status = "sent"
  /\ n \in 0..(Len(rows) - LastPart) /\ calls[BareName] = Alike + n
  /\ rows[LastPart].status = "keyboard"
  /\ n > 0 => rows[LastPart + n].status = "expired"
  /\ randoms' \in Nat /\ randoms' >= randoms

LEMMA BareIs ==
  ASSUME NEW n, NEW random, GoesBare(n, random)
  PROVE  /\ DOMAIN calls' = DOMAIN calls /\ calls'[BareName] = Alike + n + 1
         /\ \E r : /\ r = [id |-> BareId(Alike + n + 1), part |-> LastPart, keyboard |-> FALSE,
                           random |-> random, status |-> "queued"]
                   /\ rows' = IF n < Len(rows) - LastPart THEN rows ELSE Append(rows, r)
<1>1. ReplyType /\ RowsAre /\ LastPart \in Nat \ {0} /\ Len(rows) \in Nat /\ LastPart <= Len(rows) /\ Alike \in Nat
  BY AlikeIs, LenProperties DEF GoesBare, ReplyInv, ReplyType, RowsAre
<1>2. n \in Nat /\ n <= Len(rows) - LastPart
  BY <1>1 DEF GoesBare
<1>3. reply[LastPart] \in Words
  BY <1>1, ElementOfSeq DEF ReplyType, LastPart
<1>4. BareName \in DOMAIN calls
  BY <1>1, <1>3 DEF ReplyType, BareName
<1>5. calls' = [calls EXCEPT ![BareName] = @ + 1]
  BY <1>1, LastPartIs DEF GoesBare, Reply!Bare, BareName
<1>6. DOMAIN calls' = DOMAIN calls /\ calls'[BareName] = Alike + n + 1
  BY <1>4, <1>5 DEF GoesBare
<1>. DEFINE r == [id |-> BareId(Alike + n + 1), part |-> LastPart, keyboard |-> FALSE, random |-> random, status |-> "queued"]
<1>7. rows' = Reply!Enqueued(<<r>>)
  BY <1>1, LastPartIs DEF GoesBare, Reply!Bare, BareName, BareId, Reply!Row
<1>8. r.id = BareId(Alike + n + 1)
  OBVIOUS
<1>. HIDE DEF r
<1>9. DOMAIN rows = 1..Len(rows)
  BY <1>1, LenProperties DEF RowsAre
<1>10. CASE n < Len(rows) - LastPart
  <2>1. LastPart + n + 1 \in (LastPart + 1)..Len(rows) /\ LastPart + n + 1 \in 1..Len(rows)
        /\ Alike + ((LastPart + n + 1) - LastPart) = Alike + n + 1
    BY <1>1, <1>2, <1>10
  <2>2. rows[LastPart + n + 1].id = BareId(Alike + ((LastPart + n + 1) - LastPart))
    BY <1>1, <2>1 DEF RowsAre
  <2>3. rows[LastPart + n + 1].id = r.id
    BY <1>8, <2>1, <2>2
  <2>4. Reply!IndexOf(rows, r.id) # {}
    BY <1>9, <2>1, <2>3 DEF Reply!IndexOf
  <2>5. rows' = rows
    BY <1>7, <2>4, OneRow
  <2>6. QED BY <1>6, <1>10, <2>5 DEF r
<1>11. CASE ~(n < Len(rows) - LastPart)
  <2>1. n = Len(rows) - LastPart
    BY <1>1, <1>2, <1>11
  <2>2. ASSUME NEW i \in 1..Len(rows), rows[i].id = r.id PROVE FALSE
    <3>1. CASE i \in 1..LastPart
      <4>1. rows[i].id = Reply!IdOf(i)
        BY <1>1, <3>1 DEF RowsAre
      <4>2. Alike + n + 1 \in Nat /\ Alike + n + 1 > Alike
        BY <1>1, <1>2
      <4>3. QED BY <1>1, <1>8, <2>2, <3>1, <4>1, <4>2, IdsDiffer
    <3>2. CASE i \in (LastPart + 1)..Len(rows)
      <4>1. rows[i].id = BareId(Alike + (i - LastPart))
        BY <1>1, <3>2 DEF RowsAre
      <4>2. Alike + (i - LastPart) = Alike + n + 1
        BY <1>1, <1>8, <2>2, <4>1, IdsDiffer
      <4>3. QED BY <1>1, <2>1, <3>2, <4>2
    <3>3. QED BY <1>1, <2>2, <3>1, <3>2
  <2>3. Reply!IndexOf(rows, r.id) = {}
    BY <1>9, <2>2 DEF Reply!IndexOf
  <2>4. rows' = Append(rows, r)
    BY <1>7, <2>3, OneRow
  <2>5. QED BY <1>6, <1>11, <2>4 DEF r
<1>12. QED BY <1>10, <1>11

LEMMA BareThere ==
  ASSUME NEW n, NEW random, GoesBare(n, random), n < Len(rows) - LastPart
  PROVE  ReplyInv'
<1>1. /\ ReplyInv /\ RowsAre /\ ReplyType /\ LastPart \in Nat \ {0} /\ Len(rows) \in Nat /\ Alike \in Nat /\ n \in Nat
      /\ randoms' \in Nat /\ randoms' >= randoms
  BY AlikeIs, LenProperties DEF GoesBare, ReplyInv, ReplyType, RowsAre
<1>2. DOMAIN calls' = DOMAIN calls /\ calls'[BareName] = Alike + n + 1 /\ rows' = rows
  BY BareIs
<1>3. ReplyStays
  BY SameReply DEF GoesBare
<1>4. UNCHANGED <<reply, picky, accepted, shown>> /\ at' = LastPart /\ at = LastPart /\ step' = "bare"
  BY DEF GoesBare
<1>5. calls'[BareName] \in (Alike + 1)..(Alike + (Len(rows) - LastPart))
  BY <1>1, <1>2
<1>6. rows # <<>>
  BY <1>1, EmptySeq DEF RowsAre
<1>7. \A p \in 1..(at - 1) : rows[p].status = "sent"
  BY DEF GoesBare
<1>8. HandlerIs'
  BY <1>2, <1>3, <1>4, <1>5, <1>6, <1>7 DEF HandlerIs, ReplyStays
<1>9. at' \in 1..LastPart
  BY <1>1, <1>4
<1>10. QED BY <1>1, <1>2, <1>4, <1>8, <1>9, HandlerGoes

LEMMA BareNew ==
  ASSUME NEW n, NEW random, GoesBare(n, random), ~(n < Len(rows) - LastPart)
  PROVE  ReplyInv'
<1>1. /\ ReplyInv /\ RowsAre /\ ReplyType /\ LastPart \in Nat \ {0} /\ Len(rows) \in Nat /\ Alike \in Nat /\ n \in Nat
      /\ LastPart <= Len(rows) /\ n = Len(rows) - LastPart /\ randoms \in Nat
  BY AlikeIs, LenProperties DEF GoesBare, ReplyInv, ReplyType, RowsAre
<1>2. /\ DOMAIN calls' = DOMAIN calls /\ calls'[BareName] = Alike + n + 1
      /\ \E r : /\ r = [id |-> BareId(Alike + n + 1), part |-> LastPart, keyboard |-> FALSE,
                        random |-> random, status |-> "queued"]
                /\ rows' = Append(rows, r)
  BY BareIs
<1>3. PICK r : /\ r = [id |-> BareId(Alike + n + 1), part |-> LastPart, keyboard |-> FALSE,
                       random |-> random, status |-> "queued"]
               /\ rows' = Append(rows, r)
  BY <1>2
<1>4. ReplyStays
  BY SameReply DEF GoesBare
<1>5. UNCHANGED <<reply, picky, accepted, shown>> /\ at' = LastPart /\ at = LastPart /\ step' = "bare"
  BY DEF GoesBare
<1>6. random \in (LastPart + 1)..randoms' /\ randoms' \in Nat /\ randoms' >= randoms /\ random \in Nat
  BY <1>1 DEF GoesBare
<1>7. r \in RowSet
  <2>1. BareId(Alike + n + 1) \in Words \X BOOLEAN \X Nat
    <3>1. reply[LastPart] \in Words
      BY <1>1, ElementOfSeq DEF ReplyType, LastPart
    <3>2. Alike + n + 1 \in Nat
      BY <1>1
    <3>3. QED BY <3>1, <3>2 DEF BareId, Reply!DeliveryId
  <2>2. PICK id \in Words \X BOOLEAN \X Nat : id = BareId(Alike + n + 1)
    BY <2>1
  <2>. HIDE DEF Words
  <2>3. QED BY <1>1, <1>3, <1>6, <2>2 DEF RowSet, Statuses
<1>8. /\ r.id = BareId(Alike + n + 1) /\ r.part = LastPart /\ r.keyboard = FALSE /\ r.random = random
      /\ r.status = "queued"
  BY <1>3
<1>9. /\ rows' \in Seq(RowSet) /\ Len(rows') = Len(rows) + 1 /\ rows'[Len(rows) + 1] = r
      /\ \A i \in 1..Len(rows) : rows'[i] = rows[i]
  BY <1>1, <1>3, <1>7, AppendProperties DEF RowsAre
<1>10. \A i \in 1..Len(rows') : i \in 1..Len(rows) \/ i = Len(rows) + 1
  BY <1>1, <1>9
<1>11. ReplyType'
  BY <1>1, <1>2, <1>4, <1>5 DEF ReplyType, ReplyStays
<1>12. RowsAre'
  <2>1. ASSUME NEW i \in 1..LastPart
        PROVE  rows'[i].id = Reply!IdOf(i)' /\ rows'[i].part = i /\ rows'[i].keyboard = (i = LastPart) /\ rows'[i].random = i
    <3>1. rows'[i] = rows[i]
      BY <1>1, <1>9
    <3>2. QED BY <1>1, <1>4, <3>1 DEF RowsAre, ReplyStays
  <2>2. ASSUME NEW i \in (LastPart + 1)..Len(rows')
        PROVE  /\ rows'[i].id = BareId(Alike + (i - LastPart)) /\ rows'[i].part = LastPart /\ rows'[i].keyboard = FALSE
               /\ rows'[i].random \in (LastPart + 1)..randoms'
    <3>1. CASE i \in (LastPart + 1)..Len(rows)
      <4>1. rows'[i] = rows[i]
        BY <1>1, <1>9, <3>1
      <4>2. rows[i].random \in (LastPart + 1)..randoms'
        BY <1>1, <1>6, <3>1 DEF RowsAre
      <4>3. QED BY <1>1, <3>1, <4>1, <4>2 DEF RowsAre
    <3>2. CASE i = Len(rows) + 1
      <4>1. Alike + (i - LastPart) = Alike + n + 1
        BY <1>1, <3>2
      <4>2. QED BY <1>6, <1>8, <1>9, <3>2, <4>1
    <3>3. i \in (LastPart + 1)..Len(rows) \/ i = Len(rows) + 1
      BY <1>1, <1>9
    <3>4. QED BY <3>1, <3>2, <3>3
  <2>3. \A i \in (LastPart + 1)..Len(rows') : BareId(Alike + (i - LastPart))' = BareId(Alike + (i - LastPart))
    BY <1>4 DEF BareId, Reply!DeliveryId, ReplyStays, BareName
  <2>4. LastPart <= Len(rows') /\ LastPart <= randoms'
    BY <1>1, <1>6, <1>9 DEF RowsAre
  <2>5. QED BY <1>4, <1>6, <1>9, <2>1, <2>2, <2>3, <2>4 DEF RowsAre, ReplyStays
(* What was there is settled: the parts before the last, the last, and its requests without the keyboard. *)
<1>13. rows[LastPart].status = "keyboard" /\ \A i \in (LastPart + 1)..Len(rows) : rows[i].status = "expired"
  <2>1. rows[LastPart].status = "keyboard"
    BY DEF GoesBare
  <2>2. ASSUME NEW i \in (LastPart + 1)..Len(rows) PROVE rows[i].status = "expired"
    <3>1. i # Len(rows) => rows[i].status = "expired"
      BY <1>1 DEF ReplyInv, KeyboardsAre
    <3>2. n > 0 /\ LastPart + n = Len(rows)
      BY <1>1
    <3>3. rows[Len(rows)].status = "expired"
      BY <3>2 DEF GoesBare
    <3>4. QED BY <3>1, <3>3
  <2>3. QED BY <2>1, <2>2
<1>14. \A i \in 1..Len(rows) : rows[i].status # "queued"
  <2>1. SUFFICES ASSUME NEW i \in 1..Len(rows) PROVE rows[i].status # "queued"
    OBVIOUS
  <2>2. CASE i < LastPart
    BY <1>1, <1>13, <2>2 DEF ReplyInv, InTurn
  <2>3. QED BY <1>1, <1>13, <2>2
<1>15. InTurn'
  <2>1. SUFFICES ASSUME NEW i \in 1..Len(rows'), NEW j \in 1..Len(rows'), j < i PROVE rows'[j].status # "queued"
    BY DEF InTurn
  <2>2. j \in 1..Len(rows)
    BY <1>1, <1>9, <2>1
  <2>3. QED BY <1>9, <1>14, <2>2
<1>16. KeyboardsAre'
  <2>1. LastPart \in 1..Len(rows) /\ rows'[LastPart] = rows[LastPart]
    BY <1>1, <1>9
  <2>2. ASSUME NEW i \in 1..Len(rows'), rows'[i].status = "keyboard" PROVE i = LastPart /\ picky
    <3>1. i \in 1..Len(rows) /\ rows[i].status = "keyboard"
      BY <1>8, <1>9, <1>10, <2>2
    <3>2. QED BY <1>1, <3>1 DEF ReplyInv, KeyboardsAre
  <2>3. ASSUME NEW i \in (LastPart + 1)..Len(rows'), i # Len(rows') PROVE rows'[i].status = "expired"
    <3>1. i \in (LastPart + 1)..Len(rows) /\ i \in 1..Len(rows)
      BY <1>1, <1>9, <2>3
    <3>2. QED BY <1>9, <1>13, <3>1
  <2>4. LastPart \notin accepted
    BY <1>1, <1>13 DEF ReplyInv, KeyboardsAre
  <2>5. QED BY <1>4, <1>5, <1>13, <2>1, <2>2, <2>3, <2>4 DEF KeyboardsAre, ReplyStays
<1>17. ShownIs'
  <2>1. \A i \in 1..Len(rows') : rows'[i].status = "sent" => rows'[i].random \in accepted
    BY <1>1, <1>8, <1>9, <1>10 DEF ReplyInv, ShownIs
  <2>2. ASSUME NEW i \in 1..Len(rows'), rows'[i].random \in accepted PROVE \E m \in 1..Len(shown) : shown[m] = rows'[i].part
    <3>1. CASE i \in 1..Len(rows)
      BY <1>1, <1>9, <2>2, <3>1 DEF ReplyInv, ShownIs, Shows
    <3>2. CASE i = Len(rows) + 1
      <4>1. random \in accepted /\ rows'[i].part = LastPart
        BY <1>8, <1>9, <2>2, <3>2
      <4>2. PICK k \in 1..Len(rows) : rows[k].random = random
        BY <1>1, <4>1 DEF ReplyInv, ShownIs
      <4>3. k > LastPart
        <5>1. k \in 1..LastPart => rows[k].random = k
          BY <1>1 DEF RowsAre
        <5>2. QED BY <1>1, <1>6, <4>2, <5>1
      <4>4. rows[k].part = LastPart
        BY <1>1, <4>3, RowIs
      <4>5. Shows(rows[k].part)
        BY <1>1, <4>1, <4>2 DEF ReplyInv, ShownIs
      <4>6. QED BY <4>1, <4>4, <4>5 DEF Shows
    <3>3. QED BY <1>10, <3>1, <3>2
  <2>3. ASSUME NEW x \in accepted PROVE \E i \in 1..Len(rows') : rows'[i].random = x
    <3>1. PICK i \in 1..Len(rows) : rows[i].random = x
      BY <1>1 DEF ReplyInv, ShownIs
    <3>2. i \in 1..Len(rows') /\ rows'[i].random = x
      BY <1>1, <1>9, <3>1
    <3>3. QED BY <3>2
  <2>4. ASSUME NEW m \in 1..Len(shown) PROVE \E i \in 1..Len(rows') : rows'[i].random \in accepted /\ rows'[i].part = shown[m]
    <3>1. PICK i \in 1..Len(rows) : rows[i].random \in accepted /\ rows[i].part = shown[m]
      BY <1>1 DEF ReplyInv, ShownIs
    <3>2. i \in 1..Len(rows') /\ rows'[i] = rows[i]
      BY <1>1, <1>9, <3>1
    <3>3. QED BY <3>1, <3>2
  <2>5. QED BY <1>5, <2>1, <2>2, <2>3, <2>4 DEF ShownIs, Shows
<1>18. HandlerIs'
  <2>1. rows' # <<>>
    BY <1>1, <1>9, EmptySeq
  <2>2. calls'[BareName] \in (Alike + 1)..(Alike + (Len(rows') - LastPart))
    BY <1>1, <1>2, <1>9
  <2>3. \A p \in 1..(LastPart - 1) : rows'[p].status = "sent"
    <3>1. \A p \in 1..(LastPart - 1) : p \in 1..Len(rows) /\ rows[p].status = "sent"
      BY <1>1, <1>5 DEF GoesBare
    <3>2. QED BY <1>9, <3>1
  <2>4. QED BY <1>4, <1>5, <2>1, <2>2, <2>3 DEF HandlerIs, ReplyStays
<1>19. Reply!EachPartOnce'
  <2>1. ASSUME Reply!ShownAndExpired PROVE Reply!ShownAndExpired'
    <3>1. DOMAIN rows = 1..Len(rows) /\ DOMAIN rows' = 1..Len(rows')
      BY <1>1, <1>9, LenProperties DEF RowsAre
    <3>2. PICK i \in 1..Len(rows) : rows[i].status = "expired" /\ rows[i].random \in accepted
      BY <2>1, <3>1 DEF Reply!ShownAndExpired
    <3>3. i \in 1..Len(rows') /\ rows'[i] = rows[i]
      BY <1>1, <1>9
    <3>4. QED BY <1>5, <3>1, <3>2, <3>3 DEF Reply!ShownAndExpired
  <2>2. QED BY <1>1, <1>5, <2>1 DEF ReplyInv, Reply!EachPartOnce
<1>20. QED BY <1>11, <1>12, <1>15, <1>16, <1>17, <1>18, <1>19 DEF ReplyInv

LEMMA BareStep == ReplyInv /\ (Reply!KeyboardRefused \/ Reply!BareAgain) => ReplyInv'
<1>1. ASSUME ReplyInv, Reply!KeyboardRefused PROVE ReplyInv'
  <2>1. /\ step = "waiting" /\ Reply!Status(Reply!IdOf(at)) = "keyboard" /\ step' = "bare"
        /\ Reply!Bare(randoms + 1) /\ randoms' = randoms + 1 /\ UNCHANGED <<reply, picky, at, accepted, shown>>
    BY <1>1 DEF Reply!KeyboardRefused
  <2>2. RowsAre /\ at \in 1..Len(rows) /\ rows[at].status = "keyboard"
    BY <1>1, <2>1, AwaitedIs
  <2>3. at = LastPart /\ calls[BareName] = Alike /\ \A p \in 1..(at - 1) : rows[p].status = "sent"
    BY <1>1, <2>1, <2>2 DEF ReplyInv, KeyboardsAre, HandlerIs
  <2>4. randoms \in Nat /\ LastPart \in Nat /\ LastPart <= randoms /\ Len(rows) \in Nat /\ LastPart <= Len(rows) /\ Alike \in Nat
    BY <1>1, <2>2, AlikeIs, LenProperties DEF RowsAre, ReplyInv, ReplyType
  <2>5. PICK random : random = randoms + 1
    OBVIOUS
  <2>6. random \in (LastPart + 1)..randoms' /\ 0 \in 0..(Len(rows) - LastPart) /\ calls[BareName] = Alike + 0 /\ ~(0 > 0)
        /\ randoms' \in Nat /\ randoms' >= randoms
    BY <2>1, <2>3, <2>4, <2>5
  <2>7. GoesBare(0, random)
    BY <1>1, <2>1, <2>2, <2>3, <2>5, <2>6 DEF GoesBare
  <2>8. QED BY <2>7, BareThere, BareNew
<1>2. ASSUME ReplyInv, Reply!BareAgain PROVE ReplyInv'
  <2>1. /\ step = "bare" /\ step' = step /\ Reply!BareStatus = "expired"
        /\ Reply!Bare(randoms) /\ UNCHANGED <<reply, picky, at, randoms, accepted, shown>>
    BY <1>2 DEF Reply!BareAgain
  <2>2. RowsAre
    BY <1>2, <2>1, AwaitedIs
  <2>3. PICK i \in (LastPart + 1)..Len(rows) : calls[BareName] = Alike + (i - LastPart) /\ rows[i].status = "expired"
    BY <1>2, <2>1, AwaitedIs
  <2>4. at = LastPart /\ \A p \in 1..(at - 1) : rows[p].status = "sent"
    BY <1>2, <2>1 DEF ReplyInv, HandlerIs
  <2>5. randoms \in Nat /\ LastPart \in Nat /\ Len(rows) \in Nat /\ Alike \in Nat
    BY <1>2, <2>2, AlikeIs, LenProperties DEF RowsAre, ReplyInv, ReplyType
  <2>6. rows[LastPart].status = "keyboard"
    <3>1. LastPart < Len(rows)
      BY <2>3, <2>5
    <3>2. QED BY <1>2, <3>1 DEF ReplyInv, KeyboardsAre
  <2>7. PICK n : n = i - LastPart
    OBVIOUS
  <2>8. PICK random : random = randoms
    OBVIOUS
  <2>9. rows[i].random \in (LastPart + 1)..randoms
    BY <2>2, <2>3 DEF RowsAre
  <2>10. random \in (LastPart + 1)..randoms' /\ randoms' \in Nat /\ randoms' >= randoms
    BY <2>1, <2>5, <2>8, <2>9
  <2>11. n \in 0..(Len(rows) - LastPart) /\ calls[BareName] = Alike + n /\ rows[LastPart + n].status = "expired"
    BY <2>3, <2>5, <2>7
  <2>12. GoesBare(n, random)
    BY <1>2, <2>1, <2>2, <2>4, <2>6, <2>8, <2>10, <2>11 DEF GoesBare
  <2>13. QED BY <2>12, BareThere, BareNew
<1>3. QED BY <1>1, <1>2

LEMMA ReplyStep == ReplyInv /\ [Reply!Next]_replyVars => ReplyInv'
<1>1. SUFFICES ASSUME ReplyInv, [Reply!Next]_replyVars PROVE ReplyInv'
  OBVIOUS
<1>2. CASE Reply!Send
  BY <1>1, <1>2, SendFirst, SendAgain DEF ReplyInv
<1>3. CASE Reply!PartSent \/ Reply!BareSent \/ Reply!ReplyFails \/ Reply!TimesOut \/ Reply!Crash
  BY <1>1, <1>3, PartSentStep, BareSentStep, GivesUpStep
<1>4. CASE Reply!KeyboardRefused \/ Reply!BareAgain
  BY <1>1, <1>4, BareStep
<1>5. ASSUME NEW i \in DOMAIN rows,
             Reply!Delivered(i) \/ Reply!AnswerLost(i) \/ Reply!Refused(i) \/ Reply!Lost(i, "failed") \/ Reply!Lost(i, "expired")
      PROVE  ReplyInv'
  BY <1>1, <1>5, WorldStep
<1>6. CASE UNCHANGED replyVars
  <2>1. UNCHANGED <<reply, picky, step, at, calls, rows, randoms, accepted, shown>>
    BY <1>6 DEF replyVars
  <2>2. ReplyStays
    BY <2>1, SameReply
  <2>3. ReplyType' /\ (RowsAre => RowsAre')
    <3>1. RowsAre => RowsStay /\ randoms' \in Nat /\ randoms' >= randoms
      BY <2>1 DEF RowsAre, RowsStay
    <3>2. RowsAre => RowsAre'
      BY <1>1, <2>1, <3>1, SameRows DEF ReplyInv
    <3>3. ReplyType'
      BY <1>1, <2>1, <2>2 DEF ReplyInv, ReplyType, ReplyStays
    <3>4. QED BY <3>2, <3>3
  <2>4. InTurn' /\ KeyboardsAre' /\ Reply!EachPartOnce'
    BY <1>1, <2>1, <2>2 DEF ReplyInv, InTurn, KeyboardsAre, ReplyStays, Reply!EachPartOnce, Reply!ShownAndExpired
  <2>5. ShownIs'
    BY <1>1, <2>1 DEF ReplyInv, ShownIs, Shows
  <2>6. \A p : Shows(p)' = Shows(p)
    BY <2>1 DEF Shows
  <2>7. HandlerIs'
    BY <1>1, <2>1, <2>2, <2>6 DEF ReplyInv, HandlerIs, ReplyStays
  <2>8. (rows = <<>> /\ randoms = 0) => (rows' = <<>> /\ randoms' = 0)
    BY <2>1
  <2>9. QED BY <1>1, <2>3, <2>4, <2>5, <2>7, <2>8 DEF ReplyInv
<1>7. QED BY <1>1, <1>2, <1>3, <1>4, <1>5, <1>6 DEF Reply!Next

LEMMA ReplyStart == Reply!Init => ReplyInv
<1>1. SUFFICES ASSUME Reply!Init PROVE ReplyInv
  OBVIOUS
<1>2. reply \in Answers /\ picky \in BOOLEAN /\ step = "given" /\ at = 1 /\ rows = <<>> /\ randoms = 0
      /\ accepted = {} /\ shown = <<>> /\ calls = [k \in Reply!Texts \X BOOLEAN |-> 0]
  BY <1>1 DEF Reply!Init
<1>3. \A r \in Answers : r \in Seq(Words) /\ Len(r) \in Nat \ {0}
  <2>1. <<"a", "a", "b">> \in Seq(Words) /\ <<"a", "b", "a">> \in Seq(Words) /\ <<"a", "a">> \in Seq(Words)
    BY DEF Words
  <2>2. Len(<<"a", "a", "b">>) = 3 /\ Len(<<"a", "b", "a">>) = 3 /\ Len(<<"a", "a">>) = 2
    OBVIOUS
  <2>3. \A r \in Answers : r = <<"a", "a", "b">> \/ r = <<"a", "b", "a">> \/ r = <<"a", "a">>
    BY DEF Answers
  <2>4. Len(<<"a", "a", "b">>) \in Nat \ {0} /\ Len(<<"a", "b", "a">>) \in Nat \ {0} /\ Len(<<"a", "a">>) \in Nat \ {0}
    BY <2>2
  <2>. HIDE DEF Words
  <2>5. SUFFICES ASSUME NEW r \in Answers PROVE r \in Seq(Words) /\ Len(r) \in Nat \ {0}
    OBVIOUS
  <2>6. CASE r = <<"a", "a", "b">>
    BY <2>1, <2>4, <2>6
  <2>7. CASE r = <<"a", "b", "a">>
    BY <2>1, <2>4, <2>7
  <2>8. CASE r = <<"a", "a">>
    BY <2>1, <2>4, <2>8
  <2>9. QED BY <2>3, <2>6, <2>7, <2>8
<1>4. Reply!Texts = Words
  <2>1. Reply!Texts = UNION {Reply!ToSet(r) : r \in Answers}
    BY DEF Reply!Texts
  <2>2. \A r \in Answers : Reply!ToSet(r) = {"a", "b"} \/ Reply!ToSet(r) = {"a"}
    BY DEF Answers, Reply!ToSet
  <2>3. <<"a", "a", "b">> \in Answers /\ Reply!ToSet(<<"a", "a", "b">>) = {"a", "b"}
    BY DEF Answers, Reply!ToSet
  <2>4. QED BY <2>1, <2>2, <2>3 DEF Words
<1>5. reply \in Seq(Words) /\ LastPart \in Nat \ {0}
  BY <1>2, <1>3 DEF LastPart
<1>6. Len(rows) = 0 /\ Len(shown) = 0 /\ shown \in Seq(1..LastPart) /\ DOMAIN shown = {}
  BY <1>2, EmptySeq
<1>7. DOMAIN calls = Words \X BOOLEAN
  BY <1>2, <1>4
<1>8. ReplyType
  BY <1>2, <1>5, <1>6, <1>7 DEF ReplyType
<1>9. InTurn /\ KeyboardsAre /\ ShownIs
  <2>1. 1..Len(rows) = {} /\ 1..Len(shown) = {} /\ (LastPart + 1)..Len(rows) = {} /\ ~(LastPart <= Len(rows))
        /\ ~(LastPart < Len(rows))
    BY <1>5, <1>6
  <2>2. QED BY <1>2, <2>1 DEF InTurn, KeyboardsAre, ShownIs
<1>10. HandlerIs /\ Reply!EachPartOnce
  BY <1>2, <1>6 DEF HandlerIs, Reply!EachPartOnce
<1>11. QED BY <1>2, <1>8, <1>9, <1>10 DEF ReplyInv

LEMMA ReplyGives == ReplyInv => Reply!EachPartOnce /\ Reply!WholeReply
<1>1. SUFFICES ASSUME ReplyInv, step = "done" PROVE Reply!ToSet(shown) = Reply!Parts
  BY DEF ReplyInv, Reply!WholeReply
<1>2. shown \in Seq(1..LastPart) /\ DOMAIN shown = 1..Len(shown) /\ Reply!Parts = 1..LastPart
  BY <1>1, LastPartIs, LenProperties DEF ReplyInv, ReplyType
<1>3. \A m \in 1..Len(shown) : shown[m] \in 1..LastPart
  BY <1>2, ElementOfSeq
<1>4. \A p \in 1..LastPart : \E m \in 1..Len(shown) : shown[m] = p
  BY <1>1 DEF ReplyInv, HandlerIs, Shows
<1>5. QED BY <1>2, <1>3, <1>4 DEF Reply!ToSet

-----------------------------------------------------------------------------
(* The database after an update *)

Processes == Neighbours \cup {bot}
States == {"down", "looked", "stamping", "stamped", "upgrading", "creating", "altering", "recording", "reading",
           "moving", "initialising", "adding", "running"}

(* Whoever is past the fourth table has made that of the users, and nobody takes a table away. *)
StagesInv ==
  /\ progress \in [Processes -> States] /\ stage \in [Processes -> Nat]
  /\ \A p \in Processes : progress[p] = "adding" => stage[p] > 3
  /\ \A p \in Processes : stage[p] > 3 => "users" \in tables
  /\ "events" \in tables => "users" \in tables
  /\ progress[bot] = "creating" => "users" \in tables

LEMMA ProcessGoes ==
  ASSUME StagesInv, NEW p \in Processes, NEW s \in States, Upgrade!Goes(p, s)
  PROVE  /\ progress' \in [Processes -> States] /\ progress'[p] = s
         /\ \A q \in Processes \ {p} : progress'[q] = progress[q]
  BY DEF StagesInv, Upgrade!Goes

(* The process p goes on to s, which is not a missing column. *)
Onward(p, s) ==
  /\ s \in States \ {"adding"} /\ Upgrade!Goes(p, s)
  /\ stage' = stage \/ stage' = [stage EXCEPT ![p] = 0]
  /\ tables \subseteq tables' /\ ("events" \in tables' => "users" \in tables')
  /\ s = "creating" => "users" \in tables'

LEMMA StagesStay ==
  ASSUME StagesInv, NEW p \in Processes, NEW s, Onward(p, s)
  PROVE  StagesInv'
<1>1. /\ progress' \in [Processes -> States] /\ progress'[p] = s /\ s # "adding"
      /\ \A q \in Processes \ {p} : progress'[q] = progress[q]
  BY ProcessGoes DEF Onward
<1>2. /\ stage' \in [Processes -> Nat] /\ (\A q \in Processes : stage'[q] > 3 => stage[q] > 3)
      /\ \A q \in Processes \ {p} : stage'[q] = stage[q]
  BY DEF StagesInv, Onward
<1>3. "users" \in tables => "users" \in tables'
  BY DEF Onward
<1>4. progress'[bot] = "creating" => "users" \in tables'
  BY <1>1, <1>3 DEF StagesInv, Onward, Processes
<1>5. QED BY <1>1, <1>2, <1>3, <1>4 DEF StagesInv, Onward

LEMMA StagesSame ==
  ASSUME StagesInv, UNCHANGED <<progress, stage, tables>>
  PROVE  StagesInv'
  BY DEF StagesInv

LEMMA SchemaIs == Len(Upgrade!Schema) = 5 /\ Upgrade!Schema[4] = "users" /\ Upgrade!Schema[5] = "events" /\ Len(Upgrade!Added) = 2
  BY DEF Upgrade!Schema, Upgrade!Added

LEMMA MigratesStages == StagesInv /\ Upgrade!Migrates => StagesInv'
<1>. SUFFICES ASSUME StagesInv, Upgrade!Migrates PROVE StagesInv'
  OBVIOUS
<1>0. bot \in Processes
  BY DEF Processes
<1>1. CASE Upgrade!Looks \/ Upgrade!Decides \/ Upgrade!Stamps \/ Upgrade!Records
  <2>1. \E s : Onward(bot, s)
    BY <1>1 DEF Upgrade!Looks, Upgrade!Decides, Upgrade!Stamps, Upgrade!Records, Upgrade!BotOnly, Upgrade!database,
                States, StagesInv, Onward
  <2>2. QED BY <1>0, <2>1, StagesStay
<1>2. CASE Upgrade!MakesHistory
  <2>1. UNCHANGED <<tables, stage>> /\ (Upgrade!Goes(bot, "stamped") \/ UNCHANGED progress)
    BY <1>2 DEF Upgrade!MakesHistory, Upgrade!BotOnly
  <2>2. Upgrade!Goes(bot, "stamped") => Onward(bot, "stamped")
    BY <2>1 DEF Onward, StagesInv, States
  <2>3. QED BY <1>0, <2>1, <2>2, StagesStay, StagesSame
<1>3. CASE Upgrade!CreatesFirst
  <2>1. stage' = stage
    BY <1>3 DEF Upgrade!CreatesFirst, Upgrade!BotOnly
  <2>2. CASE Upgrade!Fails(bot)
    <3>1. Onward(bot, "down")
      BY <2>1, <2>2 DEF Upgrade!Fails, Onward, StagesInv, States
    <3>2. QED BY <1>0, <3>1, StagesStay
  <2>3. CASE tables' = tables \cup {"users"} /\ Upgrade!Goes(bot, "creating")
    <3>1. Onward(bot, "creating")
      BY <2>1, <2>3 DEF Onward, States
    <3>2. QED BY <1>0, <3>1, StagesStay
  <2>4. CASE progress[bot] = "creating" /\ tables' = tables \cup {"events"} /\ Upgrade!Goes(bot, "recording")
    <3>1. Onward(bot, "recording")
      BY <2>1, <2>4 DEF Onward, States, StagesInv
    <3>2. QED BY <1>0, <3>1, StagesStay
  <2>5. QED BY <1>3, <2>2, <2>3, <2>4 DEF Upgrade!CreatesFirst
<1>4. CASE Upgrade!CreatesMissing \/ Upgrade!InspectsSubgroup \/ Upgrade!AddsSubgroup
  <2>1. \E s : Onward(bot, s)
    BY <1>4 DEF Upgrade!CreatesMissing, Upgrade!InspectsSubgroup, Upgrade!AddsSubgroup, Upgrade!Alters, Upgrade!Fails,
                Upgrade!BotOnly, Upgrade!database, States, StagesInv, Onward
  <2>2. QED BY <1>0, <2>1, StagesStay
<1>5. CASE Upgrade!ReadsUsers \/ Upgrade!MovesUsers \/ Upgrade!Upgraded
  <2>1. \E s : Onward(bot, s)
    BY <1>5 DEF Upgrade!ReadsUsers, Upgrade!MovesUsers, Upgrade!Upgraded, Upgrade!database, States, StagesInv, Onward
  <2>2. QED BY <1>0, <2>1, StagesStay
<1>6. QED BY <1>1, <1>2, <1>3, <1>4, <1>5 DEF Upgrade!Migrates

LEMMA InitialisesStages ==
  ASSUME StagesInv, NEW p \in Processes, Upgrade!Initialises(p)
  PROVE  StagesInv'
<1>1. CASE Upgrade!Creates(p)
  <2>1. /\ progress' = progress /\ progress[p] = "initialising" /\ stage[p] < 5
        /\ tables' = tables \cup {Upgrade!Schema[stage[p] + 1]}
        /\ stage' = [stage EXCEPT ![p] = @ + 1]
    BY <1>1, SchemaIs DEF Upgrade!Creates, Upgrade!Initialising, Upgrade!Advances
  <2>2. stage' \in [Processes -> Nat] /\ stage'[p] = stage[p] + 1 /\ \A q \in Processes \ {p} : stage'[q] = stage[q]
    BY <2>1 DEF StagesInv
  <2>3. stage'[p] > 3 => "users" \in tables'
    <3>1. stage[p] \in Nat
      BY DEF StagesInv
    <3>2. stage[p] = 3 => Upgrade!Schema[stage[p] + 1] = "users"
      BY SchemaIs
    <3>3. QED BY <2>1, <2>2, <3>1, <3>2 DEF StagesInv
  <2>4. "events" \in tables' => "users" \in tables'
    <3>1. stage[p] \in Nat
      BY DEF StagesInv
    <3>2. stage[p] \in {0, 1, 2, 3} => "events" \notin {Upgrade!Schema[stage[p] + 1]}
      BY DEF Upgrade!Schema
    <3>3. QED BY <2>1, <3>1, <3>2 DEF StagesInv
  <2>5. QED BY <2>1, <2>2, <2>3, <2>4 DEF StagesInv
<1>2. CASE Upgrade!Inspects(p)
  <2>1. progress[p] = "initialising" /\ stage[p] > 3 /\ tables' = tables
    BY <1>2, SchemaIs DEF Upgrade!Inspects, Upgrade!Initialising, Upgrade!AtColumns, Upgrade!database, StagesInv
  <2>2. CASE Upgrade!Goes(p, "adding") /\ stage' = stage
    <3>1. /\ progress' \in [Processes -> States] /\ progress'[p] = "adding"
          /\ \A q \in Processes \ {p} : progress'[q] = progress[q]
      BY <2>2, ProcessGoes DEF States
    <3>2. progress'[bot] = "creating" => progress[bot] = "creating"
      BY <3>1 DEF Processes
    <3>3. QED BY <2>1, <2>2, <3>1, <3>2 DEF StagesInv
  <2>3. CASE Upgrade!Advances(p) /\ progress' = progress
    <3>1. stage' \in [Processes -> Nat] /\ stage'[p] > 3 /\ \A q \in Processes \ {p} : stage'[q] = stage[q]
      BY <2>1, <2>3 DEF Upgrade!Advances, StagesInv
    <3>2. QED BY <2>1, <2>3, <3>1 DEF StagesInv
  <2>4. QED BY <1>2, <2>2, <2>3 DEF Upgrade!Inspects
<1>3. CASE Upgrade!Adds(p)
  <2>1. PICK s \in {"down", "initialising"} : Upgrade!Goes(p, s) /\ tables' = tables
    BY <1>3 DEF Upgrade!Adds, Upgrade!Alters, Upgrade!Fails
  <2>2. /\ progress' \in [Processes -> States] /\ progress'[p] = s
        /\ \A q \in Processes \ {p} : progress'[q] = progress[q]
    BY <2>1, ProcessGoes DEF States
  <2>3. stage[p] > 3
    BY <1>3 DEF Upgrade!Adds, StagesInv
  <2>4. stage' \in [Processes -> Nat] /\ \A q \in Processes \ {p} : stage'[q] = stage[q]
    BY <1>3 DEF Upgrade!Adds, StagesInv
  <2>5. progress'[bot] = "creating" => progress[bot] = "creating"
    BY <2>2 DEF Processes
  <2>6. QED BY <2>1, <2>2, <2>3, <2>4, <2>5 DEF StagesInv
<1>4. CASE Upgrade!Normalises(p)
  <2>1. Onward(p, "running")
    BY <1>4 DEF Upgrade!Normalises, Upgrade!database, Onward, States, StagesInv
  <2>2. QED BY <2>1, StagesStay
<1>5. QED BY <1>1, <1>2, <1>3, <1>4 DEF Upgrade!Initialises

LEMMA StagesStep == StagesInv /\ [Upgrade!Next]_upgradeVars => StagesInv'
<1>. SUFFICES ASSUME StagesInv, [Upgrade!Next]_upgradeVars PROVE StagesInv'
  OBVIOUS
<1>1. ASSUME NEW p \in Processes, Upgrade!Starts(p) \/ Upgrade!Crashes(p) PROVE StagesInv'
  <2>1. \E s : Onward(p, s)
    BY <1>1 DEF Upgrade!Starts, Upgrade!Crashes, Upgrade!database, Onward, States, StagesInv
  <2>2. QED BY <2>1, StagesStay
<1>2. CASE (\E u \in Profiles : Upgrade!LogsIn(u)) \/ UNCHANGED upgradeVars
  BY <1>2, StagesSame DEF Upgrade!LogsIn, Upgrade!database, upgradeVars
<1>3. QED BY <1>1, <1>2, MigratesStages, InitialisesStages DEF Upgrade!Next, Processes

LEMMA StagesStart == Upgrade!Init => StagesInv
<1>. SUFFICES ASSUME Upgrade!Init PROVE StagesInv
  OBVIOUS
<1>1. /\ progress = [p \in Processes |-> "down"] /\ stage = [p \in Processes |-> 0]
      /\ "events" \in tables => "users" \in tables
  BY DEF Upgrade!Init, Upgrade!Database, Upgrade!Tables, Processes
<1>2. QED BY <1>1 DEF StagesInv, States, Processes

(* The rows that the last revision has read, and those that it has moved, are all but the old. *)
MovedInv ==
  /\ revision \in 0..5
  /\ progress[bot] \in {"reading", "moving"} => revision = 4
  /\ progress[bot] = "altering" => revision = 2
  /\ progress[bot] = "creating" => revision = 0
  /\ progress[bot] = "recording" => revision \in 0..3
  /\ progress[bot] = "moving" => profiles \subseteq moved.keyed \cup excused
  /\ revision = 5 => profiles \subseteq joined \cup excused

AtWork == {"reading", "moving", "altering", "creating", "recording"}

LEMMA MovedStays ==
  ASSUME MovedInv, UNCHANGED <<revision, profiles, moved, excused>>, joined \subseteq joined',
         progress'[bot] = progress[bot] \/ progress'[bot] \notin AtWork
  PROVE  MovedInv'
  BY DEF MovedInv, AtWork

LEMMA MigratesMoved == StagesInv /\ MovedInv /\ Upgrade!Migrates => MovedInv'
<1>. SUFFICES ASSUME StagesInv, MovedInv, Upgrade!Migrates PROVE MovedInv'
  OBVIOUS
<1>0. \A s \in States : Upgrade!Goes(bot, s) => progress'[bot] = s
  BY ProcessGoes DEF Processes
<1>1. CASE Upgrade!Looks \/ Upgrade!Decides \/ Upgrade!Upgraded \/ Upgrade!MakesHistory
  <2>1. UNCHANGED <<revision, profiles, moved, excused, joined>>
    BY <1>1 DEF Upgrade!Looks, Upgrade!Decides, Upgrade!Upgraded, Upgrade!MakesHistory, Upgrade!BotOnly, Upgrade!people,
                Upgrade!database
  <2>2. progress'[bot] = progress[bot] \/ progress'[bot] \notin AtWork
    BY <1>0, <1>1 DEF Upgrade!Looks, Upgrade!Decides, Upgrade!Upgraded, Upgrade!MakesHistory, States, AtWork
  <2>3. QED BY <2>1, <2>2, MovedStays
<1>2. CASE Upgrade!Stamps \/ Upgrade!Records
  <2>1. progress'[bot] = "upgrading"
    BY <1>0, <1>2 DEF Upgrade!Stamps, Upgrade!Records, States
  <2>2. revision' \in 0..4
    BY <1>2 DEF Upgrade!Stamps, Upgrade!Records, MovedInv
  <2>3. QED BY <2>1, <2>2 DEF MovedInv
<1>3. CASE Upgrade!CreatesFirst
  <2>1. UNCHANGED <<revision, profiles, moved, excused, joined>>
    BY <1>3 DEF Upgrade!CreatesFirst, Upgrade!BotOnly, Upgrade!people
  <2>2. revision = 0
    BY <1>3 DEF Upgrade!CreatesFirst, Upgrade!Upgrading, MovedInv
  <2>3. progress'[bot] \in {"down", "creating", "recording"}
    BY <1>0, <1>3 DEF Upgrade!CreatesFirst, Upgrade!Fails, States
  <2>4. QED BY <2>1, <2>2, <2>3 DEF MovedInv
<1>4. CASE Upgrade!CreatesMissing \/ Upgrade!InspectsSubgroup
  <2>1. UNCHANGED <<revision, profiles, moved, excused, joined>>
    BY <1>4 DEF Upgrade!CreatesMissing, Upgrade!InspectsSubgroup, Upgrade!BotOnly, Upgrade!people, Upgrade!database
  <2>2. \/ revision \in 0..3 /\ progress'[bot] = "recording"
        \/ revision = 4 /\ progress'[bot] = "reading"
        \/ revision = 2 /\ progress'[bot] = "altering"
    BY <1>0, <1>4 DEF Upgrade!CreatesMissing, Upgrade!InspectsSubgroup, Upgrade!Upgrading, States
  <2>3. QED BY <2>1, <2>2 DEF MovedInv
<1>5. CASE Upgrade!AddsSubgroup
  <2>1. UNCHANGED <<revision, profiles, moved, excused, joined>> /\ revision = 2
    BY <1>5 DEF Upgrade!AddsSubgroup, Upgrade!BotOnly, Upgrade!people, MovedInv
  <2>2. progress'[bot] \in {"down", "recording"}
    BY <1>0, <1>5 DEF Upgrade!AddsSubgroup, Upgrade!Alters, Upgrade!Fails, States
  <2>3. QED BY <2>1, <2>2 DEF MovedInv
<1>6. CASE Upgrade!ReadsUsers
  <2>1. UNCHANGED <<revision, profiles, joined>> /\ revision = 4 /\ progress'[bot] = "moving"
    BY <1>0, <1>6 DEF Upgrade!ReadsUsers, Upgrade!database, MovedInv, States
  <2>2. profiles \subseteq moved'.keyed \cup excused'
    BY <1>6 DEF Upgrade!ReadsUsers, Upgrade!TooOld
  <2>3. QED BY <2>1, <2>2 DEF MovedInv
<1>7. CASE Upgrade!MovesUsers
  <2>1. /\ revision' = 5 /\ progress'[bot] = "upgrading" /\ joined' = joined \cup moved.keyed
        /\ UNCHANGED <<profiles, excused>>
    BY <1>0, <1>7 DEF Upgrade!MovesUsers, Upgrade!Newest, States
  <2>2. profiles \subseteq moved.keyed \cup excused
    BY <1>7 DEF Upgrade!MovesUsers, MovedInv
  <2>3. QED BY <2>1, <2>2 DEF MovedInv
<1>8. QED BY <1>1, <1>2, <1>3, <1>4, <1>5, <1>6, <1>7 DEF Upgrade!Migrates

(* What a process does beside the migrations. *)
LEMMA OthersGo ==
  ASSUME StagesInv, NEW p \in Processes,
         \/ Upgrade!Initialises(p) \/ Upgrade!Crashes(p) \/ Upgrade!Starts(p)
  PROVE  /\ progress'[bot] = progress[bot]
            \/ (p = bot /\ progress'[bot] \in {"initialising", "adding", "running", "down"})
         /\ UNCHANGED <<versioned, revision, known, profiles, moved, excused, joined>>
<1>1. PICK s \in {"initialising", "adding", "running", "down"} : Upgrade!Goes(p, s) \/ progress' = progress
  BY DEF Upgrade!Initialises, Upgrade!Creates, Upgrade!Inspects, Upgrade!Adds, Upgrade!Alters, Upgrade!Fails,
         Upgrade!Normalises, Upgrade!Crashes, Upgrade!Starts
<1>2. bot \in Processes /\ s \in States
  BY DEF Processes, States
<1>3. Upgrade!Goes(p, s) => progress'[p] = s /\ (p # bot => progress'[bot] = progress[bot])
  BY <1>2, ProcessGoes
<1>4. QED
  BY <1>1, <1>3
     DEF Upgrade!Initialises, Upgrade!Creates, Upgrade!Inspects, Upgrade!Adds, Upgrade!Normalises, Upgrade!Crashes,
         Upgrade!Starts, Upgrade!people, Upgrade!database

LEMMA MovedStep == StagesInv /\ MovedInv /\ [Upgrade!Next]_upgradeVars => MovedInv'
<1>. SUFFICES ASSUME StagesInv, MovedInv, [Upgrade!Next]_upgradeVars PROVE MovedInv'
  OBVIOUS
<1>1. ASSUME NEW p \in Processes, Upgrade!Initialises(p) \/ Upgrade!Crashes(p) \/ Upgrade!Starts(p)
      PROVE  MovedInv'
  <2>1. progress'[bot] = progress[bot] \/ progress'[bot] \notin AtWork
    BY <1>1, OthersGo DEF AtWork
  <2>2. UNCHANGED <<revision, profiles, moved, excused, joined>>
    BY <1>1, OthersGo
  <2>3. QED BY <2>1, <2>2, MovedStays
<1>2. CASE (\E u \in Profiles : Upgrade!LogsIn(u)) \/ UNCHANGED upgradeVars
  BY <1>2, MovedStays DEF Upgrade!LogsIn, Upgrade!database, upgradeVars
<1>3. QED BY <1>1, <1>2, MigratesMoved DEF Upgrade!Next, Processes

LEMMA MovedStart == Upgrade!Init => MovedInv
<1>. SUFFICES ASSUME Upgrade!Init PROVE MovedInv
  OBVIOUS
<1>1. progress[bot] = "down" /\ revision \in {0, 1, 4}
  BY DEF Upgrade!Init, Upgrade!Database
<1>2. QED BY <1>1 DEF MovedInv

(* There is a history once a revision is recorded or begun. *)
FlagsInv ==
  /\ interrupted \in BOOLEAN /\ versioned \in BOOLEAN /\ known \in BOOLEAN
  /\ versioned = FALSE => revision = 0
  /\ progress[bot] \in AtWork \cup {"stamped"} => versioned = TRUE

LEMMA FlagsStay ==
  ASSUME FlagsInv, UNCHANGED <<versioned, revision, known>>, interrupted' \in BOOLEAN,
         progress'[bot] = progress[bot] \/ progress'[bot] \notin AtWork \cup {"stamped"}
  PROVE  FlagsInv'
  BY DEF FlagsInv

LEMMA MigratesFlags == StagesInv /\ FlagsInv /\ Upgrade!Migrates => FlagsInv' /\ interrupted' = interrupted
<1>. SUFFICES ASSUME StagesInv, FlagsInv, Upgrade!Migrates PROVE FlagsInv' /\ interrupted' = interrupted
  OBVIOUS
<1>0. \A s \in States : Upgrade!Goes(bot, s) => progress'[bot] = s
  BY ProcessGoes DEF Processes
<1>1. interrupted' = interrupted
  BY DEF Upgrade!Migrates, Upgrade!Looks, Upgrade!Decides, Upgrade!MakesHistory, Upgrade!Stamps, Upgrade!CreatesFirst,
         Upgrade!CreatesMissing, Upgrade!InspectsSubgroup, Upgrade!AddsSubgroup, Upgrade!Records, Upgrade!ReadsUsers,
         Upgrade!MovesUsers, Upgrade!Upgraded
<1>2. CASE Upgrade!Looks
  <2>1. progress'[bot] = "looked" /\ UNCHANGED <<versioned, revision>> /\ known' \in BOOLEAN
    BY <1>0, <1>2 DEF Upgrade!Looks, Upgrade!database, States
  <2>2. QED BY <1>1, <2>1 DEF FlagsInv, AtWork
<1>3. CASE Upgrade!Decides \/ Upgrade!Upgraded
  <2>1. progress'[bot] \in {"stamping", "upgrading", "initialising"} /\ UNCHANGED <<versioned, revision, known>>
    BY <1>0, <1>3 DEF Upgrade!Decides, Upgrade!Upgraded, Upgrade!database, States
  <2>2. QED BY <1>1, <2>1, FlagsStay DEF FlagsInv, AtWork
<1>4. CASE Upgrade!MakesHistory
  <2>1. versioned' = TRUE /\ known' = known
    BY <1>4 DEF Upgrade!MakesHistory
  <2>2. QED BY <1>1, <2>1 DEF FlagsInv
<1>5. CASE Upgrade!Stamps \/ Upgrade!Records
  <2>1. versioned' = versioned /\ versioned = TRUE /\ known' = known
    BY <1>5 DEF Upgrade!Stamps, Upgrade!Records, FlagsInv, AtWork
  <2>2. QED BY <1>1, <2>1 DEF FlagsInv
<1>6. CASE Upgrade!CreatesFirst \/ Upgrade!CreatesMissing \/ Upgrade!InspectsSubgroup \/ Upgrade!AddsSubgroup
  <2>1. UNCHANGED <<versioned, known>>
    BY <1>6 DEF Upgrade!CreatesFirst, Upgrade!CreatesMissing, Upgrade!InspectsSubgroup, Upgrade!AddsSubgroup,
                Upgrade!database
  <2>2. versioned \/ progress[bot] \in AtWork
    BY <1>6 DEF Upgrade!CreatesFirst, Upgrade!CreatesMissing, Upgrade!InspectsSubgroup, Upgrade!AddsSubgroup,
                Upgrade!Upgrading, AtWork
  <2>3. versioned = TRUE
    BY <2>2 DEF FlagsInv
  <2>4. QED BY <1>1, <2>1, <2>3 DEF FlagsInv
<1>7. CASE Upgrade!ReadsUsers \/ Upgrade!MovesUsers
  <2>1. UNCHANGED <<versioned, known>> /\ versioned = TRUE
    BY <1>7 DEF Upgrade!ReadsUsers, Upgrade!MovesUsers, Upgrade!database, FlagsInv, AtWork
  <2>2. QED BY <1>1, <2>1 DEF FlagsInv
<1>8. QED BY <1>1, <1>2, <1>3, <1>4, <1>5, <1>6, <1>7 DEF Upgrade!Migrates

LEMMA FlagsStep == StagesInv /\ FlagsInv /\ [Upgrade!Next]_upgradeVars => FlagsInv'
<1>. SUFFICES ASSUME StagesInv, FlagsInv, [Upgrade!Next]_upgradeVars PROVE FlagsInv'
  OBVIOUS
<1>1. ASSUME NEW p \in Processes, Upgrade!Initialises(p) \/ Upgrade!Crashes(p) \/ Upgrade!Starts(p)
      PROVE  FlagsInv'
  <2>1. progress'[bot] = progress[bot] \/ progress'[bot] \notin AtWork \cup {"stamped"}
    BY <1>1, OthersGo DEF AtWork
  <2>2. UNCHANGED <<versioned, revision, known>>
    BY <1>1, OthersGo
  <2>3. interrupted' \in BOOLEAN
    BY <1>1 DEF Upgrade!Initialises, Upgrade!Creates, Upgrade!Inspects, Upgrade!Adds, Upgrade!Normalises,
                Upgrade!Crashes, Upgrade!Starts, FlagsInv
  <2>4. QED BY <2>1, <2>2, <2>3, FlagsStay
<1>2. CASE (\E u \in Profiles : Upgrade!LogsIn(u)) \/ UNCHANGED upgradeVars
  <2>1. UNCHANGED <<versioned, revision, known, interrupted, progress>>
    BY <1>2 DEF Upgrade!LogsIn, Upgrade!database, upgradeVars
  <2>2. QED BY <2>1, FlagsStay DEF FlagsInv
<1>3. QED BY <1>1, <1>2, MigratesFlags DEF Upgrade!Next, Processes

LEMMA FlagsStart == Upgrade!Init => FlagsInv
<1>. SUFFICES ASSUME Upgrade!Init PROVE FlagsInv
  OBVIOUS
<1>1. progress[bot] = "down" /\ interrupted = FALSE /\ known = FALSE
  BY DEF Upgrade!Init
<1>2. versioned \in BOOLEAN /\ (versioned = FALSE => revision = 0)
  BY DEF Upgrade!Init, Upgrade!Database
<1>3. QED BY <1>1, <1>2 DEF FlagsInv, AtWork

(* A bot that has its history but no revision yet is at work on the first one, and nobody else
   has begun it, or something was cut short. *)
DeadInv ==
  interrupted = FALSE /\ revision = 0 =>
    /\ versioned = TRUE => progress[bot] \in {"upgrading", "stamped", "creating", "recording"}
    /\ progress[bot] = "stamping" => versioned = FALSE
    /\ progress[bot] = "looked" /\ known = FALSE => "users" \notin tables
    /\ progress[bot] = "upgrading" => known = FALSE /\ "users" \notin tables
    /\ progress[bot] = "creating" => "events" \notin tables

LEMMA DeadInvGives == FlagsInv /\ DeadInv => Upgrade!DeadEndOnlyIfCut
<1>. SUFFICES ASSUME FlagsInv, DeadInv, Upgrade!DeadEnd, interrupted = FALSE PROVE FALSE
  BY DEF FlagsInv, Upgrade!DeadEndOnlyIfCut
<1>1. versioned = TRUE /\ revision = 0 /\ "users" \in tables /\ progress[bot] \notin {"stamped", "creating", "recording"}
  BY DEF Upgrade!DeadEnd, FlagsInv
<1>2. QED BY <1>1 DEF DeadInv

(* The first revision comes to its end, or what is there already stops it. *)
LEMMA MigratesDead == StagesInv /\ MovedInv /\ FlagsInv /\ DeadInv /\ Upgrade!Migrates => DeadInv'
<1>. SUFFICES ASSUME StagesInv, MovedInv, FlagsInv, DeadInv, Upgrade!Migrates, interrupted = FALSE, revision' = 0
              PROVE  DeadInv'
  BY MigratesFlags DEF DeadInv
<1>0. (\A s \in States : Upgrade!Goes(bot, s) => progress'[bot] = s) /\ interrupted' = FALSE
  BY ProcessGoes, MigratesFlags DEF Processes
<1>1. CASE Upgrade!Looks
  <2>1. /\ progress[bot] = "down" /\ progress'[bot] = "looked" /\ known' = (tables # {})
        /\ UNCHANGED <<versioned, revision, tables>>
    BY <1>0, <1>1 DEF Upgrade!Looks, Upgrade!database, States
  <2>2. versioned # TRUE
    BY <2>1 DEF DeadInv
  <2>3. known' = FALSE => "users" \notin tables'
    BY <2>1
  <2>4. QED BY <2>1, <2>2, <2>3 DEF DeadInv
<1>2. CASE Upgrade!Decides
  <2>1. progress[bot] = "looked" /\ UNCHANGED <<versioned, revision, tables, known>>
    BY <1>2 DEF Upgrade!Decides, Upgrade!database
  <2>2. versioned = FALSE
    BY <2>1 DEF DeadInv, FlagsInv
  <2>3. CASE known = TRUE
    <3>1. progress'[bot] = "stamping"
      BY <1>0, <1>2, <2>2, <2>3 DEF Upgrade!Decides, Upgrade!MustStamp, States
    <3>2. QED BY <2>1, <2>2, <3>1 DEF DeadInv
  <2>4. CASE known = FALSE
    <3>1. progress'[bot] = "upgrading"
      BY <1>0, <1>2, <2>2, <2>4 DEF Upgrade!Decides, Upgrade!MustStamp, States
    <3>2. QED BY <2>1, <2>2, <2>4, <3>1 DEF DeadInv
  <2>5. QED BY <2>3, <2>4 DEF FlagsInv
<1>3. CASE Upgrade!MakesHistory
  <2>1. UNCHANGED <<revision, tables, known>>
    BY <1>3 DEF Upgrade!MakesHistory
  <2>2. \/ progress[bot] = "stamping" /\ progress'[bot] = "stamped"
        \/ progress[bot] = "upgrading" /\ progress' = progress
    BY <1>0, <1>3 DEF Upgrade!MakesHistory, States
  <2>3. QED BY <2>1, <2>2 DEF DeadInv
<1>4. CASE Upgrade!CreatesFirst
  <2>1. UNCHANGED <<revision, versioned, known>>
    BY <1>4 DEF Upgrade!CreatesFirst
  <2>2. CASE progress[bot] = "upgrading" /\ "users" \notin tables /\ tables' = tables \cup {"users"}
             /\ Upgrade!Goes(bot, "creating")
    <3>1. progress'[bot] = "creating" /\ "events" \notin tables'
      BY <1>0, <2>2 DEF StagesInv, States
    <3>2. QED BY <3>1 DEF DeadInv
  <2>3. CASE progress[bot] = "creating" /\ "events" \notin tables /\ Upgrade!Goes(bot, "recording")
    <3>1. progress'[bot] = "recording"
      BY <1>0, <2>3 DEF States
    <3>2. QED BY <3>1 DEF DeadInv
  <2>4. progress[bot] = "upgrading" => "users" \notin tables
    BY <2>1 DEF DeadInv
  <2>5. progress[bot] = "creating" => "events" \notin tables
    BY <2>1 DEF DeadInv
  <2>6. QED BY <1>4, <2>2, <2>3, <2>4, <2>5 DEF Upgrade!CreatesFirst, Upgrade!Upgrading
<1>5. revision' # 0 \/ ~(Upgrade!Stamps \/ Upgrade!Records \/ Upgrade!MovesUsers)
  BY DEF Upgrade!Stamps, Upgrade!Records, Upgrade!MovesUsers, Upgrade!Newest, MovedInv
<1>6. ~(Upgrade!CreatesMissing \/ Upgrade!InspectsSubgroup \/ Upgrade!AddsSubgroup \/ Upgrade!ReadsUsers \/ Upgrade!Upgraded)
  BY DEF Upgrade!CreatesMissing, Upgrade!InspectsSubgroup, Upgrade!AddsSubgroup, Upgrade!ReadsUsers, Upgrade!Upgraded,
         Upgrade!Upgrading, Upgrade!Newest, Upgrade!database, MovedInv
<1>7. QED BY <1>1, <1>2, <1>3, <1>4, <1>5, <1>6 DEF Upgrade!Migrates

(* Another process makes a table: that of the users or the events only while the bot is not at it. *)
LEMMA CreatesDead ==
  ASSUME StagesInv, FlagsInv, DeadInv, NEW p \in Processes, Upgrade!Creates(p)
  PROVE  DeadInv'
<1>1. PICK t : /\ tables' = tables \cup {t} /\ UNCHANGED <<versioned, revision, known, progress>>
               /\ interrupted' = (interrupted \/ (Upgrade!AtFirst /\ t \notin tables))
  BY DEF Upgrade!Creates
<1>2. SUFFICES ASSUME interrupted' = FALSE, revision = 0 PROVE DeadInv'
  BY <1>1 DEF DeadInv
<1>3. interrupted = FALSE /\ (Upgrade!AtFirst => t \in tables)
  BY <1>1, <1>2 DEF FlagsInv
<1>4. CASE t \in tables
  BY <1>1, <1>2, <1>3, <1>4 DEF DeadInv
<1>5. CASE ~Upgrade!AtFirst
  <2>1. progress[bot] # "creating" /\ (progress[bot] \in {"looked", "upgrading"} => known = TRUE)
    BY <1>2, <1>5 DEF Upgrade!AtFirst, FlagsInv
  <2>2. QED BY <1>1, <1>2, <1>3, <2>1 DEF DeadInv
<1>6. QED BY <1>3, <1>4, <1>5

LEMMA DeadStep == StagesInv /\ MovedInv /\ FlagsInv /\ DeadInv /\ [Upgrade!Next]_upgradeVars => DeadInv'
<1>. SUFFICES ASSUME StagesInv, MovedInv, FlagsInv, DeadInv, [Upgrade!Next]_upgradeVars PROVE DeadInv'
  OBVIOUS
<1>1. ASSUME NEW p \in Processes,
             \/ Upgrade!Inspects(p) \/ Upgrade!Adds(p) \/ Upgrade!Normalises(p) \/ Upgrade!Starts(p)
      PROVE  DeadInv'
  <2>1. UNCHANGED <<tables, interrupted>> /\ progress[p] \in {"initialising", "adding", "down", "running"}
    BY <1>1 DEF Upgrade!Inspects, Upgrade!Adds, Upgrade!Alters, Upgrade!Fails, Upgrade!Normalises, Upgrade!Starts,
                Upgrade!Initialising, Upgrade!database
  <2>2. /\ progress'[bot] = progress[bot]
           \/ (p = bot /\ progress'[bot] \in {"initialising", "adding", "running", "down"})
        /\ UNCHANGED <<versioned, revision, known>>
    BY <1>1, OthersGo DEF Upgrade!Initialises
  <2>3. QED BY <2>1, <2>2 DEF DeadInv
<1>2. ASSUME NEW p \in Processes, Upgrade!Crashes(p) PROVE DeadInv'
  <2>1. /\ progress'[bot] = progress[bot] \/ (p = bot /\ progress'[bot] = "down")
        /\ UNCHANGED <<tables, versioned, revision, known>>
    <3>1. "down" \in States
      BY DEF States
    <3>2. progress'[p] = "down" /\ (p # bot => progress'[bot] = progress[bot])
      BY <1>2, <3>1, ProcessGoes DEF Upgrade!Crashes, Processes
    <3>3. QED BY <1>2, <3>2 DEF Upgrade!Crashes, Upgrade!database
  <2>2. interrupted' = (interrupted \/ (p = bot /\ versioned /\ revision = 0))
    BY <1>2 DEF Upgrade!Crashes
  <2>3. interrupted' = FALSE => interrupted = FALSE /\ ~(p = bot /\ versioned = TRUE /\ revision = 0)
    BY <2>2 DEF FlagsInv
  <2>4. QED BY <2>1, <2>3 DEF DeadInv
<1>3. CASE (\E u \in Profiles : Upgrade!LogsIn(u)) \/ UNCHANGED upgradeVars
  BY <1>3 DEF Upgrade!LogsIn, Upgrade!database, upgradeVars, DeadInv
<1>4. QED BY <1>1, <1>2, <1>3, MigratesDead, CreatesDead DEF Upgrade!Next, Upgrade!Initialises, Processes

LEMMA DeadStart == Upgrade!Init => DeadInv
<1>. SUFFICES ASSUME Upgrade!Init, revision = 0 PROVE DeadInv
  BY DEF DeadInv
<1>1. progress[bot] = "down" /\ versioned = FALSE
  BY DEF Upgrade!Init, Upgrade!Database
<1>2. QED BY <1>1 DEF DeadInv

-----------------------------------------------------------------------------
(* The union *)

\* scheduler.py:738-837, delivery_outbox.py:183-207, ocr_schedule.py:667-690, 911-932: a
\* change is not lost between the passes over its teacher, nor a caller between those who
\* share his Event, and requests share one signed-in client, which is watched.
THEOREM SharedInTurn == ProgressSpec => []SharedSafely
<1>. DEFINE Inv == TeachersInv /\ WaitersInv /\ SessionInv /\ CookiesInv
<1>1. ProgressInit => Inv
  BY EachStart, TeachersStart, WaitersStart, SessionStart
<1>2. Inv /\ [ProgressNext]_allVars => Inv'
  BY EachPart, TeachersStep, WaitersStep, SessionStep, CookiesStep
<1>3. Inv => SharedSafely
  BY DEF SharedSafely, TeachersInv, WaitersInv, SessionInv
<1>4. QED BY <1>1, <1>2, <1>3, PTL DEF ProgressSpec

\* ocr_schedule.py:744-773: a login begins with the newest cookies there are, after a restart
\* and after a task that was cancelled too, unless an older client has written over them.
THEOREM CookiesAreNewest == ProgressSpec => NewestCookies
<1>. DEFINE Inv == SessionInv /\ CookiesInv
<1>1. ProgressInit => Inv
  BY EachStart, SessionStart
<1>2. Inv /\ [ProgressNext]_allVars => Inv'
  BY EachPart, SessionStep, CookiesStep
<1>3. Inv /\ [ProgressNext]_allVars => [NewestTaken]_Gemini!vars
  BY EachPart, CookiesGive
<1>4. [][NewestTaken]_Gemini!vars => Gemini!NewestCookies
  BY PTL DEF Gemini!NewestCookies, NewestTaken
<1>5. QED BY <1>1, <1>2, <1>3, <1>4, PTL DEF ProgressSpec, NewestCookies

\* telegram_runtime.py:53-104, main.py:119-189, vk_runtime.py:226-294, outbox_context.py:38-47:
\* what Telegram has forgotten is in the hands of a handler, and it gives an update again only
\* after the polling has begun anew; a reply in VK is shown whole, in order and once, whatever
\* is lost or repeated, but for a last part whose answer was lost for a day.
THEOREM MessagesAreKept == ProgressSpec => []MessagesKept
<1>. DEFINE Inv == PollingInv /\ ReplyInv
<1>1. ProgressInit => Inv
  BY EachStart, PollingStart, ReplyStart
<1>2. Inv /\ [ProgressNext]_allVars => Inv'
  BY EachPart, PollingStep, ReplyStep
<1>3. Inv => MessagesKept
  BY PollingGives, ReplyGives DEF MessagesKept
<1>4. QED BY <1>1, <1>2, <1>3, PTL DEF ProgressSpec

\* db_migrations.py:45-66, db.py:54-428, migrations/versions: after an update everyone has an
\* account with his subscription, but for rows that were too old, and the first revision stands
\* in its own way only if it was cut short, whoever else initialises meanwhile.
THEOREM UpdatesLeaveNobody == ProgressSpec => []UpgradeHolds
<1>. DEFINE Inv == StagesInv /\ MovedInv /\ FlagsInv /\ DeadInv
<1>1. ProgressInit => Inv
  BY EachStart, StagesStart, MovedStart, FlagsStart, DeadStart
<1>2. Inv /\ [ProgressNext]_allVars => Inv'
  BY EachPart, StagesStep, MovedStep, FlagsStep, DeadStep
<1>3. Inv => UpgradeHolds
  BY DeadInvGives DEF UpgradeHolds, MovedInv, Upgrade!MovedUnlessOld, Upgrade!Newest
<1>4. QED BY <1>1, <1>2, <1>3, PTL DEF ProgressSpec
=============================================================================
