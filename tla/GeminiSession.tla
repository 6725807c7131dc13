--------------------------- MODULE GeminiSession ---------------------------
(***************************************************************************)
(* The Gemini session of the schedule photos (ocr_schedule.py 614-1177).   *)
(* Requests share one client, which the first of them signs in under a     *)
(* lock; a task per client writes its rotated cookies into the .env file   *)
(* and drops a client that Google signed out in the background.  A request *)
(* that fails with its own client drops whichever client is current.       *)
(***************************************************************************)
EXTENDS Naturals

CONSTANTS
    Requests,       \* recognitions and the warm-up
    Retries,        \* GEMINI_TRANSIENT_RETRY_DELAYS: one retry each
    MaxClients,     \* bound: clients at once
    MaxRotations,   \* bound: times Google rotates the cookies
    MaxRecognitions,\* bound: requests
    MaxSlips        \* bound: errors that are not told apart from success, sign-outs, restarts

VARIABLES
    requests,   \* request -> [step, client, try, pro]
    client,     \* self._client: the current one, 0 if there is none
    lock,       \* the request that signs in, if any
    alive,      \* clients Google has not signed out
    syncs,      \* client -> its cookie task: [step, carried]
    jar,        \* client -> version of its cookies
    cookies,    \* self.secure_1psid(ts): the version in memory
    env,        \* the version in the .env file
    latest,     \* history: the newest version ever written there
    spoiled,    \* history: an older client's thread wrote over it, or it could not be read
    recognitions, slips

vars == <<requests, client, lock, alive, syncs, jar, cookies, env, latest, spoiled, recognitions, slips>>

Clients == 1..MaxClients
Rest == [step |-> "rest", client |-> 0, try |-> 0, pro |-> FALSE]
NoTask == [step |-> "none", carried |-> 0]
Slip == slips < MaxSlips /\ slips' = slips + 1
Newer(version) == version > latest /\ \A c \in Clients : version > jar[c]

Init ==
    /\ requests = [r \in Requests |-> Rest] /\ client = 0 /\ lock = {} /\ alive = {}
    /\ syncs = [c \in Clients |-> NoTask] /\ jar = [c \in Clients |-> 0]
    /\ cookies = 0 /\ env = 0 /\ latest = 0 /\ spoiled = FALSE
    /\ recognitions = 0 /\ slips = 0

Goes(r, step) == requests' = [requests EXCEPT ![r].step = step, ![r].try = 0]
Ends(r) == requests' = [requests EXCEPT ![r] = Rest]
Session == <<client, alive, syncs>>
Files == <<jar, cookies, env, latest, spoiled>>

\* recognize and warm_up.
Begin(r) ==
    /\ requests[r].step = "rest" /\ recognitions < MaxRecognitions /\ recognitions' = recognitions + 1
    /\ requests' = [requests EXCEPT ![r].step = IF client # 0 THEN "generating" ELSE "waiting", ![r].client = client]
    /\ UNCHANGED <<Session, Files, lock, slips>>

\* Mutant: the client is not looked at again under the lock.
NeverThere == FALSE

\* _ensure_client, once more under the lock.
AlreadyThere == client # 0

Join(r) ==
    /\ requests[r].step = "waiting" /\ lock = {} /\ AlreadyThere
    /\ requests' = [requests EXCEPT ![r].step = "generating", ![r].client = client]
    /\ UNCHANGED <<Session, Files, lock, recognitions, slips>>

\* Mutant: the cookies of the environment, as they were when the process began.
FromMemory == cookies

\* _refresh_credentials_from_env_file
FromFile == env

SignIn(r) ==
    /\ requests[r].step = "waiting" /\ lock = {} /\ ~AlreadyThere
    /\ lock' = {r} /\ Goes(r, "probing")
    /\ \/ cookies' = FromFile /\ UNCHANGED <<spoiled, slips>>
       \/ Slip /\ spoiled' = TRUE /\ UNCHANGED cookies   \* the file cannot be read
    /\ UNCHANGED <<Session, jar, env, latest, recognitions>>

\* _probe_route, and _generate_with_retry below: only a transient failure is tried again.
Transient(r, step) ==
    /\ requests[r].step = step /\ requests[r].try < Retries
    /\ requests' = [requests EXCEPT ![r].try = @ + 1]
    /\ UNCHANGED <<Session, Files, lock, recognitions, slips>>

Probed(r) ==
    /\ requests[r].step = "probing" /\ Goes(r, "login")
    /\ UNCHANGED <<Session, Files, lock, recognitions, slips>>

SignInFails(r) ==
    /\ requests[r].step \in {"probing", "login", "installing"}
    /\ Slip /\ Ends(r) /\ lock' = {}
    /\ UNCHANGED <<Session, Files, recognitions>>

\* The library's cached cookies were stale: it has removed them, the next attempt takes ours.
StaleCache(r) ==
    /\ requests[r].step = "login" /\ requests[r].try = 0
    /\ requests' = [requests EXCEPT ![r].try = 1]
    /\ UNCHANGED <<Session, Files, lock, recognitions, slips>>

\* A client nobody uses any more stands for a new one.
LogsIn(r, c) ==
    /\ requests[r].step = "login"
    /\ c # client /\ syncs[c].step = "none" /\ \A q \in Requests : requests[q].client # c
    /\ requests' = [requests EXCEPT ![r].step = "installing", ![r].client = c, ![r].try = 0]
    /\ alive' = alive \cup {c} /\ jar' = [jar EXCEPT ![c] = cookies]
    /\ UNCHANGED <<client, syncs, lock, cookies, env, latest, spoiled, recognitions, slips>>

WriteEnv(version) ==
    /\ env' = version
    /\ latest' = IF version > latest THEN version ELSE latest
    /\ spoiled' = IF version < latest THEN TRUE ELSE spoiled

\* _ensure_gem, _persist_session_state; the client is there for everybody, its task begins.
Install(r) ==
    LET c == requests[r].client IN
        /\ requests[r].step = "installing" /\ Goes(r, "generating")
        /\ WriteEnv(jar[c]) /\ cookies' = jar[c]
        /\ client' = c /\ syncs' = [syncs EXCEPT ![c] = [step |-> "asleep", carried |-> 0]]
        /\ lock' = {}
        /\ UNCHANGED <<alive, jar, recognitions, slips>>

\* The answer is there; what is not JSON is asked of the other model, once.
Generated(r) ==
    /\ requests[r].step = "generating" /\ requests[r].client \in alive
    /\ \/ Ends(r)
       \/ ~requests[r].pro /\ requests' = [requests EXCEPT ![r].pro = TRUE, ![r].try = 0]
    /\ UNCHANGED <<Session, Files, lock, recognitions, slips>>

\* A limit, a block, a timeout: the client stays.
GenerationFails(r) ==
    /\ requests[r].step = "generating" /\ Slip /\ Ends(r)
    /\ UNCHANGED <<Session, Files, lock, recognitions>>

\* Task.cancel: a thread that writes already goes on.
Cancelled(c) == [syncs EXCEPT ![c] = IF @.step = "writing" THEN [@ EXCEPT !.step = "cancelled"] ELSE NoTask]

\* _invalidate_session, by a request whose client Google has signed out.
Refused(r) ==
    /\ requests[r].step = "generating" /\ requests[r].client \notin alive /\ Ends(r)
    /\ client' = 0 /\ syncs' = IF client = 0 THEN syncs ELSE Cancelled(client)
    /\ UNCHANGED <<alive, Files, lock, recognitions, slips>>

\* Google signs a client out, or gives it cookies that are newer than any there are.
SignedOut(c) ==
    /\ c \in alive /\ Slip /\ alive' = alive \ {c}
    /\ UNCHANGED <<requests, client, syncs, Files, lock, recognitions>>

Rotate(c) ==
    /\ c \in alive
    /\ \E version \in 1..MaxRotations : Newer(version) /\ jar' = [jar EXCEPT ![c] = version]
    /\ UNCHANGED <<requests, Session, cookies, env, latest, spoiled, lock, recognitions, slips>>

\* _sync_cookies_forever after COOKIE_SYNC_INTERVAL_SECONDS: signed out, or cookies to write.
NoticesDeath(c) ==
    /\ syncs[c].step = "asleep" /\ client = c /\ c \notin alive
    /\ client' = 0 /\ syncs' = [syncs EXCEPT ![c] = NoTask]
    /\ UNCHANGED <<requests, alive, Files, lock, recognitions, slips>>

WritesCookies(c) ==
    /\ syncs[c].step = "asleep" /\ client = c /\ c \in alive
    /\ syncs' = [syncs EXCEPT ![c] = [step |-> "writing", carried |-> jar[c]]]
    /\ UNCHANGED <<requests, client, alive, Files, lock, recognitions, slips>>

Written(c) ==
    /\ syncs[c].step \in {"writing", "cancelled"} /\ WriteEnv(syncs[c].carried)
    /\ cookies' = IF syncs[c].step = "writing" THEN syncs[c].carried ELSE cookies
    /\ syncs' = [syncs EXCEPT ![c] = IF @.step = "writing" THEN [@ EXCEPT !.step = "asleep"] ELSE NoTask]
    /\ UNCHANGED <<requests, client, alive, jar, lock, recognitions, slips>>

\* Mutant: the task ends with an error of the file.
TaskEnds(c) == NoTask

TaskGoesOn(c) == IF syncs[c].step = "writing" THEN [syncs[c] EXCEPT !.step = "asleep"] ELSE NoTask

WriteFails(c) ==
    /\ syncs[c].step \in {"writing", "cancelled"} /\ Slip
    /\ syncs' = [syncs EXCEPT ![c] = TaskGoesOn(c)]
    /\ UNCHANGED <<requests, client, alive, Files, lock, recognitions>>

\* The environment of the process keeps the cookies it was created with.
Restart ==
    /\ Slip /\ requests' = [r \in Requests |-> Rest] /\ client' = 0 /\ lock' = {} /\ alive' = {}
    /\ syncs' = [c \in Clients |-> NoTask] /\ cookies' = 0
    /\ UNCHANGED <<jar, env, latest, spoiled, recognitions>>

Proceeds(r) ==
    \/ Join(r) \/ SignIn(r) \/ Transient(r, "probing") \/ Probed(r) \/ SignInFails(r) \/ StaleCache(r) \/ (\E c \in Clients : LogsIn(r, c))
    \/ Install(r) \/ Transient(r, "generating") \/ Generated(r) \/ GenerationFails(r) \/ Refused(r)

Syncs(c) == NoticesDeath(c) \/ WritesCookies(c) \/ Written(c) \/ WriteFails(c)

Next ==
    \/ \E r \in Requests : Begin(r) \/ Proceeds(r)
    \/ \E c \in Clients : SignedOut(c) \/ Rotate(c) \/ Syncs(c)
    \/ Restart

Spec == Init /\ [][Next]_vars

\* A request goes on by itself: its retries are bounded; the task of a client wakes up.
Fairness == (\A r \in Requests : WF_vars(Proceeds(r))) /\ (\A c \in Clients : WF_vars(Syncs(c)))

FairSpec == Spec /\ Fairness
-----------------------------------------------------------------------------
\* The client everybody uses has its cookie task (:688): nobody else would write its
\* cookies or notice that Google has signed it out.
ClientIsWatched == client # 0 => syncs[client].step \in {"asleep", "writing"}

\* Nobody signs in while there is a client, and two never do at once (:669-673).
OneSignIn ==
    \A r \in Requests : requests[r].step \in {"probing", "login", "installing"} => client = 0 /\ lock = {r}

\* A login begins with the newest cookies that were ever written, before a restart or by
\* a task that was cancelled (:744-758), unless the file was spoiled.
NewestCookies == [][lock = {} /\ lock' # {} => cookies' = latest \/ spoiled']_vars

\* A client that was signed out in the background does not stay (:897-905, 918-928).
DeadClientsGo == \A c \in Clients : (client = c /\ c \notin alive) ~> (client # c)

\* A request ends, whatever Google answers.
RequestsEnd == \A r \in Requests : (requests[r].step # "rest") ~> (requests[r].step = "rest")
=============================================================================
