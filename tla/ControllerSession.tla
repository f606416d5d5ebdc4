------------------------- MODULE ControllerSession -------------------------
(***************************************************************************)
(* The authentication session of one config entry (api/auth.py), the       *)
(* transport that uses it (api/client.py) and the coroutines that share it *)
(* without a lock: the coordinator's refresh, the write services with      *)
(* their classification, and the logout of async_unload_entry.  A request  *)
(* carries the cookie and the CSRF token of the moment it is sent; it is   *)
(* handled by the controller and its reply delivered at later moments.     *)
(***************************************************************************)
EXTENDS Naturals, FiniteSets

CONSTANTS
    Pollers,     \* refreshes of the coordinator
    Writers,     \* service calls of entities
    NoRequest,   \* nothing on its way to the controller
    NoReply,     \* nothing on its way back
    MaxLogins,   \* bound: sessions the controller ever opens
    MaxClosures, \* bound: sessions that expire or are revoked
    MaxRefusals, \* bound: of password and permission, how many the account loses
    LoginErrors  \* may a login be answered with an unexpected HTTP status?

Tasks == Pollers \cup Writers

\* sessions are numbered as they are opened; a CSRF token and a cookie name
\* the session they belong to
None == 0
Sessions == 1..MaxLogins
Requests == [cookie : Sessions \cup {None}, token : Sessions \cup {None}]
Statuses == {"ok", "unauthorized", "forbidden"}
Replies == [status : Statuses, token : Sessions \cup {None}]

ASSUME TasksDisjoint == Pollers \cap Writers = {}
ASSUME SentinelsFresh == NoRequest \notin Requests /\ NoReply \notin Replies
ASSUME BoundsAreNaturals ==
    MaxLogins \in Nat /\ MaxClosures \in Nat /\ MaxRefusals \in Nat
ASSUME LoginErrorsIsBoolean == LoginErrors \in BOOLEAN

VARIABLES
    \* UniFiAuthSession, and the cookie jar of its HTTP session
    authenticated, csrf, cookie,
    \* the coroutines: which call each is at, where that call stands, whether it
    \* is the read's second attempt, the session its pending login opened
    stage, pc, attempt, opening,
    \* what travels: requests not yet handled, replies not yet delivered
    request, reply,
    \* the controller: its open sessions, how many it opened or closed, whether it
    \* accepts the stored password and lets the account read and write
    open, opened, closures, credentialsOk, permitted,
    \* the entry: its unload, the session its logout names, whether service calls
    \* waited for the write lock as the unload began, a reauthentication
    entry, leaving, queued, reauth,
    \* history: whether a session was closed since a refresh's last login; the
    \* requests and logins of its call and the PUTs of its operation; whether two
    \* coroutines, the unload counted, ever used the session at once; whether one
    \* outlived the unload, and whether a login was completed after it
    disturbed, sends, logins, puts, contended, overlapped, resumed

authVars == <<authenticated, csrf, cookie>>
taskVars == <<stage, pc, attempt, opening>>
wireVars == <<request, reply>>
controllerVars == <<open, opened, closures, credentialsOk, permitted>>
unloadVars == <<entry, leaving, queued>>
entryVars == <<unloadVars, reauth>>
countVars == <<sends, logins, puts>>
outliveVars == <<overlapped, resumed>>
historyVars == <<disturbed, countVars, contended, outliveVars>>
vars == <<authVars, taskVars, wireVars, controllerVars, entryVars, historyVars>>

\* a refresh reads; a service call reads, PUTs, reads back and may classify
Reads == {"poll", "before", "verify", "classify"}
Stages == Reads \cup {"none", "put"}
PcStates == {"idle", "login", "body", "sent"}
Errors == {"auth", "permission", "other"}
AuthErrors == {"auth", "permission"}

Running(t) == stage[t] # "none"

Init ==
    /\ authenticated = FALSE /\ csrf = None /\ cookie = None
    /\ stage = [t \in Tasks |-> "none"]
    /\ pc = [t \in Tasks |-> "idle"]
    /\ attempt = [t \in Tasks |-> 1]
    /\ opening = [t \in Tasks |-> None]
    /\ request = [t \in Tasks |-> NoRequest]
    /\ reply = [t \in Tasks |-> NoReply]
    /\ open = {} /\ opened = 0 /\ closures = 0
    /\ credentialsOk = TRUE /\ permitted = TRUE
    /\ entry = "loaded" /\ leaving = None /\ queued = FALSE /\ reauth = FALSE
    /\ disturbed = [p \in Pollers |-> FALSE]
    /\ sends = [t \in Tasks |-> 0]
    /\ logins = [t \in Tasks |-> 0]
    /\ puts = [t \in Tasks |-> 0]
    /\ contended = FALSE /\ overlapped = FALSE /\ resumed = FALSE

(***************************************************************************)
(* The session object.  `auth` and `token` are the values its attributes   *)
(* have got by now in a step that goes on without an await.                *)
(***************************************************************************)

Attributes(auth, token, jar) ==
    authenticated' = auth /\ csrf' = token /\ cookie' = jar

\* mutant of Forgotten: the invalidation empties the shared cookie jar as well
ForgottenWithCookie == Attributes(FALSE, None, None)
\* mutant of Forgotten: the CSRF token survives the invalidation
ForgottenButToken == Attributes(FALSE, csrf, cookie)
\* async_invalidate
Forgotten == Attributes(FALSE, None, cookie)

\* observe_response_headers
Observed(header, token) == IF header # None THEN header ELSE token

\* mutant of MayRetry: the method is not asked
MayRetryAny(t) == attempt[t] = 1
\* a read is tried once more after a 401 or 403, a write never
MayRetry(t) == attempt[t] = 1 /\ stage[t] \in Reads

(***************************************************************************)
(* Where a coroutine goes without an await.  Each operator sets the        *)
(* session's attributes and the task's position.                           *)
(***************************************************************************)

\* mutant of At: attempts are counted on over the calls of a coroutine
AtCountingOn(t, s, label, n) ==
    /\ stage' = [stage EXCEPT ![t] = s]
    /\ pc' = [pc EXCEPT ![t] = label]
    /\ attempt' = [attempt EXCEPT ![t] = attempt[t] + 1]
\* the coroutine stands at `label` of attempt n of the call of stage s
At(t, s, label, n) ==
    /\ stage' = [stage EXCEPT ![t] = s]
    /\ pc' = [pc EXCEPT ![t] = label]
    /\ attempt' = [attempt EXCEPT ![t] = n]

Counted(t, requests, tries) ==
    /\ sends' = [sends EXCEPT ![t] = requests]
    /\ logins' = [logins EXCEPT ![t] = tries]

\* the operation is over
Finish(t) ==
    /\ At(t, "none", "idle", 1)
    /\ request' = [request EXCEPT ![t] = NoRequest]
    /\ puts' = [puts EXCEPT ![t] = 0]
    /\ Counted(t, 0, 0)

\* the request leaves with the cookie and, for a write, the token
Send(t, s, n, token, requests, tries) ==
    /\ At(t, s, "sent", n)
    /\ request' = [request EXCEPT ![t] =
           [cookie |-> cookie, token |-> IF s = "put" THEN token ELSE None]]
    /\ puts' = [puts EXCEPT ![t] = IF s = "put" THEN @ + 1 ELSE @]
    /\ Counted(t, requests + 1, tries)

\* a login is posted before the request can be
LogIn(t, s, n, requests, tries) ==
    /\ At(t, s, "login", n)
    /\ request' = [request EXCEPT ![t] = NoRequest]
    /\ Counted(t, requests, tries + 1)
    /\ UNCHANGED puts

\* _classify_after_failure after an authentication or permission error
Reauthenticate(t) == Forgotten /\ LogIn(t, "classify", 1, 0, 0)

\* the session is authenticated: the request of stage s follows; a write without
\* a token is an authentication error before anything is sent
Proceed(t, s, n, token, requests, tries) ==
    \/ /\ s \in Reads \/ token # None
       /\ Attributes(TRUE, token, cookie)
       /\ Send(t, s, n, token, requests, tries)
    \/ /\ s = "put" /\ token = None
       /\ Reauthenticate(t)

\* async_request_json_value: the call of stage s begins
Begin(t, s, auth, token) ==
    \/ /\ ~auth
       /\ Attributes(auth, token, cookie)
       /\ LogIn(t, s, 1, 0, 0)
    \/ /\ auth
       /\ Proceed(t, s, 1, token, 0, 0)

\* the call returned; a verifying read may show something else than was written
Succeed(t, token) ==
    \/ /\ stage[t] \in {"poll", "verify", "classify"}
       /\ Attributes(authenticated, token, cookie)
       /\ Finish(t)
    \/ stage[t] = "before" /\ Begin(t, "put", authenticated, token)
    \/ stage[t] = "put" /\ Begin(t, "verify", authenticated, token)
    \/ stage[t] = "verify" /\ Begin(t, "classify", authenticated, token)

\* the call raised; a failed write or read-back is classified by another read
Raise(t, error, auth, token) ==
    /\ \/ /\ stage[t] \in {"poll", "before", "classify"}
          /\ Attributes(auth, token, cookie)
          /\ Finish(t)
       \/ /\ stage[t] \in {"put", "verify"}
          /\ error \in AuthErrors
          /\ Reauthenticate(t)
       \/ /\ stage[t] \in {"put", "verify"}
          /\ error \notin AuthErrors
          /\ Begin(t, "classify", auth, token)
    \* ConfigEntryAuthFailed: Home Assistant asks for credentials
    /\ reauth' = (reauth \/ (stage[t] = "poll" /\ error = "auth"))

(***************************************************************************)
(* The coroutines' steps.                                                  *)
(***************************************************************************)

Undisturbed(t) == disturbed' = [p \in Pollers |-> p # t /\ disturbed[p]]

\* the coordinator polls until the listeners registered with async_on_unload are
\* gone, which is after async_unload_entry has returned; the entities are gone
\* before its logout, but a service call that waits for the write lock goes on.  The
\* refresh requested after such a call comes to nothing: Home Assistant shuts the
\* coordinator down with the listeners
MayStart(t) ==
    \/ t \in Pollers /\ entry # "unloaded"
    \/ t \in Writers /\ (entry = "loaded" \/ queued)

\* an operation begins; the write lock admits one service call
Start(t) ==
    /\ MayStart(t)
    /\ ~Running(t)
    /\ \/ t \in Pollers /\ Begin(t, "poll", authenticated, csrf)
       \/ /\ t \in Writers
          /\ \A w \in Writers : ~Running(w)
          /\ Begin(t, "before", authenticated, csrf)
    /\ contended' = (contended \/ entry = "leaving" \/ \E o \in Tasks : Running(o))
    /\ Undisturbed(t)
    /\ UNCHANGED <<opening, reply, controllerVars, entryVars, outliveVars>>

\* the login is accepted: its reply's headers fill the cookie jar
LoginAccepted(t) ==
    /\ pc[t] = "login"
    /\ credentialsOk
    /\ opened < MaxLogins
    /\ opened' = opened + 1
    /\ open' = open \cup {opened'}
    /\ cookie' = opened'
    /\ opening' = [opening EXCEPT ![t] = opened']
    /\ pc' = [pc EXCEPT ![t] = "body"]
    /\ Undisturbed(t)
    /\ UNCHANGED <<authenticated, csrf, stage, attempt, wireVars, closures,
                   credentialsOk, permitted, entryVars, countVars, contended,
                   outliveVars>>

\* its body is read: a CSRF header is kept, the session is authenticated and the
\* request follows
LoginCompleted(t) ==
    /\ pc[t] = "body"
    /\ opening' = [opening EXCEPT ![t] = None]
    /\ \E header \in {None, opening[t]} :
          Proceed(t, stage[t], attempt[t], Observed(header, csrf), sends[t], logins[t])
    /\ resumed' = (resumed \/ entry = "unloaded")
    /\ UNCHANGED <<reply, controllerVars, entryVars, disturbed, contended, overlapped>>

\* the login is rejected (401), denied (403), answered with another status, which
\* counts as rejected, or otherwise than confirmed, or not at all: async_invalidate
LoginFails(t) ==
    /\ pc[t] \in {"login", "body"}
    /\ opening' = [opening EXCEPT ![t] = None]
    /\ \E error \in Errors :
          /\ error = "auth" => pc[t] = "login" /\ (~credentialsOk \/ LoginErrors)
          /\ error = "permission" => pc[t] = "login" /\ ~permitted
          /\ Raise(t, error, FALSE, None)
    /\ UNCHANGED <<reply, controllerVars, unloadVars, disturbed, contended, outliveVars>>

\* the controller wants an open session, an account with permission and, for a
\* write, the session's own token
Verdict(t) ==
    LET r == request[t]
    IN  IF r.cookie \notin open THEN "unauthorized"
        ELSE IF permitted /\ (stage[t] = "put" => r.token = r.cookie) THEN "ok"
        ELSE "forbidden"

\* the controller handles a request; its reply may carry the session's token
Handle(t) ==
    LET r == request[t]
    IN  /\ r # NoRequest
        /\ request' = [request EXCEPT ![t] = NoRequest]
        /\ \E header \in {None} \cup (open \cap {r.cookie}) :
              reply' = [reply EXCEPT ![t] = [status |-> Verdict(t), token |-> header]]
        /\ UNCHANGED <<authVars, taskVars, controllerVars, entryVars, historyVars>>

\* the reply is success; its body may still be unusable
Answered(t) ==
    /\ reply[t] # NoReply
    /\ reply[t].status = "ok"
    /\ reply' = [reply EXCEPT ![t] = NoReply]
    /\ LET token == Observed(reply[t].token, csrf)
       IN  \/ Succeed(t, token) /\ UNCHANGED reauth
           \/ Raise(t, "other", authenticated, token)
    /\ UNCHANGED <<opening, controllerVars, unloadVars, disturbed, contended, outliveVars>>

\* the first attempt of a read is refused: invalidate, log in, try once more
RefusedOnce(t) ==
    /\ reply[t] # NoReply
    /\ reply[t].status # "ok"
    /\ MayRetry(t)
    /\ reply' = [reply EXCEPT ![t] = NoReply]
    /\ Forgotten
    /\ LogIn(t, stage[t], 2, sends[t], logins[t])
    /\ UNCHANGED <<opening, controllerVars, entryVars, disturbed, contended, outliveVars>>

\* a write or a second attempt is refused
Refused(t) ==
    /\ reply[t] # NoReply
    /\ reply[t].status # "ok"
    /\ ~MayRetry(t)
    /\ reply' = [reply EXCEPT ![t] = NoReply]
    /\ Raise(t, IF reply[t].status = "forbidden" THEN "permission" ELSE "auth",
             authenticated, Observed(reply[t].token, csrf))
    /\ UNCHANGED <<opening, controllerVars, unloadVars, disturbed, contended, outliveVars>>

\* the request or its reply is lost: timeout or connection error
RequestLost(t) ==
    /\ pc[t] = "sent"
    /\ reply' = [reply EXCEPT ![t] = NoReply]
    /\ Raise(t, "other", authenticated, csrf)
    /\ UNCHANGED <<opening, controllerVars, unloadVars, disturbed, contended, outliveVars>>

(***************************************************************************)
(* async_unload_entry: the logout, best effort.                            *)
(***************************************************************************)

SomeRunning == \E t \in Tasks : Running(t)

\* the unload finds the session unauthenticated: nothing to close
UnloadWithoutSession ==
    /\ entry = "loaded"
    /\ ~authenticated
    /\ Forgotten
    /\ entry' = "unloaded"
    /\ queued' \in BOOLEAN
    /\ contended' = (contended \/ SomeRunning)
    /\ overlapped' = (queued' \/ SomeRunning)
    /\ UNCHANGED <<taskVars, wireVars, controllerVars, leaving, reauth, disturbed,
                   countVars, resumed>>

\* the logout request is on its way
Unload ==
    /\ entry = "loaded"
    /\ authenticated
    /\ entry' = "leaving"
    /\ leaving' = cookie
    /\ queued' \in BOOLEAN
    /\ contended' = (contended \/ SomeRunning)
    /\ UNCHANGED <<authVars, taskVars, wireVars, controllerVars, reauth, disturbed,
                   countVars, outliveVars>>

\* mutant of LoggedOut: a failed logout leaves the session as it was
LoggedOutIfAnswered(answered) ==
    IF answered THEN Forgotten ELSE UNCHANGED authVars
\* the session is invalidated whatever became of the request
LoggedOut(answered) == Forgotten

\* the logout is answered, or fails before or after the controller closed the session
LogoutEnds ==
    /\ entry = "leaving"
    /\ \E answered \in BOOLEAN, closes \in BOOLEAN :
          /\ answered => closes
          /\ LoggedOut(answered)
          /\ open' = IF closes THEN open \ {leaving} ELSE open
    /\ entry' = "unloaded"
    /\ leaving' = None
    /\ overlapped' = (queued \/ SomeRunning)
    /\ disturbed' = [p \in Pollers |-> TRUE]
    /\ UNCHANGED <<taskVars, wireVars, opened, closures, credentialsOk, permitted,
                   queued, reauth, countVars, contended, resumed>>

(***************************************************************************)
(* The controller's own steps.                                             *)
(***************************************************************************)

\* a session expires or is revoked
Close(s) ==
    /\ closures < MaxClosures
    /\ closures' = closures + 1
    /\ s \in open
    /\ open' = open \ {s}
    /\ disturbed' = [p \in Pollers |-> TRUE]
    /\ UNCHANGED <<authVars, taskVars, wireVars, opened, credentialsOk, permitted,
                   entryVars, countVars, contended, outliveVars>>

Refusals == (IF credentialsOk THEN 0 ELSE 1) + (IF permitted THEN 0 ELSE 1)

\* the password is changed, or the account loses its permission
Distrust ==
    /\ Refusals < MaxRefusals
    /\ \/ credentialsOk /\ credentialsOk' = FALSE /\ UNCHANGED permitted
       \/ permitted /\ permitted' = FALSE /\ UNCHANGED credentialsOk
    /\ UNCHANGED <<authVars, taskVars, wireVars, open, opened, closures, entryVars,
                   historyVars>>

TaskNext(t) ==
    \/ Start(t)
    \/ LoginAccepted(t) \/ LoginCompleted(t) \/ LoginFails(t)
    \/ Answered(t) \/ RefusedOnce(t) \/ Refused(t) \/ RequestLost(t)

Next ==
    \/ \E t \in Tasks : TaskNext(t) \/ Handle(t)
    \/ UnloadWithoutSession \/ Unload \/ LogoutEnds
    \/ \E s \in open : Close(s)
    \/ Distrust

Spec == Init /\ [][Next]_vars

(***************************************************************************)
(* Properties.                                                             *)
(***************************************************************************)

\* Every variable stays in its set (the type invariant of the session object, the
\* coroutines and the controller's sessions).
TypeOK ==
    /\ authenticated \in BOOLEAN
    /\ csrf \in Sessions \cup {None} /\ cookie \in Sessions \cup {None}
    /\ stage \in [Tasks -> Stages]
    /\ pc \in [Tasks -> PcStates]
    /\ attempt \in [Tasks -> {1, 2}]
    /\ opening \in [Tasks -> Sessions \cup {None}]
    /\ request \in [Tasks -> Requests \cup {NoRequest}]
    /\ reply \in [Tasks -> Replies \cup {NoReply}]
    /\ open \subseteq Sessions
    /\ opened \in 0..MaxLogins /\ closures \in 0..MaxClosures
    /\ credentialsOk \in BOOLEAN /\ permitted \in BOOLEAN
    /\ entry \in {"loaded", "leaving", "unloaded"}
    /\ leaving \in Sessions \cup {None} /\ queued \in BOOLEAN
    /\ reauth \in BOOLEAN
    /\ disturbed \in [Pollers -> BOOLEAN]
    /\ sends \in [Tasks -> Nat] /\ logins \in [Tasks -> Nat] /\ puts \in [Tasks -> Nat]
    /\ contended \in BOOLEAN /\ overlapped \in BOOLEAN /\ resumed \in BOOLEAN

\* SECURITY_MODEL.md: a write is sent once, a read at most twice.  Whatever the
\* other coroutines do to the shared session, an operation sends at most one PUT,
\* and no call sends more than two requests or posts more than two logins.
RequestsBounded ==
    \A t \in Tasks :
        /\ puts[t] <= 1
        /\ stage[t] = "put" => sends[t] <= 1
        /\ sends[t] <= 2
        /\ logins[t] <= 2

\* The user is asked for credentials only when they were rejected, or when the
\* session a refresh had just opened was closed again under it: a coroutine that
\* invalidates the shared session between another's login and its second attempt
\* does not make that attempt fail (_async_request_once, async_invalidate).  A login
\* answered with any other status counts as rejected (async_login): LoginErrors.
NoFalseReauth ==
    [][~reauth /\ reauth' =>
          \/ ~credentialsOk \/ LoginErrors
          \/ \E t \in Pollers : Running(t) /\ ~Running(t)' /\ disturbed[t]]_vars

\* As long as no two coroutines have used the session at once, the CSRF token a
\* write would carry is that of the session in the cookie jar: a token of an
\* invalidated session is never reused (observe_response_headers, async_invalidate).
TokenIsCurrent == ~contended => csrf \in {None, cookie}

\* The session object of an unloaded entry is authenticated only by a login completed
\* after the unload, and it holds anything at all only if a coroutine outlived the
\* unload.  That the logout fails, that a refresh logs in while it is awaited, or that
\* a reply to a request sent before arrives after it makes no difference; nothing
\* begins once the listeners are gone (async_logout, async_on_unload).
UnloadForgets ==
    entry = "unloaded" =>
        /\ authenticated => resumed
        /\ resumed \/ csrf # None => overlapped
=============================================================================
