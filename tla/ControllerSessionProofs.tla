---------------------- MODULE ControllerSessionProofs ----------------------
(***************************************************************************)
(* Proofs about ControllerSession, for every set of refreshes and service  *)
(* calls, every number of sessions and every interleaving on the session   *)
(* object that nothing protects.                                           *)
(***************************************************************************)
EXTENDS ControllerSession, TLAPS

Tokens == Sessions \cup {None}

\* what travels belongs to a coroutine that waits for it, and only one way at a time
WireAt(t) ==
    /\ pc[t] = "idle" <=> stage[t] = "none"
    /\ request[t] # NoRequest => pc[t] = "sent" /\ reply[t] = NoReply
    /\ reply[t] # NoReply => pc[t] = "sent"

\* the requests and logins of a call are those of its attempts; the PUT of an
\* operation is sent in its put stage, which nothing enters twice
CountAt(t) ==
    /\ stage[t] \notin Reads => attempt[t] = 1
    /\ pc[t] = "idle" => sends[t] = 0 /\ logins[t] = 0
    /\ pc[t] \in {"login", "body"} => sends[t] = attempt[t] - 1
    /\ pc[t] = "sent" => sends[t] = attempt[t]
    /\ logins[t] <= attempt[t]
    /\ stage[t] \in {"none", "poll", "before"} => puts[t] = 0
    /\ stage[t] = "put" => puts[t] = sends[t]
    /\ puts[t] <= 1

\* only refreshes poll
RoleAt(t) == stage[t] = "poll" => t \in Pollers

\* a session not closed since the login: the cookie in the jar is good, for the
\* requests of the second attempt too, whoever logged in again in the meantime
OpenAt(t) ==
    ~disturbed[t] =>
        /\ pc[t] = "body" => cookie \in open
        /\ attempt[t] = 2 =>
              /\ request[t] # NoRequest => request[t].cookie \in open
              /\ reply[t] # NoReply => reply[t].status # "unauthorized"

CallsInv == \A t \in Tasks : WireAt(t) /\ CountAt(t) /\ RoleAt(t)
OpenInv == \A p \in Pollers : OpenAt(p)

Base == TypeOK /\ CallsInv

\* no coroutine runs beside another one or beside the logout, unless that is noted
SoloInv ==
    ~contended =>
        /\ \A t, o \in Tasks : Running(t) /\ Running(o) => t = o
        /\ entry = "leaving" => ~SomeRunning

\* after an unload that none outlived, no coroutine runs or waits to; what the session
\* object holds was brought back by those that did
ForgottenInv ==
    /\ resumed => entry = "unloaded"
    /\ entry = "unloaded" =>
        /\ ~overlapped => ~queued /\ ~SomeRunning
        /\ authenticated => resumed
        /\ resumed \/ csrf # None => overlapped

\* the session object as its only user left it: a token is that of the cookie, and
\* there is none where the session is not authenticated
Sound(auth, token) == token \in {None, cookie} /\ (~auth => token = None)

UserAt(t) ==
    /\ pc[t] \in {"login", "body"} => ~authenticated
    /\ pc[t] = "body" => opening[t] = cookie
    /\ pc[t] = "sent" => authenticated
    /\ request[t] # NoRequest => request[t].cookie = cookie
    /\ reply[t] # NoReply => reply[t].token \in {None, cookie}

AttributesInv ==
    ~contended => Sound(authenticated, csrf) /\ \A t \in Tasks : UserAt(t)

-----------------------------------------------------------------------------
(* Where a coroutine stands when a step of its own is over.                 *)

\* the end of the operation, or a request or login of attempt n of a call
Tail(t) ==
    \/ Finish(t)
    \/ \E s \in Stages \ {"none"}, n \in {1, 2} :
          /\ n = 2 => s \in Reads
          /\ s = "poll" => t \in Pollers
          /\ s \in {"poll", "before", "put"} => puts[t] = 0
          /\ \/ /\ n = 2 => pc[t] = "body"
                /\ \E token \in Tokens, tries \in 0..n : Send(t, s, n, token, n - 1, tries)
             \/ \E tries \in 0..(n - 1) : LogIn(t, s, n, n - 1, tries)

\* the attributes are typed, and sound for the call that goes on
Kept(t) ==
    /\ authenticated' \in BOOLEAN /\ csrf' \in Tokens /\ cookie' = cookie
SoundAfter(t) ==
    /\ Sound(authenticated, csrf)'
    /\ pc'[t] = "login" => ~authenticated'
    /\ pc'[t] # "body"
    /\ pc'[t] = "sent" => authenticated'
    /\ request'[t] # NoRequest => request'[t].cookie = cookie

LEMMA TailFacts ==
    ASSUME TypeOK, NEW t \in Tasks, Tail(t)
    PROVE  /\ stage' \in [Tasks -> Stages] /\ pc' \in [Tasks -> PcStates]
           /\ attempt' \in [Tasks -> {1, 2}]
           /\ request' \in [Tasks -> Requests \cup {NoRequest}]
           /\ sends' \in [Tasks -> Nat] /\ logins' \in [Tasks -> Nat]
           /\ puts' \in [Tasks -> Nat]
           /\ \A o \in Tasks \ {t} :
                 /\ stage'[o] = stage[o] /\ pc'[o] = pc[o] /\ attempt'[o] = attempt[o]
                 /\ request'[o] = request[o] /\ puts'[o] = puts[o]
                 /\ sends'[o] = sends[o] /\ logins'[o] = logins[o]
           /\ pc'[t] # "body"
           /\ request'[t] # NoRequest => /\ pc'[t] = "sent"
                                         /\ request'[t].cookie = cookie
                                         /\ attempt'[t] = 2 => pc[t] = "body"
<1> USE DEF TypeOK, At, Counted, Stages, Reads, PcStates
<1>1. CASE Finish(t)
  BY <1>1 DEF Finish
<1>2. ASSUME NEW s \in Stages \ {"none"}, NEW n \in {1, 2}, n = 2 => pc[t] = "body",
             NEW token \in Tokens, NEW tries \in 0..n, Send(t, s, n, token, n - 1, tries)
      PROVE  /\ stage' \in [Tasks -> Stages] /\ pc' \in [Tasks -> PcStates]
             /\ attempt' \in [Tasks -> {1, 2}]
             /\ request' \in [Tasks -> Requests \cup {NoRequest}]
             /\ sends' \in [Tasks -> Nat] /\ logins' \in [Tasks -> Nat]
             /\ puts' \in [Tasks -> Nat]
             /\ \A o \in Tasks \ {t} :
                   /\ stage'[o] = stage[o] /\ pc'[o] = pc[o] /\ attempt'[o] = attempt[o]
                   /\ request'[o] = request[o] /\ puts'[o] = puts[o]
                   /\ sends'[o] = sends[o] /\ logins'[o] = logins[o]
             /\ pc'[t] = "sent" /\ attempt'[t] = n /\ request'[t].cookie = cookie
  <2>1. [cookie |-> cookie, token |-> IF s = "put" THEN token ELSE None] \in Requests
    BY DEF Requests, Tokens
  <2> QED
    BY <1>2, <2>1 DEF Send
<1>3. ASSUME NEW s \in Stages \ {"none"}, NEW n \in {1, 2},
             NEW tries \in 0..(n - 1), LogIn(t, s, n, n - 1, tries)
      PROVE  /\ stage' \in [Tasks -> Stages] /\ pc' \in [Tasks -> PcStates]
             /\ attempt' \in [Tasks -> {1, 2}]
             /\ request' \in [Tasks -> Requests \cup {NoRequest}]
             /\ sends' \in [Tasks -> Nat] /\ logins' \in [Tasks -> Nat]
             /\ puts' \in [Tasks -> Nat]
             /\ \A o \in Tasks \ {t} :
                   /\ stage'[o] = stage[o] /\ pc'[o] = pc[o] /\ attempt'[o] = attempt[o]
                   /\ request'[o] = request[o] /\ puts'[o] = puts[o]
                   /\ sends'[o] = sends[o] /\ logins'[o] = logins[o]
             /\ pc'[t] = "login" /\ request'[t] = NoRequest
  BY <1>3 DEF LogIn
<1> QED
  BY <1>1, <1>2, <1>3 DEF Tail

\* A step that ends there leaves the coroutine's requests, logins and PUTs counted.
LEMMA TailCalls ==
    ASSUME TypeOK, NEW t \in Tasks, CountAt(t), Tail(t), reply'[t] = NoReply
    PROVE  WireAt(t)' /\ CountAt(t)' /\ RoleAt(t)'
<1> USE DEF TypeOK, At, Counted, Stages, Reads, WireAt, CountAt, RoleAt
<1>1. CASE Finish(t)
  BY <1>1 DEF Finish
<1>2. ASSUME NEW s \in Stages \ {"none"}, NEW n \in {1, 2},
             n = 2 => s \in Reads, s = "poll" => t \in Pollers,
             s \in {"poll", "before", "put"} => puts[t] = 0,
             NEW token \in Tokens, NEW tries \in 0..n, Send(t, s, n, token, n - 1, tries)
      PROVE  WireAt(t)' /\ CountAt(t)' /\ RoleAt(t)'
  <2>1. /\ stage'[t] = s /\ pc'[t] = "sent" /\ attempt'[t] = n
        /\ sends'[t] = n /\ logins'[t] = tries
        /\ puts'[t] = IF s = "put" THEN puts[t] + 1 ELSE puts[t]
    BY <1>2 DEF Send
  <2> QED
    BY <1>2, <2>1
<1>3. ASSUME NEW s \in Stages \ {"none"}, NEW n \in {1, 2},
             n = 2 => s \in Reads, s = "poll" => t \in Pollers,
             s \in {"poll", "before", "put"} => puts[t] = 0,
             NEW tries \in 0..(n - 1), LogIn(t, s, n, n - 1, tries)
      PROVE  WireAt(t)' /\ CountAt(t)' /\ RoleAt(t)'
  <2>1. /\ stage'[t] = s /\ pc'[t] = "login" /\ attempt'[t] = n
        /\ sends'[t] = n - 1 /\ logins'[t] = tries + 1
        /\ puts'[t] = puts[t] /\ request'[t] = NoRequest
    BY <1>3 DEF LogIn
  <2> QED
    BY <1>3, <2>1
<1> QED
  BY <1>1, <1>2, <1>3 DEF Tail

-----------------------------------------------------------------------------
(* The operators that take a coroutine there.                               *)

LEMMA FinishTail ==
    ASSUME TypeOK, NEW t \in Tasks, NEW auth \in BOOLEAN, NEW token \in Tokens,
           Attributes(auth, token, cookie), Finish(t)
    PROVE  Tail(t) /\ Kept(t) /\ (Sound(auth, token) => SoundAfter(t))
BY DEF TypeOK, Attributes, Finish, At, Tail, Kept, Sound, SoundAfter

\* a classification logs in first
LEMMA ReauthenticateTail ==
    ASSUME TypeOK, NEW t \in Tasks, Reauthenticate(t)
    PROVE  Tail(t) /\ Kept(t) /\ SoundAfter(t)
<1>1. LogIn(t, "classify", 1, 1 - 1, 0) /\ 0 \in 0..(1 - 1)
  BY DEF Reauthenticate
<1>2. "classify" \in Stages \ {"none"}
  BY DEF Stages, Reads
<1>3. Tail(t)
  BY <1>1, <1>2 DEF Tail
<1>4. authenticated' = FALSE /\ csrf' = None /\ cookie' = cookie
  BY DEF Reauthenticate, Forgotten, Attributes
<1>5. pc'[t] = "login" /\ request'[t] = NoRequest
  BY DEF Reauthenticate, LogIn, At, TypeOK
<1> QED
  BY <1>3, <1>4, <1>5 DEF Kept, Sound, SoundAfter, Tokens

LEMMA ProceedTail ==
    ASSUME TypeOK, NEW t \in Tasks, NEW s \in Stages \ {"none"}, NEW n \in {1, 2},
           n = 2 => s \in Reads /\ pc[t] = "body",
           s = "poll" => t \in Pollers,
           s \in {"poll", "before", "put"} => puts[t] = 0,
           NEW token \in Tokens, NEW tries \in 0..n,
           Proceed(t, s, n, token, n - 1, tries)
    PROVE  Tail(t) /\ Kept(t) /\ (Sound(TRUE, token) => SoundAfter(t))
<1>1. CASE Attributes(TRUE, token, cookie) /\ Send(t, s, n, token, n - 1, tries)
  <2>1. Tail(t)
    BY <1>1 DEF Tail
  <2>2. pc'[t] = "sent" /\ request'[t].cookie = cookie
    BY <1>1 DEF Send, At, TypeOK
  <2> QED
    BY <1>1, <2>1, <2>2 DEF Attributes, Kept, Sound, SoundAfter
<1>2. CASE Reauthenticate(t)
  BY <1>2, ReauthenticateTail
<1> QED
  BY <1>1, <1>2 DEF Proceed

LEMMA BeginTail ==
    ASSUME TypeOK, NEW t \in Tasks, NEW s \in Stages \ {"none"},
           s = "poll" => t \in Pollers,
           s \in {"poll", "before", "put"} => puts[t] = 0,
           NEW auth \in BOOLEAN, NEW token \in Tokens, Begin(t, s, auth, token)
    PROVE  /\ Tail(t) /\ Kept(t) /\ (Sound(auth, token) => SoundAfter(t))
           /\ attempt'[t] = 1
<1>1. CASE ~auth /\ Attributes(auth, token, cookie) /\ LogIn(t, s, 1, 0, 0)
  <2>1. LogIn(t, s, 1, 1 - 1, 0) /\ 0 \in 0..(1 - 1)
    BY <1>1
  <2>2. Tail(t)
    BY <2>1 DEF Tail
  <2>3. pc'[t] = "login" /\ request'[t] = NoRequest /\ attempt'[t] = 1
    BY <1>1 DEF LogIn, At, TypeOK
  <2> QED
    BY <1>1, <2>2, <2>3 DEF Attributes, Kept, Sound, SoundAfter
<1>2. CASE auth /\ Proceed(t, s, 1, token, 0, 0)
  <2>1. Proceed(t, s, 1, token, 1 - 1, 0) /\ 0 \in 0..1
    BY <1>2
  <2>2. Tail(t) /\ Kept(t) /\ (Sound(auth, token) => SoundAfter(t))
    BY <1>2, <2>1, ProceedTail DEF Sound
  <2>3. attempt'[t] = 1
    BY <1>2 DEF Proceed, Send, Reauthenticate, LogIn, At, TypeOK
  <2> QED
    BY <2>2, <2>3
<1> QED
  BY <1>1, <1>2 DEF Begin

\* the stages a call leads to
LEMMA SucceedTail ==
    ASSUME Base, NEW t \in Tasks, NEW token \in Tokens, Succeed(t, token)
    PROVE  Tail(t) /\ Kept(t) /\ (Sound(authenticated, token) => SoundAfter(t))
<1>1. authenticated \in BOOLEAN /\ TypeOK
  BY DEF Base, TypeOK
<1>2. stage[t] = "before" => puts[t] = 0
  BY DEF Base, CallsInv, CountAt
<1>3. {"put", "verify", "classify"} \subseteq Stages \ {"none"}
  BY DEF Stages, Reads
<1> QED
  BY <1>1, <1>2, <1>3, FinishTail, BeginTail DEF Succeed

LEMMA RaiseTail ==
    ASSUME Base, NEW t \in Tasks, NEW error, NEW auth \in BOOLEAN, NEW token \in Tokens,
           Raise(t, error, auth, token)
    PROVE  Tail(t) /\ Kept(t) /\ (Sound(auth, token) => SoundAfter(t))
<1>1. TypeOK /\ "classify" \in Stages \ {"none"}
  BY DEF Base, Stages, Reads
<1> QED
  BY <1>1, FinishTail, ReauthenticateTail, BeginTail DEF Raise

-----------------------------------------------------------------------------
(* A coroutine's step.                                                      *)

\* every step of a coroutine but the login that opens a session
Continues(t) ==
    Start(t) \/ LoginCompleted(t) \/ LoginFails(t) \/ Answered(t) \/ RefusedOnce(t)
             \/ Refused(t) \/ RequestLost(t)

LEMMA TokenTypes ==
    ASSUME Base, NEW t \in Tasks
    PROVE  /\ authenticated \in BOOLEAN /\ csrf \in Tokens /\ None \in Tokens
           /\ opening[t] \in Tokens
           /\ reply[t] # NoReply => reply[t].token \in Tokens
           /\ \A header \in Tokens, token \in Tokens :
                 /\ Observed(header, token) \in Tokens
                 /\ \A auth \in BOOLEAN : Sound(auth, token) /\ header \in {None, cookie} =>
                       Observed(header, token) \in {None, cookie}
BY DEF Base, TypeOK, Tokens, Replies, Observed, Sound

LEMMA ContinuesFacts ==
    ASSUME Base, NEW t \in Tasks, Continues(t)
    PROVE  /\ Tail(t) /\ Kept(t)
           /\ AttributesInv /\ ~contended => SoundAfter(t)
           /\ reply' = [reply EXCEPT ![t] = NoReply]
           /\ opening' \in {opening, [opening EXCEPT ![t] = None]}
           /\ UNCHANGED <<controllerVars, unloadVars, overlapped>>
           /\ \/ Start(t) /\ attempt'[t] = 1
              \/ /\ stage[t] # "none"
                 /\ disturbed' = disturbed /\ contended' = contended
<1> USE TokenTypes DEF controllerVars, unloadVars, entryVars, outliveVars
<1>0. TypeOK /\ WireAt(t) /\ CountAt(t) /\ RoleAt(t)
  BY DEF Base, CallsInv
<1>1. reply[t] = NoReply => reply = [reply EXCEPT ![t] = NoReply]
  BY <1>0 DEF TypeOK
<1>2. CASE Start(t)
  <2>1. puts[t] = 0 /\ reply[t] = NoReply
    BY <1>0, <1>2 DEF Start, Running, WireAt, CountAt
  <2>2. PICK s \in {"poll", "before"} :
           (s = "poll" => t \in Pollers) /\ Begin(t, s, authenticated, csrf)
    BY <1>2 DEF Start
  <2>3. s \in Stages \ {"none"}
    BY DEF Stages, Reads
  <2>4. /\ Tail(t) /\ Kept(t) /\ (Sound(authenticated, csrf) => SoundAfter(t))
        /\ attempt'[t] = 1
    BY <1>0, <2>1, <2>2, <2>3, BeginTail
  <2> QED
    BY <1>1, <1>2, <2>1, <2>4 DEF Start, AttributesInv
<1>3. CASE LoginCompleted(t)
  <2>1. PICK header \in {None, opening[t]} :
           Proceed(t, stage[t], attempt[t], Observed(header, csrf), sends[t], logins[t])
    BY <1>3 DEF LoginCompleted
  <2>2. /\ pc[t] = "body" /\ stage[t] \in Stages \ {"none"} /\ reply[t] = NoReply
        /\ sends[t] = attempt[t] - 1 /\ logins[t] \in 0..attempt[t]
        /\ attempt[t] \in {1, 2} /\ (attempt[t] = 2 => stage[t] \in Reads)
        /\ (stage[t] \in {"poll", "before", "put"} => puts[t] = 0)
    BY <1>0, <1>3 DEF LoginCompleted, TypeOK, WireAt, CountAt, Reads
  <2>3. /\ Tail(t) /\ Kept(t)
        /\ Sound(TRUE, Observed(header, csrf)) => SoundAfter(t)
    BY <1>0, <2>1, <2>2, ProceedTail DEF RoleAt
  <2>4. AttributesInv /\ ~contended => Sound(TRUE, Observed(header, csrf))
    BY <2>2 DEF AttributesInv, UserAt, Sound
  <2> QED
    BY <1>1, <1>3, <2>2, <2>3, <2>4 DEF LoginCompleted
<1>4. CASE LoginFails(t)
  <2>1. PICK error \in Errors : Raise(t, error, FALSE, None)
    BY <1>4 DEF LoginFails
  <2>2. stage[t] # "none" /\ reply[t] = NoReply
    BY <1>0, <1>4 DEF LoginFails, WireAt
  <2>3. Tail(t) /\ Kept(t) /\ SoundAfter(t)
    BY <2>1, RaiseTail DEF Sound
  <2> QED
    BY <1>1, <1>4, <2>2, <2>3 DEF LoginFails
<1>5. ASSUME reply[t] # NoReply
      PROVE  /\ stage[t] # "none"
             /\ Observed(reply[t].token, csrf) \in Tokens
             /\ AttributesInv /\ ~contended => Sound(authenticated, Observed(reply[t].token, csrf))
  BY <1>0, <1>5 DEF WireAt, AttributesInv, UserAt, Sound
<1>6. CASE Answered(t)
  <2>1. \/ Succeed(t, Observed(reply[t].token, csrf))
        \/ Raise(t, "other", authenticated, Observed(reply[t].token, csrf))
    BY <1>6 DEF Answered
  <2>2. /\ Tail(t) /\ Kept(t)
        /\ AttributesInv /\ ~contended => SoundAfter(t)
    BY <1>5, <1>6, <2>1, SucceedTail, RaiseTail DEF Answered
  <2> QED
    BY <1>5, <1>6, <2>2 DEF Answered
<1>7. CASE RefusedOnce(t)
  <2>1. /\ stage[t] \in Stages \ {"none"} /\ stage[t] \in Reads
        /\ sends[t] = 2 - 1 /\ logins[t] \in 0..(2 - 1)
        /\ (stage[t] \in {"poll", "before", "put"} => puts[t] = 0)
    BY <1>0, <1>7 DEF RefusedOnce, MayRetry, TypeOK, WireAt, CountAt, Reads
  <2>2. LogIn(t, stage[t], 2, sends[t], logins[t])
    BY <1>7 DEF RefusedOnce
  <2>3. Tail(t)
    BY <1>0, <2>1, <2>2 DEF Tail, RoleAt
  <2>4. authenticated' = FALSE /\ csrf' = None /\ cookie' = cookie
    BY <1>7 DEF RefusedOnce, Forgotten, Attributes
  <2>5. pc'[t] = "login" /\ request'[t] = NoRequest
    BY <1>0, <2>2 DEF LogIn, At, TypeOK
  <2> QED
    BY <1>5, <1>7, <2>3, <2>4, <2>5 DEF RefusedOnce, Kept, Sound, SoundAfter
<1>8. CASE Refused(t)
  <2>1. \E error \in Errors : Raise(t, error, authenticated, Observed(reply[t].token, csrf))
    BY <1>8 DEF Refused, Errors
  <2>2. /\ Tail(t) /\ Kept(t)
        /\ AttributesInv /\ ~contended => SoundAfter(t)
    BY <1>5, <1>8, <2>1, RaiseTail DEF Refused
  <2> QED
    BY <1>5, <1>8, <2>2 DEF Refused
<1>9. CASE RequestLost(t)
  <2>1. /\ Tail(t) /\ Kept(t)
        /\ AttributesInv /\ ~contended => SoundAfter(t)
    BY <1>9, RaiseTail DEF RequestLost, AttributesInv
  <2>2. stage[t] # "none"
    BY <1>0, <1>9 DEF RequestLost, WireAt
  <2> QED
    BY <1>9, <2>1, <2>2 DEF RequestLost
<1> QED
  BY <1>2, <1>3, <1>4, <1>6, <1>7, <1>8, <1>9 DEF Continues

\* Only a completed login authenticates the session, and that is noted.
LEMMA BeginAuthenticates ==
    ASSUME NEW t, NEW s, NEW auth \in BOOLEAN, NEW token, Begin(t, s, auth, token), authenticated'
    PROVE  auth
BY DEF Begin, Proceed, Reauthenticate, Forgotten, Attributes

LEMMA OnlyLoginsAuthenticate ==
    ASSUME Base, NEW t \in Tasks, Continues(t)
    PROVE  /\ authenticated' => authenticated \/ LoginCompleted(t)
           /\ \/ resumed' = resumed /\ ~LoginCompleted(t)
              \/ LoginCompleted(t) /\ resumed' = (resumed \/ entry = "unloaded")
<1>1. authenticated \in BOOLEAN
  BY DEF Base, TypeOK
<1>2. ASSUME NEW error, NEW auth \in BOOLEAN, NEW token, Raise(t, error, auth, token), authenticated'
      PROVE  auth
  BY <1>2, BeginAuthenticates DEF Raise, Reauthenticate, Forgotten, Attributes
<1>3. ASSUME NEW token, Succeed(t, token), authenticated'
      PROVE  authenticated
  BY <1>1, <1>3, BeginAuthenticates DEF Succeed, Attributes
<1>4. authenticated' => authenticated \/ LoginCompleted(t)
  <2>1. CASE Start(t)
    BY <1>1, <2>1, BeginAuthenticates DEF Start
  <2>2. CASE LoginFails(t)
    BY <1>2, <2>2 DEF LoginFails
  <2>3. CASE Answered(t)
    BY <1>1, <1>2, <1>3, <2>3 DEF Answered
  <2>4. CASE RefusedOnce(t)
    BY <2>4 DEF RefusedOnce, Forgotten, Attributes
  <2>5. CASE Refused(t)
    BY <1>1, <1>2, <2>5 DEF Refused
  <2>6. CASE RequestLost(t)
    BY <1>1, <1>2, <2>6 DEF RequestLost
  <2> QED
    BY <2>1, <2>2, <2>3, <2>4, <2>5, <2>6 DEF Continues
<1>5. CASE LoginCompleted(t)
  BY <1>4, <1>5 DEF LoginCompleted
<1>6. CASE ~LoginCompleted(t)
  BY <1>4, <1>6 DEF Continues, Start, LoginFails, Answered, RefusedOnce, Refused, RequestLost,
     outliveVars
<1> QED
  BY <1>5, <1>6

-----------------------------------------------------------------------------
(* Types and counts.                                                        *)

LEMMA InitBase == Init => Base
<1> SUFFICES ASSUME Init PROVE Base
  OBVIOUS
<1>1. TypeOK
  <2>1. opened \in 0..MaxLogins /\ closures \in 0..MaxClosures
    BY BoundsAreNaturals DEF Init
  <2>2. disturbed \in [Pollers -> BOOLEAN]
    BY DEF Init
  <2>3. /\ stage \in [Tasks -> Stages] /\ pc \in [Tasks -> PcStates]
        /\ attempt \in [Tasks -> {1, 2}]
    BY DEF Init, Stages, PcStates
  <2> QED
    BY <2>1, <2>2, <2>3 DEF Init, TypeOK
<1>2. CallsInv
  BY DEF Init, CallsInv, WireAt, CountAt, RoleAt, Reads
<1> QED
  BY <1>1, <1>2 DEF Base

LEMMA ContinuesBase == ASSUME Base, NEW t \in Tasks, Continues(t) PROVE Base'
<1>1. /\ Tail(t) /\ Kept(t)
      /\ reply' = [reply EXCEPT ![t] = NoReply]
      /\ opening' \in {opening, [opening EXCEPT ![t] = None]}
      /\ UNCHANGED <<controllerVars, unloadVars, overlapped>>
  BY ContinuesFacts
<1>2. TypeOK /\ CountAt(t)
  BY DEF Base, CallsInv
<1>3. /\ reauth' \in BOOLEAN /\ contended' \in BOOLEAN /\ resumed' \in BOOLEAN
      /\ disturbed' \in [Pollers -> BOOLEAN]
  <2>1. resumed' \in BOOLEAN
    BY <1>2, OnlyLoginsAuthenticate DEF TypeOK
  <2>2. reauth' \in BOOLEAN /\ contended' \in BOOLEAN
    BY <1>2 DEF Continues, Start, LoginCompleted, LoginFails, Answered, RefusedOnce, Refused,
       RequestLost, Raise, entryVars, TypeOK
  <2>3. disturbed' \in [Pollers -> BOOLEAN]
    BY <1>2 DEF Continues, Start, Undisturbed, LoginCompleted, LoginFails, Answered,
       RefusedOnce, Refused, RequestLost, TypeOK
  <2> QED
    BY <2>1, <2>2, <2>3
<1>4. TypeOK'
  BY <1>1, <1>2, <1>3, TailFacts DEF Kept, TypeOK, controllerVars, unloadVars, Tokens
<1>5. ASSUME NEW o \in Tasks PROVE WireAt(o)' /\ CountAt(o)' /\ RoleAt(o)'
  <2>1. CASE o = t
    BY <1>1, <1>2, <2>1, TailCalls DEF TypeOK
  <2>2. CASE o # t
    <3>1. /\ stage'[o] = stage[o] /\ pc'[o] = pc[o] /\ attempt'[o] = attempt[o]
          /\ request'[o] = request[o] /\ reply'[o] = reply[o] /\ puts'[o] = puts[o]
          /\ sends'[o] = sends[o] /\ logins'[o] = logins[o]
      BY <1>1, <1>2, <2>2, TailFacts DEF TypeOK
    <3> QED
      BY <3>1 DEF Base, CallsInv, WireAt, CountAt, RoleAt
  <2> QED
    BY <2>1, <2>2
<1> QED
  BY <1>4, <1>5 DEF Base, CallsInv

LEMMA LoginBase == ASSUME Base, NEW t \in Tasks, LoginAccepted(t) PROVE Base'
<1>0. TypeOK
  BY DEF Base
<1>1. opened' \in Sessions /\ opened' \in 0..MaxLogins
  <2>1. opened \in Nat /\ opened < MaxLogins /\ opened' = opened + 1
    BY <1>0 DEF LoginAccepted, TypeOK
  <2> QED
    BY <2>1, BoundsAreNaturals DEF Sessions
<1>2. TypeOK'
  <2>1. disturbed' \in [Pollers -> BOOLEAN]
    BY <1>0 DEF LoginAccepted, Undisturbed, TypeOK
  <2> QED
    BY <1>0, <1>1, <2>1 DEF LoginAccepted, TypeOK, PcStates, wireVars, unloadVars, entryVars,
       countVars, outliveVars
<1>3. CallsInv'
  BY <1>0 DEF LoginAccepted, TypeOK, Base, CallsInv, WireAt, CountAt, RoleAt, wireVars,
     countVars
<1> QED
  BY <1>2, <1>3 DEF Base

\* The controller's answer and what happens around the coroutines.
LEMMA HandleFacts ==
    ASSUME Base, NEW t \in Tasks, Handle(t)
    PROVE  /\ request[t] # NoRequest /\ reply[t] = NoReply /\ pc[t] = "sent"
           /\ request' = [request EXCEPT ![t] = NoRequest]
           /\ \E header \in Tokens :
                 /\ header \in {None, request[t].cookie}
                 /\ reply' = [reply EXCEPT ![t] = [status |-> Verdict(t), token |-> header]]
           /\ Verdict(t) \in Statuses
           /\ reply' \in [Tasks -> Replies \cup {NoReply}]
           /\ UNCHANGED <<authVars, taskVars, controllerVars, entryVars, historyVars>>
<1>1. /\ request[t] # NoRequest /\ reply[t] = NoReply /\ pc[t] = "sent"
      /\ request' = [request EXCEPT ![t] = NoRequest]
      /\ UNCHANGED <<authVars, taskVars, controllerVars, entryVars, historyVars>>
  BY DEF Handle, Base, CallsInv, WireAt
<1>2. Verdict(t) \in Statuses
  BY DEF Verdict, Statuses
<1>3. PICK header \in {None} \cup (open \cap {request[t].cookie}) :
         reply' = [reply EXCEPT ![t] = [status |-> Verdict(t), token |-> header]]
  BY DEF Handle
<1>4. header \in Tokens /\ header \in {None, request[t].cookie}
  BY DEF Base, TypeOK, Tokens
<1>5. [status |-> Verdict(t), token |-> header] \in Replies
  BY <1>2, <1>4 DEF Replies, Tokens
<1> QED
  BY <1>1, <1>2, <1>3, <1>4, <1>5 DEF Base, TypeOK

LEMMA HandleBase == ASSUME Base, NEW t \in Tasks, Handle(t) PROVE Base'
<1>1. TypeOK'
  BY HandleFacts DEF Base, TypeOK, authVars, taskVars, controllerVars, unloadVars,
     entryVars, historyVars, countVars, outliveVars
<1>2. ASSUME NEW o \in Tasks PROVE WireAt(o)' /\ CountAt(o)' /\ RoleAt(o)'
  <2>1. /\ request'[o] = IF o = t THEN NoRequest ELSE request[o]
        /\ o # t => reply'[o] = reply[o]
        /\ UNCHANGED <<stage, pc, attempt, sends, logins, puts>>
    BY HandleFacts DEF Base, TypeOK, taskVars, historyVars, countVars
  <2> QED
    BY <2>1, HandleFacts DEF Base, CallsInv, WireAt, CountAt, RoleAt
<1> QED
  BY <1>1, <1>2 DEF Base, CallsInv

\* unload, expiry and withdrawal, which leave the coroutines where they are
Around == \/ UnloadWithoutSession \/ Unload \/ LogoutEnds
          \/ (\E s \in open : Close(s))
          \/ Distrust

LEMMA AroundFacts ==
    ASSUME Base, Around
    PROVE  /\ UNCHANGED <<taskVars, wireVars, countVars, cookie>>
           /\ authenticated' \in BOOLEAN /\ csrf' \in Tokens
           /\ open' \subseteq open
           /\ disturbed' \in {disturbed, [p \in Pollers |-> TRUE]}
           /\ open' # open => disturbed' = [p \in Pollers |-> TRUE]
           /\ ~contended' => ~contended
           /\ UNCHANGED reauth
<1> USE DEF Base, TypeOK, Forgotten, LoggedOut, Attributes, Tokens, authVars, entryVars,
        historyVars
<1>1. CASE UnloadWithoutSession \/ Unload
  BY <1>1 DEF UnloadWithoutSession, Unload, controllerVars
<1>2. CASE LogoutEnds
  BY <1>2 DEF LogoutEnds
<1>3. CASE (\E s \in open : Close(s)) \/ Distrust
  BY <1>3 DEF Close, Distrust
<1> QED
  BY <1>1, <1>2, <1>3 DEF Around

LEMMA AroundBase == ASSUME Base, Around PROVE Base'
<1>1. TypeOK'
  <2>1. /\ opened' \in 0..MaxLogins /\ closures' \in 0..MaxClosures
        /\ credentialsOk' \in BOOLEAN /\ permitted' \in BOOLEAN
    <3>1. ASSUME closures < MaxClosures, closures' = closures + 1
          PROVE  closures' \in 0..MaxClosures
      BY <3>1, BoundsAreNaturals DEF Base, TypeOK
    <3> QED
      BY <3>1 DEF Around, UnloadWithoutSession, Unload, LogoutEnds, Close, Distrust,
         controllerVars, Base, TypeOK
  <2>2. /\ entry' \in {"loaded", "leaving", "unloaded"} /\ leaving' \in Tokens
        /\ queued' \in BOOLEAN
    BY DEF Around, UnloadWithoutSession, Unload, LogoutEnds, Close, Distrust, unloadVars,
       entryVars, Base, TypeOK, Tokens
  <2>3. contended' \in BOOLEAN /\ overlapped' \in BOOLEAN /\ resumed' \in BOOLEAN
    BY DEF Around, UnloadWithoutSession, Unload, LogoutEnds, Close, Distrust, SomeRunning,
       historyVars, outliveVars, Base, TypeOK
  <2>4. disturbed' \in [Pollers -> BOOLEAN]
    BY AroundFacts DEF Base, TypeOK
  <2> QED
    BY <2>1, <2>2, <2>3, <2>4, AroundFacts DEF Base, TypeOK, taskVars, wireVars, countVars,
       Tokens
<1>2. CallsInv'
  BY AroundFacts DEF Base, CallsInv, WireAt, CountAt, RoleAt, taskVars, wireVars, countVars
<1> QED
  BY <1>1, <1>2 DEF Base

\* The steps of Next.
LEMMA Steps ==
    ASSUME [Next]_vars
    PROVE  \/ UNCHANGED vars \/ Around
           \/ \E t \in Tasks : Continues(t) \/ LoginAccepted(t) \/ Handle(t)
BY DEF Next, TaskNext, Continues, Around

LEMMA NextBase == Base /\ [Next]_vars => Base'
<1> SUFFICES ASSUME Base, [Next]_vars PROVE Base'
  OBVIOUS
<1>1. CASE UNCHANGED vars
  BY <1>1 DEF vars, authVars, taskVars, wireVars, controllerVars, unloadVars, entryVars,
     historyVars, countVars, outliveVars, Base, TypeOK, CallsInv, WireAt, CountAt, RoleAt
<1> QED
  BY <1>1, AroundBase, ContinuesBase, LoginBase, HandleBase, Steps

\* Session attributes, coroutines and the controller's sessions stay of their kind,
\* whatever coroutines share the session object.
THEOREM TypeCorrect == Spec => []TypeOK
<1>1. Base => TypeOK
  BY DEF Base
<1> QED
  BY <1>1, InitBase, NextBase, PTL DEF Spec

\* An operation sends at most one PUT, a call at most two requests and two logins, and
\* the write itself goes out once: an authentication failure, retry or classification
\* never repeats it, whoever invalidates or renews the session in the meantime.
THEOREM RequestsStayBounded == Spec => []RequestsBounded
<1>1. Base => RequestsBounded
  <2> SUFFICES ASSUME Base, NEW t \in Tasks
               PROVE  /\ puts[t] <= 1 /\ (stage[t] = "put" => sends[t] <= 1)
                      /\ sends[t] <= 2 /\ logins[t] <= 2
    BY DEF RequestsBounded
  <2>1. /\ CountAt(t) /\ attempt[t] \in {1, 2} /\ pc[t] \in PcStates
        /\ sends[t] \in Nat /\ logins[t] \in Nat
    BY DEF Base, CallsInv, TypeOK
  <2> QED
    BY <2>1 DEF CountAt, PcStates, Reads
<1> QED
  BY <1>1, InitBase, NextBase, PTL DEF Spec

-----------------------------------------------------------------------------
(* The only user of the session.                                            *)

\* Whoever runs alone stays so unless that is noted.
LEMMA NextSolo == Base /\ SoloInv /\ [Next]_vars => SoloInv'
<1> SUFFICES ASSUME Base, SoloInv, [Next]_vars PROVE SoloInv'
  OBVIOUS
<1> USE DEF Running, SomeRunning
<1>1. CASE UNCHANGED vars
  BY <1>1 DEF vars, taskVars, unloadVars, entryVars, historyVars, SoloInv
<1>2. CASE Around
  <2>1. stage' = stage
    BY <1>2, AroundFacts DEF taskVars
  <2>2. CASE UnloadWithoutSession \/ Unload
    <3>1. ~contended' => ~contended /\ ~SomeRunning
      BY <2>2 DEF UnloadWithoutSession, Unload
    <3> QED
      BY <2>1, <3>1 DEF SoloInv
  <2>3. CASE LogoutEnds \/ (\E s \in open : Close(s)) \/ Distrust
    <3>1. UNCHANGED contended /\ (entry' = "leaving" => entry = "leaving")
      BY <2>3 DEF LogoutEnds, Close, Distrust, unloadVars, entryVars, historyVars
    <3> QED
      BY <2>1, <3>1 DEF SoloInv
  <2> QED
    BY <1>2, <2>2, <2>3 DEF Around
<1>3. ASSUME NEW t \in Tasks, Start(t) PROVE SoloInv'
  <2>1. /\ entry' = entry
        /\ ~contended' => entry # "leaving" /\ \A o \in Tasks : ~Running(o)
    BY <1>3 DEF Start, unloadVars, entryVars
  <2>2. \A o \in Tasks \ {t} : stage'[o] = stage[o]
    BY <1>3, ContinuesFacts, TailFacts DEF Continues, Base
  <2> QED
    BY <2>1, <2>2 DEF SoloInv
<1>4. ASSUME NEW t \in Tasks, Continues(t), ~Start(t) PROVE SoloInv'
  <2>1. /\ stage[t] # "none" /\ contended' = contended /\ entry' = entry
        /\ \A o \in Tasks \ {t} : stage'[o] = stage[o]
    BY <1>4, ContinuesFacts, TailFacts DEF Base, unloadVars
  <2> QED
    BY <2>1 DEF SoloInv
<1>5. ASSUME NEW t \in Tasks, LoginAccepted(t) \/ Handle(t) PROVE SoloInv'
  BY <1>5 DEF LoginAccepted, Handle, taskVars, unloadVars, entryVars, historyVars, SoloInv
<1> QED
  BY <1>1, <1>2, <1>3, <1>4, <1>5, Steps

LEMMA NextAttributes == Base /\ SoloInv /\ AttributesInv /\ [Next]_vars => AttributesInv'
<1> SUFFICES ASSUME Base, SoloInv, AttributesInv, [Next]_vars, ~contended'
             PROVE  Sound(authenticated, csrf)' /\ \A o \in Tasks : UserAt(o)'
  BY DEF AttributesInv
<1> USE DEF Base
<1>0. ~contended => Sound(authenticated, csrf) /\ \A o \in Tasks : UserAt(o)
  BY DEF AttributesInv
\* nobody runs: nothing is required of anyone
<1>1. \A o \in Tasks : stage'[o] = "none" /\ WireAt(o)' => UserAt(o)'
  BY DEF WireAt, UserAt
<1>2. \A o \in Tasks : WireAt(o)'
  BY NextBase DEF CallsInv
<1>3. CASE UNCHANGED vars
  BY <1>0, <1>3 DEF vars, authVars, taskVars, wireVars, historyVars, Sound, UserAt
<1>4. CASE UnloadWithoutSession \/ Unload
  <2>1. ~contended /\ UNCHANGED <<taskVars, wireVars>> /\ \A o \in Tasks : ~Running(o)
    BY <1>4 DEF UnloadWithoutSession, Unload, SomeRunning
  <2>2. Sound(authenticated, csrf)'
    BY <1>0, <1>4, <2>1 DEF UnloadWithoutSession, Unload, Forgotten, Attributes, authVars, Sound
  <2> QED
    BY <1>1, <1>2, <2>1, <2>2 DEF Running, taskVars
<1>5. CASE LogoutEnds
  <2>1. ~contended /\ UNCHANGED <<taskVars, wireVars>> /\ \A o \in Tasks : ~Running(o)
    BY <1>5 DEF LogoutEnds, SoloInv, SomeRunning
  <2>2. Sound(authenticated, csrf)'
    BY <1>5 DEF LogoutEnds, LoggedOut, Forgotten, Attributes, Sound
  <2> QED
    BY <1>1, <1>2, <2>1, <2>2 DEF Running, taskVars
<1>6. CASE (\E s \in open : Close(s)) \/ Distrust
  BY <1>0, <1>6 DEF Close, Distrust, authVars, taskVars, wireVars, historyVars, Sound, UserAt
<1>7. ASSUME NEW t \in Tasks, Continues(t)
      PROVE  Sound(authenticated, csrf)' /\ \A o \in Tasks : UserAt(o)'
  <2>1. ~contended
    BY <1>7, ContinuesFacts DEF Start
  <2>2. SoundAfter(t) /\ cookie' = cookie /\ reply'[t] = NoReply
    BY <1>7, <2>1, ContinuesFacts DEF Kept, TypeOK
  <2>3. UserAt(t)'
    BY <2>2 DEF SoundAfter, UserAt
  <2>4. \A o \in Tasks \ {t} : stage'[o] = "none"
    <3>1. \A o \in Tasks \ {t} : stage'[o] = stage[o]
      BY <1>7, ContinuesFacts, TailFacts
    <3>2. CASE Start(t)
      BY <3>1, <3>2 DEF Start, Running
    <3>3. CASE ~Start(t)
      BY <1>7, <2>1, <3>1, <3>3, ContinuesFacts DEF SoloInv, Running
    <3> QED
      BY <3>2, <3>3
  <2> QED
    BY <1>1, <1>2, <2>2, <2>3, <2>4 DEF SoundAfter
<1>8. ASSUME NEW t \in Tasks, LoginAccepted(t)
      PROVE  Sound(authenticated, csrf)' /\ \A o \in Tasks : UserAt(o)'
  <2>1. /\ ~contended /\ pc[t] = "login" /\ UNCHANGED <<authenticated, csrf, stage, wireVars>>
        /\ pc' = [pc EXCEPT ![t] = "body"] /\ cookie' = opened'
        /\ opening' = [opening EXCEPT ![t] = opened']
    BY <1>8 DEF LoginAccepted
  <2>2. ~authenticated /\ csrf = None
    BY <1>0, <2>1 DEF UserAt, Sound
  <2>3. /\ stage[t] # "none" /\ request[t] = NoRequest /\ reply[t] = NoReply
    BY <2>1 DEF CallsInv, WireAt
  <2>4. UserAt(t)'
    BY <2>1, <2>2, <2>3 DEF UserAt, TypeOK, wireVars
  <2>5. \A o \in Tasks \ {t} : stage'[o] = "none"
    BY <2>1, <2>3 DEF SoloInv, Running
  <2> QED
    BY <1>1, <1>2, <2>1, <2>2, <2>4, <2>5 DEF Sound
<1>9. ASSUME NEW t \in Tasks, Handle(t)
      PROVE  Sound(authenticated, csrf)' /\ \A o \in Tasks : UserAt(o)'
  <2>1. PICK header \in {None, request[t].cookie} :
           /\ reply' = [reply EXCEPT ![t] = [status |-> Verdict(t), token |-> header]]
           /\ request[t] # NoRequest
           /\ request' = [request EXCEPT ![t] = NoRequest]
           /\ UNCHANGED <<authenticated, csrf, cookie, pc, opening, contended>>
    BY <1>9, HandleFacts DEF authVars, taskVars, historyVars
  <2>2. request[t].cookie = cookie
    BY <1>0, <2>1 DEF UserAt
  <2> QED
    BY <1>0, <2>1, <2>2 DEF UserAt, Sound, TypeOK
<1> QED
  BY <1>3, <1>4, <1>5, <1>6, <1>7, <1>8, <1>9, Steps DEF Around

LEMMA SpecAlone == Spec => [](Base /\ SoloInv /\ AttributesInv)
<1>1. Init => SoloInv /\ AttributesInv
  BY DEF Init, SoloInv, AttributesInv, Running, SomeRunning, Sound, UserAt
<1> QED
  BY <1>1, InitBase, NextBase, NextSolo, NextAttributes, PTL DEF Spec

\* As long as no two coroutines have used the session at once, the CSRF token is that of
\* the session in the cookie jar, through every login, invalidation and retry.
THEOREM TokensStayCurrent == Spec => []TokenIsCurrent
<1>1. AttributesInv => TokenIsCurrent
  BY DEF AttributesInv, TokenIsCurrent, Sound
<1> QED
  BY <1>1, SpecAlone, PTL

\* Nobody begins after an unload that none outlived, and nothing but a login completed
\* after the unload authenticates the session again.
LEMMA NextForgotten == Base /\ ForgottenInv /\ [Next]_vars => ForgottenInv'
<1> SUFFICES ASSUME Base, ForgottenInv, [Next]_vars PROVE ForgottenInv'
  OBVIOUS
<1> USE DEF Running, SomeRunning
<1>1. CASE UNCHANGED vars
  BY <1>1 DEF vars, authVars, taskVars, unloadVars, entryVars, historyVars, outliveVars,
     ForgottenInv
<1>2. CASE UnloadWithoutSession \/ LogoutEnds
  <2>1. /\ entry # "unloaded" /\ entry' = "unloaded"
        /\ ~authenticated' /\ csrf' = None /\ resumed' = resumed /\ stage' = stage
        /\ overlapped' = (queued' \/ SomeRunning)
    BY <1>2 DEF UnloadWithoutSession, LogoutEnds, LoggedOut, Forgotten, Attributes, taskVars
  <2> QED
    BY <2>1 DEF ForgottenInv
<1>3. CASE Unload
  BY <1>3 DEF Unload, outliveVars, ForgottenInv
<1>4. CASE (\E s \in open : Close(s)) \/ Distrust
  BY <1>4 DEF Close, Distrust, authVars, taskVars, unloadVars, entryVars, historyVars,
     outliveVars, ForgottenInv
<1>5. ASSUME NEW t \in Tasks, Continues(t) PROVE ForgottenInv'
  <2>1. /\ UNCHANGED <<unloadVars, overlapped>>
        /\ \A o \in Tasks \ {t} : stage'[o] = stage[o]
    BY <1>5, ContinuesFacts, TailFacts DEF Base
  \* whoever goes on after the unload outlived it
  <2>2. entry = "unloaded" => overlapped
    <3>1. CASE Start(t)
      <4>1. entry = "unloaded" => queued
        BY <3>1, TasksDisjoint DEF Start, MayStart
      <4> QED
        BY <4>1 DEF ForgottenInv
    <3>2. CASE ~Start(t)
      <4>1. stage[t] # "none"
        BY <1>5, <3>2, ContinuesFacts
      <4> QED
        BY <4>1 DEF ForgottenInv
    <3> QED
      BY <3>1, <3>2
  <2>3. authenticated' => authenticated \/ LoginCompleted(t)
    BY <1>5, OnlyLoginsAuthenticate
  <2>4. CASE resumed' = resumed /\ ~LoginCompleted(t)
    BY <2>1, <2>2, <2>3, <2>4 DEF ForgottenInv, unloadVars
  <2>5. CASE LoginCompleted(t) /\ resumed' = (resumed \/ entry = "unloaded")
    BY <2>1, <2>2, <2>5 DEF ForgottenInv, unloadVars
  <2> QED
    BY <1>5, <2>4, <2>5, OnlyLoginsAuthenticate
<1>6. ASSUME NEW t \in Tasks, LoginAccepted(t) \/ Handle(t) PROVE ForgottenInv'
  BY <1>6 DEF LoginAccepted, Handle, authVars, taskVars, unloadVars, entryVars, historyVars,
     outliveVars, ForgottenInv
<1> QED
  BY <1>1, <1>2, <1>3, <1>4, <1>5, <1>6, Steps DEF Around

\* The session object of an unloaded entry is authenticated only by a login completed
\* after the unload, and holds anything only if a coroutine outlived the unload: whether
\* or not the logout is answered, and whatever refresh begins while it is awaited.
THEOREM UnloadsForget == Spec => []UnloadForgets
<1>1. Init => ForgottenInv
  BY DEF Init, ForgottenInv
<1>2. ForgottenInv => UnloadForgets
  BY DEF ForgottenInv, UnloadForgets
<1> QED
  BY <1>1, <1>2, InitBase, NextBase, NextForgotten, PTL DEF Spec

-----------------------------------------------------------------------------
(* No false request for credentials.                                        *)

LEMMA NextOpen == Base /\ OpenInv /\ [Next]_vars => OpenInv'
<1> SUFFICES ASSUME Base, OpenInv, [Next]_vars, NEW o \in Pollers PROVE OpenAt(o)'
  BY DEF OpenInv
<1> USE DEF Base
<1>0. o \in Tasks /\ OpenAt(o)
  BY DEF OpenInv, Tasks
<1>1. CASE UNCHANGED vars
  BY <1>0, <1>1 DEF vars, authVars, taskVars, wireVars, controllerVars, historyVars, OpenAt
<1>2. CASE Around
  <2>1. CASE open' # open
    BY <1>2, <2>1, AroundFacts DEF OpenAt
  <2>2. CASE open' = open
    <3>1. /\ pc' = pc /\ attempt' = attempt /\ request' = request /\ reply' = reply
          /\ cookie' = cookie
          /\ disturbed'[o] \/ ~disturbed[o]
      BY <1>2, AroundFacts DEF taskVars, wireVars
    <3>2. CASE disturbed'[o]
      BY <3>2 DEF OpenAt
    <3>3. CASE ~disturbed[o]
      BY <1>0, <2>2, <3>1, <3>3 DEF OpenAt
    <3> QED
      BY <3>1, <3>2, <3>3
  <2> QED
    BY <2>1, <2>2
<1>3. ASSUME NEW t \in Tasks, Continues(t) PROVE OpenAt(o)'
  <2>0. Tail(t) /\ cookie' = cookie /\ open' = open /\ reply' = [reply EXCEPT ![t] = NoReply]
    BY <1>3, ContinuesFacts DEF Kept, controllerVars
  <2>1. CASE o = t
    <3>1. /\ pc'[t] # "body" /\ reply'[t] = NoReply
          /\ request'[t] # NoRequest => /\ request'[t].cookie = cookie
                                        /\ attempt'[t] = 2 => pc[t] = "body"
      BY <2>0, TailFacts DEF TypeOK
    <3>2. attempt'[t] = 2 => disturbed' = disturbed
      BY <1>3, ContinuesFacts
    <3> QED
      BY <1>0, <2>0, <2>1, <3>1, <3>2 DEF OpenAt
  <2>2. CASE o # t
    <3>1. /\ pc'[o] = pc[o] /\ attempt'[o] = attempt[o] /\ request'[o] = request[o]
          /\ reply'[o] = reply[o]
      BY <1>0, <2>0, <2>2, TailFacts DEF TypeOK
    <3>2. disturbed'[o] = disturbed[o]
      BY <1>3, <2>2, ContinuesFacts DEF Start, Undisturbed, TypeOK
    <3> QED
      BY <1>0, <2>0, <3>1, <3>2 DEF OpenAt
  <2> QED
    BY <2>1, <2>2
<1>4. ASSUME NEW t \in Tasks, LoginAccepted(t) PROVE OpenAt(o)'
  <2>1. /\ cookie' \in open' /\ open \subseteq open'
        /\ UNCHANGED <<attempt, request, reply>>
    BY <1>4 DEF LoginAccepted, wireVars
  <2>2. CASE o = t
    BY <1>4, <2>1, <2>2 DEF LoginAccepted, CallsInv, WireAt, OpenAt
  <2>3. CASE o # t
    <3>1. pc'[o] = pc[o] /\ disturbed'[o] = disturbed[o]
      BY <1>0, <1>4, <2>3 DEF LoginAccepted, Undisturbed, TypeOK
    <3> QED
      BY <1>0, <2>1, <3>1 DEF OpenAt
  <2> QED
    BY <2>2, <2>3
<1>5. ASSUME NEW t \in Tasks, Handle(t) PROVE OpenAt(o)'
  <2>1. UNCHANGED <<pc, attempt, cookie, open, disturbed>>
    BY <1>5, HandleFacts DEF taskVars, authVars, controllerVars, historyVars
  <2>2. CASE o = t
    <3>1. request'[t] = NoRequest /\ reply'[t].status = Verdict(t) /\ request[t] # NoRequest
      BY <1>5, HandleFacts DEF TypeOK
    <3>2. request[t].cookie \in open => Verdict(t) # "unauthorized"
      BY DEF Verdict
    <3> QED
      BY <1>0, <2>1, <2>2, <3>1, <3>2 DEF OpenAt
  <2>3. CASE o # t
    <3>1. request'[o] = request[o] /\ reply'[o] = reply[o]
      BY <1>0, <1>5, <2>3, HandleFacts DEF TypeOK
    <3> QED
      BY <1>0, <2>1, <3>1 DEF OpenAt
  <2> QED
    BY <2>2, <2>3
<1> QED
  BY <1>1, <1>2, <1>3, <1>4, <1>5, Steps

\* Home Assistant asks for credentials only where the controller rejected them, or where
\* the session of a refresh's own login was closed before its second attempt: another
\* coroutine's invalidation or login never makes that attempt fail.
THEOREM ReauthenticationIsJustified == Spec => NoFalseReauth
<1> DEFINE Justified ==
        ~reauth /\ reauth' =>
            \/ ~credentialsOk \/ LoginErrors
            \/ \E t \in Pollers : Running(t) /\ ~Running(t)' /\ disturbed[t]
<1>1. Init => OpenInv
  BY DEF Init, OpenInv, OpenAt, Tasks
<1>2. Base /\ OpenInv /\ [Next]_vars => [Justified]_vars
  <2> SUFFICES ASSUME Base, OpenInv, [Next]_vars, ~reauth, reauth'
               PROVE  \/ ~credentialsOk \/ LoginErrors
                      \/ \E t \in Pollers : Running(t) /\ ~Running(t)' /\ disturbed[t]
    OBVIOUS
  <2>1. ~UNCHANGED vars /\ ~Around
    BY AroundFacts DEF vars, entryVars
  <2>2. PICK t \in Tasks : Continues(t) \/ LoginAccepted(t) \/ Handle(t)
    BY <2>1, Steps
  <2>3. LoginFails(t) \/ Refused(t)
    BY <2>2 DEF Continues, Start, LoginCompleted, Answered, RefusedOnce, RequestLost,
       LoginAccepted, Handle, Raise, entryVars
  <2>4. CASE LoginFails(t)
    BY <2>4 DEF LoginFails, Raise
  <2>5. CASE Refused(t)
    <3>1. /\ stage[t] = "poll" /\ reply[t].status # "forbidden"
          /\ Finish(t)
      BY <2>5 DEF Refused, Raise
    <3>2. /\ reply[t] # NoReply /\ reply[t].status # "ok" /\ attempt[t] # 1
      BY <2>5, <3>1 DEF Refused, MayRetry, Reads
    <3>3. reply[t].status = "unauthorized" /\ attempt[t] = 2
      BY <3>1, <3>2 DEF Base, TypeOK, Replies, Statuses
    <3>4. t \in Pollers /\ Running(t) /\ ~Running(t)'
      BY <3>1 DEF Finish, At, Running, Base, CallsInv, RoleAt, TypeOK
    <3>5. disturbed[t]
      BY <3>2, <3>3, <3>4 DEF OpenInv, OpenAt
    <3> QED
      BY <3>4, <3>5
  <2> QED
    BY <2>3, <2>4, <2>5
<1> QED
  BY <1>1, <1>2, InitBase, NextBase, NextOpen, PTL DEF Spec, NoFalseReauth
=============================================================================
