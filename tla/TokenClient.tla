----------------------------- MODULE TokenClient -----------------------------
(***************************************************************************)
(* The tokens of the web client: the axios instance with its interceptors  *)
(* (frontend/src/api/client.js) and the session kept by AuthContext.       *)
(*                                                                         *)
(* A request that is answered 401 starts a refresh, or waits in a queue    *)
(* for the refresh that is under way, and is sent again with the new       *)
(* token.  A refresh that fails ends the session.  JavaScript runs one     *)
(* callback at a time: what a callback does before it awaits the network   *)
(* is one step here; answers come in any order, late, or not at all.       *)
(*                                                                         *)
(* The server is reduced to what the client can tell: which access tokens  *)
(* it still accepts, and which refresh tokens.  A login session is named   *)
(* by its refresh token, which never changes.  The module follows one load *)
(* of the page: loading it again forgets all but the stored refresh token, *)
(* and begins once more in a state of Init.                                *)
(***************************************************************************)
EXTENDS Naturals, FiniteSets

CONSTANTS
    Calls,      \* requests that pages make, each once
    Sessions,   \* login sessions
    Owners,     \* users
    OwnerOf,    \* the user of each session
    NoSession

ASSUME SessionsHaveOwners ==
    /\ OwnerOf \in [Sessions -> Owners]
    /\ NoSession \notin Sessions

VARIABLES
    ref,        \* _accessToken of client.js
    context,    \* the session whose access token is in the state of AuthContext
    stored,     \* the refresh token in localStorage
    refreshing, \* _isRefreshing
    queue,      \* _refreshQueue: the calls that wait for the refresh
    state,      \* what has become of each call
    request,    \* the request of each call that is under way
    silent,     \* the silent login: "none", "asked", "granted" or "denied"
    silentToken,\* the refresh token it presents, with the access token granted
    issued,     \* server: how many access tokens each session was given
    lapsed,     \* server: how many of them have expired, the oldest first
    dead,       \* server: refresh tokens that it no longer accepts
    acted       \* history: how often the server has carried out each call

session == <<ref, context, stored>>
calls   == <<state, request>>
login   == <<silent, silentToken>>
server  == <<issued, lapsed, dead, acted>>

vars == <<session, refreshing, queue, calls, login, server>>

-----------------------------------------------------------------------------
\* Serial 0 stands for no access token, or for one that is not granted yet.
Tokens == [session : Sessions \union {NoSession}, serial : Nat]

NoToken == [session |-> NoSession, serial |-> 0]

NewToken(s) == [session |-> s, serial |-> issued[s] + 1]

Issue(s) == issued' = [issued EXCEPT ![s] = @ + 1]

Expired(t) == t.serial <= lapsed[t.session]

\* kind   what the call is for
\* token  the access token it carries; for a refresh, the one granted
\* body   the refresh token that a logout, or a refresh, presents
\* retry  original._retry
\* reply  the answer of the server, on its way
NoRequest == [kind |-> "page", token |-> NoToken, body |-> NoSession,
              retry |-> FALSE, reply |-> "none"]

\* The calls of C are over, or for the time being out of the server's hands.
Drop(C) == [c \in Calls |-> IF c \in C THEN NoRequest ELSE request[c]]

Answered(c, answer) == request' = [request EXCEPT ![c].reply = answer]

Pending(c) == state[c] \in {"sent", "queued", "refreshing"}

\* The page has just been loaded, with a refresh token in localStorage or none.
\* If there is one it asks for an access token.
Init ==
    /\ ref = NoToken /\ context = NoSession
    /\ stored \in Sessions \union {NoSession}
    /\ refreshing = FALSE /\ queue = {}
    /\ state = [c \in Calls |-> "unsent"]
    /\ request = [c \in Calls |-> NoRequest]
    /\ silent = IF stored = NoSession THEN "none" ELSE "asked"
    /\ silentToken = [session |-> stored, serial |-> 0]
    /\ issued = [s \in Sessions |-> IF s = stored THEN 1 ELSE 0]
    /\ lapsed = issued
    /\ dead = {}
    /\ acted = [c \in Calls |-> 0]

\* clearSession of AuthContext.
ClearSession == ref' = NoToken /\ context' = NoSession /\ stored' = NoSession

-----------------------------------------------------------------------------
(* Calls.                                                                  *)

\* The request interceptor attaches the token that the client holds.
Send(c, k, t, s) ==
    /\ state[c] = "unsent"
    /\ state' = [state EXCEPT ![c] = "sent"]
    /\ request' = [request EXCEPT ![c] =
                     [kind |-> k, token |-> t, body |-> s, retry |-> FALSE, reply |-> "none"]]

\* The pages are shown once the silent login is over, if there is a session.
Loading == silent # "none" \/ \E c \in Calls : request[c].kind = "me"

PageShown == ~ Loading /\ context # NoSession

MakeCall(c) ==
    /\ PageShown
    /\ Send(c, "page", ref, NoSession)
    /\ UNCHANGED <<session, refreshing, queue, login, server>>

Logout(c) ==
    /\ PageShown
    /\ \/ stored # NoSession /\ Send(c, "logout", ref, stored) /\ UNCHANGED session
       \/ stored = NoSession /\ ClearSession /\ UNCHANGED calls
    /\ UNCHANGED <<refreshing, queue, login, server>>

\* The server accepts the token and carries out the call, or refuses it for a
\* reason of its own, or answers 401: it does not accept the token, or a page
\* call has presented a wrong password (to reveal a card).  A logout revokes
\* the refresh token if it is of the caller.
Serve(c) ==
    LET q == request[c] IN
    /\ state[c] = "sent" /\ q.reply = "none"
    /\ \/ /\ ~ Expired(q.token)
          /\ Answered(c, "ok")
          /\ acted' = [acted EXCEPT ![c] = @ + 1]
          /\ dead' = IF q.kind = "logout" /\ OwnerOf[q.body] = OwnerOf[q.token.session]
                     THEN dead \union {q.body} ELSE dead
       \/ ~ Expired(q.token) /\ Answered(c, "error") /\ UNCHANGED <<acted, dead>>
       \/ /\ Expired(q.token) \/ q.kind = "page"
          /\ Answered(c, "unauthorized")
          /\ UNCHANGED <<acted, dead>>
    /\ UNCHANGED <<session, refreshing, queue, state, login, issued, lapsed>>

\* What follows when call c is over: logout() clears the session whatever the
\* answer, and the silent login forgets the refresh token if getMe() fails.
Conclude(c, ok) ==
    CASE request[c].kind = "logout"     -> ClearSession
      [] request[c].kind = "me" /\ ~ ok -> stored' = NoSession /\ UNCHANGED <<ref, context>>
      [] OTHER                          -> UNCHANGED session

Settle(c, outcome) ==
    /\ state' = [state EXCEPT ![c] = outcome]
    /\ request' = Drop({c})
    /\ Conclude(c, outcome = "ok")
    /\ UNCHANGED <<refreshing, queue, login, server>>

ReceiveAnswer(c) ==
    /\ state[c] = "sent"
    /\ \/ request[c].reply = "ok" /\ Settle(c, "ok")
       \/ request[c].reply = "error" /\ Settle(c, "failed")

\* 401 to a call that was sent again already.
GiveUp(c) ==
    /\ state[c] = "sent" /\ request[c].reply = "unauthorized" /\ request[c].retry
    /\ Settle(c, "refused")

\* Deviation: a call whose answer is lost is sent again.
LoseAnswerRetrying(c) ==
    /\ state[c] = "sent"
    /\ \/ request[c].retry /\ Settle(c, "failed")
       \/ /\ ~ request[c].retry
          /\ request' = [request EXCEPT ![c].retry = TRUE, ![c].reply = "none"]
          /\ UNCHANGED <<session, refreshing, queue, state, login, server>>

\* A network error, before or after the server has handled the call.
LoseAnswer(c) == state[c] = "sent" /\ Settle(c, "failed")

-----------------------------------------------------------------------------
(* The refresh on 401.                                                     *)

\* 401 to a call that was not sent again yet.
FirstRefusal(c) ==
    state[c] = "sent" /\ request[c].reply = "unauthorized" /\ ~ request[c].retry

\* A request that was refused once, with another token and answer.
Renew(q, t, answer) ==
    [kind |-> q.kind, token |-> t, body |-> q.body, retry |-> TRUE, reply |-> answer]

\* The call waits for a new token; a refresh presents the stored refresh token.
Await(c, where, presented) ==
    /\ state' = [state EXCEPT ![c] = where]
    /\ request' = [request EXCEPT ![c] =
                     Renew(request[c], [session |-> presented, serial |-> 0], "none")]

JoinQueue(c) ==
    /\ FirstRefusal(c) /\ refreshing
    /\ queue' = queue \union {c}
    /\ Await(c, "queued", NoSession)
    /\ UNCHANGED <<session, refreshing, login, server>>

\* Deviation: the flag _isRefreshing is not raised.
StartRefreshUnflagged(c) ==
    /\ FirstRefusal(c) /\ ~ refreshing /\ stored # NoSession
    /\ Await(c, "refreshing", stored)
    /\ UNCHANGED <<session, refreshing, queue, login, server>>

\* Deviation: a refresh is asked for with no refresh token stored.
StartRefreshUnstored(c) ==
    /\ FirstRefusal(c) /\ ~ refreshing
    /\ refreshing' = TRUE
    /\ Await(c, "refreshing", stored)
    /\ UNCHANGED <<session, queue, login, server>>

StartRefresh(c) ==
    /\ FirstRefusal(c) /\ ~ refreshing /\ stored # NoSession
    /\ refreshing' = TRUE
    /\ Await(c, "refreshing", stored)
    /\ UNCHANGED <<session, queue, login, server>>

\* "No refresh token stored": the session ends at once.
NothingStored(c) ==
    /\ FirstRefusal(c) /\ ~ refreshing /\ stored = NoSession
    /\ state' = [state EXCEPT ![c] = "refused"]
    /\ request' = Drop({c})
    /\ ClearSession
    /\ UNCHANGED <<refreshing, queue, login, server>>

ServeRefresh(c) ==
    LET s == request[c].token.session IN
    /\ state[c] = "refreshing" /\ request[c].reply = "none"
    /\ \/ /\ s \notin dead
          /\ request' = [request EXCEPT ![c] = Renew(request[c], NewToken(s), "ok")]
          /\ Issue(s)
       \/ s \in dead /\ Answered(c, "unauthorized") /\ UNCHANGED issued
    /\ UNCHANGED <<session, refreshing, queue, state, login, lapsed, dead, acted>>

Waiting(c) == queue \union {c}

\* The new token is set, and every waiting call is sent again with it.
FinishRefresh(c) ==
    /\ state[c] = "refreshing" /\ request[c].reply = "ok"
    /\ ref' = request[c].token
    /\ state' = [d \in Calls |-> IF d \in Waiting(c) THEN "sent" ELSE state[d]]
    /\ request' = [d \in Calls |->
                     IF d \in Waiting(c) THEN Renew(request[d], request[c].token, "none")
                                         ELSE request[d]]
    /\ queue' = {} /\ refreshing' = FALSE
    /\ UNCHANGED <<context, stored, login, server>>

\* Deviation: the queue is emptied, and its calls are never rejected.
FailRefreshDroppingQueue(c) ==
    /\ state[c] = "refreshing"
    /\ state' = [state EXCEPT ![c] = "refused"]
    /\ request' = Drop({c})
    /\ ClearSession
    /\ queue' = {} /\ refreshing' = FALSE
    /\ UNCHANGED <<login, server>>

\* The refresh is refused, or its answer is lost: every waiting call is
\* rejected, and the session is ended.
FailRefresh(c) ==
    /\ state[c] = "refreshing"
    /\ state' = [d \in Calls |-> IF d \in Waiting(c) THEN "refused" ELSE state[d]]
    /\ request' = Drop(Waiting(c))
    /\ ClearSession
    /\ queue' = {} /\ refreshing' = FALSE
    /\ UNCHANGED <<login, server>>

-----------------------------------------------------------------------------
(* Login, silent login, reload; and what happens at the server by itself.  *)

\* The answer to a login; one that fails changes nothing.  The login page is a public
\* route: it can be reached while the silent login is under way, and while an earlier
\* session is live, which the new one then replaces.
Login(s) ==
    /\ issued[s] = 0
    /\ Issue(s)
    /\ stored' = s /\ context' = s /\ ref' = NewToken(s)
    /\ UNCHANGED <<refreshing, queue, calls, login, lapsed, dead, acted>>

ServeSilent ==
    /\ silent = "asked"
    /\ \/ /\ silentToken.session \notin dead
          /\ silent' = "granted"
          /\ silentToken' = NewToken(silentToken.session)
          /\ Issue(silentToken.session)
       \/ /\ silentToken.session \in dead
          /\ silent' = "denied"
          /\ UNCHANGED <<silentToken, issued>>
    /\ UNCHANGED <<session, refreshing, queue, calls, lapsed, dead, acted>>

\* The token is set, and getMe() is called with it.
SilentSucceeds(c) ==
    /\ silent = "granted"
    /\ ref' = silentToken /\ context' = silentToken.session
    /\ Send(c, "me", silentToken, NoSession)
    /\ silent' = "none" /\ silentToken' = NoToken
    /\ UNCHANGED <<stored, refreshing, queue, server>>

\* The refresh token is removed, whatever the reason of the failure.
SilentFails ==
    /\ silent # "none"
    /\ silent' = "none" /\ silentToken' = NoToken
    /\ stored' = NoSession
    /\ UNCHANGED <<ref, context, refreshing, queue, calls, server>>

\* An access token lives fifteen minutes.
Expire(s) ==
    /\ lapsed[s] < issued[s]
    /\ lapsed' = [lapsed EXCEPT ![s] = @ + 1]
    /\ UNCHANGED <<session, refreshing, queue, calls, login, issued, dead, acted>>

\* Seven days have passed since the login, or the user is deleted.
Die(s) ==
    /\ issued[s] > 0 /\ s \notin dead
    /\ dead' = dead \union {s}
    /\ UNCHANGED <<session, refreshing, queue, calls, login, issued, lapsed, acted>>

Handle(c) ==
    \/ Serve(c) \/ ReceiveAnswer(c) \/ GiveUp(c) \/ LoseAnswer(c)
    \/ JoinQueue(c) \/ StartRefresh(c) \/ NothingStored(c)
    \/ ServeRefresh(c) \/ FinishRefresh(c) \/ FailRefresh(c)

Next ==
    \/ \E c \in Calls : MakeCall(c) \/ Logout(c) \/ Handle(c) \/ SilentSucceeds(c)
    \/ ServeSilent \/ SilentFails
    \/ \E s \in Sessions : Login(s) \/ Expire(s) \/ Die(s)

Spec == Init /\ [][Next]_vars

\* Every request of the browser ends, with an answer or a network error, and
\* the callback that waits for it runs.
FairSpec == Spec /\ \A c \in Calls : WF_vars(Handle(c))

-----------------------------------------------------------------------------
(* Properties.                                                             *)

States == {"unsent", "sent", "queued", "refreshing", "ok", "failed", "refused"}

Requests ==
    [kind : {"page", "logout", "me"}, token : Tokens,
     body : Sessions \union {NoSession}, retry : BOOLEAN,
     reply : {"none", "ok", "error", "unauthorized"}]

\* The type of every variable; a refresh always presents a refresh token.
TypeOK ==
    /\ ref \in Tokens
    /\ context \in Sessions \union {NoSession}
    /\ stored \in Sessions \union {NoSession}
    /\ refreshing \in BOOLEAN
    /\ queue \subseteq Calls
    /\ state \in [Calls -> States]
    /\ request \in [Calls -> Requests]
    /\ \A c \in Calls : state[c] = "refreshing" => request[c].token.session \in Sessions
    /\ \A c \in Calls : request[c].kind = "logout" => request[c].body \in Sessions
    /\ silent \in {"none", "asked", "granted", "denied"}
    /\ silentToken \in Tokens
    /\ silent # "none" => silentToken.session \in Sessions
    /\ issued \in [Sessions -> Nat]
    /\ lapsed \in [Sessions -> Nat]
    /\ dead \subseteq Sessions
    /\ acted \in [Calls -> Nat]

\* The calls in the queue are exactly those that wait, and they wait for one
\* refresh that is under way: whatever ends it (a new token, a refusal, a lost
\* answer) takes all of them out, and no second refresh runs beside it.
QueueIsServed ==
    /\ queue = {c \in Calls : state[c] = "queued"}
    /\ \A c, d \in Calls : state[c] = "refreshing" /\ state[d] = "refreshing" => c = d
    /\ refreshing <=> \E c \in Calls : state[c] = "refreshing"
    /\ queue # {} => refreshing

\* Although the client sends calls again by itself, the server carries out each
\* of them at most once, and what the caller is told is true: a call that
\* succeeded was carried out, and one that was refused was not.
ActsOnce ==
    \A c \in Calls :
        /\ acted[c] <= 1
        /\ state[c] = "ok" => acted[c] = 1
        /\ state[c] \in {"queued", "refreshing", "refused"} => acted[c] = 0

\* The server has carried out a call under way only if its answer says so.
AnswersAreTrue ==
    \A c \in Calls :
        /\ state[c] = "unsent" => acted[c] = 0
        /\ state[c] = "sent" => acted[c] = (IF request[c].reply = "ok" THEN 1 ELSE 0)

\* The inductive invariant.
ClientInv == TypeOK /\ QueueIsServed /\ ActsOnce /\ AnswersAreTrue

\* No call of a page waits for ever: not in the queue, not through a chain of
\* refreshes each of which is answered by another 401.
EveryCallEnds == \A c \in Calls : Pending(c) ~> ~ Pending(c)

-----------------------------------------------------------------------------
(* What the comments claim and the code does not do.                       *)

\* client.js: the token that the interceptors attach is "updated by AuthContext
\* on every token change".  So once AuthContext has cleared a session, or has
\* begun another one, the client no longer holds a token of the old one.
RefFollowsContext == ref.session = context
=============================================================================
