-------------------------- MODULE TokenClientProofs --------------------------
(***************************************************************************)
(* Proofs about TokenClient, for any number of calls and sessions.         *)
(*                                                                         *)
(* ClientInv holds initially and is preserved by every step.  Steps that   *)
(* concern one call are grouped by what they do to it: it is sent, served, *)
(* settled, made to wait, or released together with all that wait.         *)
(***************************************************************************)
EXTENDS TokenClient, TLAPS

LEMMA NullsAreTyped == NoToken \in Tokens /\ NoRequest \in Requests
BY DEF NoToken, Tokens, NoRequest, Requests

LEMMA RequestFields ==
    ASSUME NEW q \in Requests
    PROVE  /\ q.kind \in {"page", "logout", "me"}
           /\ q.token \in Tokens
           /\ q.token.session \in Sessions \union {NoSession}
           /\ q.body \in Sessions \union {NoSession}
           /\ q.retry \in BOOLEAN
           /\ q.reply \in {"none", "ok", "error", "unauthorized"}
BY DEF Requests, Tokens

LEMMA RenewType ==
    ASSUME NEW q \in Requests, NEW t \in Tokens, NEW a \in {"none", "ok"}
    PROVE  LET n == Renew(q, t, a) IN
           /\ n \in Requests
           /\ n.kind = q.kind /\ n.body = q.body /\ n.token = t /\ n.reply = a
BY RequestFields DEF Renew, Requests

LEMMA NewTokenType ==
    ASSUME TypeOK, NEW s \in Sessions
    PROVE  NewToken(s) \in Tokens /\ NewToken(s).session = s
BY DEF TypeOK, NewToken, Tokens

LEMMA InitInvariant == Init => ClientInv
<1> SUFFICES ASSUME Init PROVE ClientInv
  OBVIOUS
<1>1. TypeOK
  <2>1. silentToken \in Tokens /\ (silent # "none" => silentToken.session \in Sessions)
    BY SessionsHaveOwners DEF Init, Tokens
  <2>2. /\ request \in [Calls -> Requests]
        /\ \A c \in Calls : request[c].kind = "page" /\ state[c] = "unsent"
    BY NullsAreTyped DEF Init, NoRequest
  <2>3. ref \in Tokens /\ silent \in {"none", "asked", "granted", "denied"}
    BY NullsAreTyped DEF Init
  <2> QED BY <2>1, <2>2, <2>3 DEF Init, TypeOK, States
<1>2. QueueIsServed
  BY DEF Init, QueueIsServed
<1>3. ActsOnce /\ AnswersAreTrue
  BY DEF Init, ActsOnce, AnswersAreTrue
<1> QED BY <1>1, <1>2, <1>3 DEF ClientInv

\* The part of TypeOK that says what the client holds.
HeldType ==
    /\ ref \in Tokens
    /\ context \in Sessions \union {NoSession}
    /\ stored \in Sessions \union {NoSession}

\* The part of TypeOK about calls.
CallType ==
    /\ state \in [Calls -> States]
    /\ request \in [Calls -> Requests]
    /\ \A c \in Calls : state[c] = "refreshing" => request[c].token.session \in Sessions
    /\ \A c \in Calls : request[c].kind = "logout" => request[c].body \in Sessions

\* The rest of it.
OtherType ==
    /\ refreshing \in BOOLEAN
    /\ queue \subseteq Calls
    /\ silent \in {"none", "asked", "granted", "denied"}
    /\ silentToken \in Tokens
    /\ silent # "none" => silentToken.session \in Sessions
    /\ issued \in [Sessions -> Nat]
    /\ lapsed \in [Sessions -> Nat]
    /\ dead \subseteq Sessions
    /\ acted \in [Calls -> Nat]

\* A call is sent for the first time.
LEMMA SendKeeps ==
    ASSUME ClientInv, NEW c \in Calls, NEW k \in {"page", "logout", "me"},
           NEW t \in Tokens, NEW s \in Sessions \union {NoSession},
           k = "logout" => s \in Sessions,
           Send(c, k, t, s), UNCHANGED <<refreshing, queue, acted>>
    PROVE  CallType' /\ QueueIsServed' /\ ActsOnce' /\ AnswersAreTrue'
<1> DEFINE q == [kind |-> k, token |-> t, body |-> s, retry |-> FALSE, reply |-> "none"]
<1>1. q \in Requests
  BY DEF Requests
<1>2. /\ state \in [Calls -> States] /\ request \in [Calls -> Requests]
      /\ state[c] = "unsent"
      /\ state' = [state EXCEPT ![c] = "sent"]
      /\ request' = [request EXCEPT ![c] = q]
  BY DEF ClientInv, TypeOK, Send
<1>3. /\ state' \in [Calls -> States]
      /\ state'[c] = "sent" /\ \A d \in Calls \ {c} : state'[d] = state[d]
  BY <1>2 DEF States
<1>4. /\ request' \in [Calls -> Requests]
      /\ request'[c] = q /\ \A d \in Calls \ {c} : request'[d] = request[d]
  BY <1>1, <1>2
<1> HIDE DEF q
<1>5. q.kind = k /\ q.body = s /\ q.reply = "none"
  BY DEF q
<1>6. CallType'
  BY <1>3, <1>4, <1>5 DEF ClientInv, TypeOK, CallType
<1>7. QueueIsServed'
  BY <1>2, <1>3 DEF ClientInv, QueueIsServed
<1>8. ActsOnce' /\ AnswersAreTrue'
  BY <1>2, <1>3, <1>4, <1>5 DEF ClientInv, ActsOnce, AnswersAreTrue
<1> QED BY <1>6, <1>7, <1>8
\* The answer to a call that is sent is on its way; the call is carried out if
\* the answer is "ok".
LEMMA AnswerKeeps ==
    ASSUME ClientInv, NEW c \in Calls, NEW a \in {"ok", "error", "unauthorized"},
           state[c] = "sent", request[c].reply = "none", Answered(c, a),
           acted' = IF a = "ok" THEN [acted EXCEPT ![c] = @ + 1] ELSE acted,
           UNCHANGED <<refreshing, queue, state>>
    PROVE  CallType' /\ QueueIsServed' /\ ActsOnce' /\ AnswersAreTrue' /\ acted' \in [Calls -> Nat]
<1> DEFINE q == [kind |-> request[c].kind, token |-> request[c].token,
                 body |-> request[c].body, retry |-> request[c].retry, reply |-> a]
<1>1. request \in [Calls -> Requests] /\ request[c] \in Requests /\ acted \in [Calls -> Nat]
  BY DEF ClientInv, TypeOK
<1>2. q \in Requests
  BY <1>1, RequestFields DEF Requests
<1>3. [request[c] EXCEPT !.reply = a] = q
  BY <1>1 DEF Requests
<1>4. request' = [request EXCEPT ![c] = q]
  BY <1>3 DEF Answered
<1>5. q.kind = request[c].kind /\ q.body = request[c].body /\ q.reply = a
  OBVIOUS
<1> HIDE DEF q
<1>6. /\ request' \in [Calls -> Requests]
      /\ request'[c] = q /\ \A d \in Calls \ {c} : request'[d] = request[d]
  BY <1>1, <1>2, <1>4
<1>7. acted[c] = 0
  BY DEF ClientInv, AnswersAreTrue
<1>8. /\ acted' \in [Calls -> Nat]
      /\ acted'[c] = IF a = "ok" THEN 1 ELSE 0
      /\ \A d \in Calls \ {c} : acted'[d] = acted[d]
  BY <1>1, <1>7
<1>9. CallType'
  BY <1>5, <1>6 DEF ClientInv, TypeOK, CallType
<1>10. QueueIsServed'
  BY DEF ClientInv, QueueIsServed
<1>11. ActsOnce' /\ AnswersAreTrue'
  BY <1>5, <1>6, <1>8 DEF ClientInv, ActsOnce, AnswersAreTrue
<1> QED BY <1>8, <1>9, <1>10, <1>11

\* Calls end, and their requests are dropped: one that is sent, or the one that
\* refreshes together with all that wait for it.
LEMMA DropKeeps ==
    ASSUME ClientInv, NEW C \in SUBSET Calls, NEW o \in {"ok", "failed", "refused"},
           state' = [d \in Calls |-> IF d \in C THEN o ELSE state[d]],
           request' = Drop(C),
           acted' = acted,
           \A d \in C : /\ o = "ok" => acted[d] = 1
                        /\ o = "refused" => acted[d] = 0
    PROVE  CallType' /\ ActsOnce' /\ AnswersAreTrue'
<1>1. state \in [Calls -> States] /\ request \in [Calls -> Requests]
  BY DEF ClientInv, TypeOK
<1>2. \A d \in Calls : request'[d] = IF d \in C THEN NoRequest ELSE request[d]
  BY DEF Drop
<1>3. request' \in [Calls -> Requests]
  BY <1>1, NullsAreTyped DEF Drop
<1>4. state' \in [Calls -> States]
  BY <1>1 DEF States
<1>5. NoRequest.kind = "page"
  BY DEF NoRequest
<1>6. CallType'
  BY <1>2, <1>3, <1>4, <1>5 DEF ClientInv, TypeOK, CallType
<1>7. ActsOnce' /\ AnswersAreTrue'
  BY <1>2 DEF ClientInv, ActsOnce, AnswersAreTrue
<1> QED BY <1>6, <1>7

LEMMA HeldAfterClear ==
    ASSUME ClientInv, ClearSession
    PROVE  HeldType'
BY NullsAreTyped DEF ClearSession, HeldType

LEMMA SettleKeeps ==
    ASSUME ClientInv, NEW c \in Calls, NEW o \in {"ok", "failed", "refused"},
           state[c] = "sent", Settle(c, o),
           o = "ok" => request[c].reply = "ok",
           o = "refused" => request[c].reply = "unauthorized"
    PROVE  ClientInv'
<1>1. state' = [d \in Calls |-> IF d \in {c} THEN o ELSE state[d]]
  <2>1. state \in [Calls -> States] /\ state' = [state EXCEPT ![c] = o]
    BY DEF ClientInv, TypeOK, Settle
  <2> QED BY <2>1
<1>2. request' = Drop({c}) /\ UNCHANGED <<refreshing, queue, login, server>>
  BY DEF Settle
<1>3. (o = "ok" => acted[c] = 1) /\ (o = "refused" => acted[c] = 0)
  BY DEF ClientInv, AnswersAreTrue
<1>4. CallType' /\ ActsOnce' /\ AnswersAreTrue'
  BY <1>1, <1>2, <1>3, DropKeeps DEF server
<1>5. QueueIsServed'
  BY <1>1, <1>2 DEF ClientInv, QueueIsServed
<1>6. HeldType'
  <2> DEFINE forgets == request[c].kind = "me" /\ o # "ok"
  <2>1. Conclude(c, o = "ok")
    BY DEF Settle
  <2>2. CASE request[c].kind = "logout"
    BY <2>1, <2>2, HeldAfterClear DEF Conclude
  <2>3. CASE request[c].kind # "logout" /\ forgets
    BY <2>1, <2>3 DEF Conclude, ClientInv, TypeOK, HeldType
  <2>4. CASE request[c].kind # "logout" /\ ~ forgets
    <3>1. UNCHANGED session
      BY <2>1, <2>4 DEF Conclude
    <3> QED BY <3>1 DEF session, ClientInv, TypeOK, HeldType
  <2> QED BY <2>2, <2>3, <2>4
<1>7. OtherType'
  BY <1>2 DEF ClientInv, TypeOK, OtherType, login, server
<1>8. TypeOK'
  BY <1>4, <1>6, <1>7 DEF TypeOK, HeldType, CallType, OtherType
<1> QED BY <1>4, <1>5, <1>8 DEF ClientInv

\* A call that is answered 401 for the first time has to wait.
LEMMA AwaitKeeps ==
    ASSUME ClientInv, NEW c \in Calls, NEW w \in {"queued", "refreshing"},
           NEW p \in Sessions \union {NoSession},
           w = "refreshing" => p \in Sessions,
           FirstRefusal(c), Await(c, w, p), acted' = acted
    PROVE  CallType' /\ ActsOnce' /\ AnswersAreTrue'
<1> DEFINE q == Renew(request[c], [session |-> p, serial |-> 0], "none")
<1>1. request \in [Calls -> Requests] /\ request[c] \in Requests /\ state \in [Calls -> States]
  BY DEF ClientInv, TypeOK
<1>2. /\ q \in Requests
      /\ q.kind = request[c].kind /\ q.body = request[c].body /\ q.token.session = p
  <2>1. [session |-> p, serial |-> 0] \in Tokens
    BY DEF Tokens
  <2> QED BY <1>1, <2>1, RenewType
<1>4. request' = [request EXCEPT ![c] = q]
  BY DEF Await
<1> HIDE DEF q
<1>6. /\ request' \in [Calls -> Requests]
      /\ request'[c] = q /\ \A d \in Calls \ {c} : request'[d] = request[d]
  BY <1>1, <1>2, <1>4
<1>7. /\ state' \in [Calls -> States]
      /\ state'[c] = w /\ \A d \in Calls \ {c} : state'[d] = state[d]
  BY <1>1 DEF Await, States
<1>8. acted[c] = 0
  BY DEF ClientInv, AnswersAreTrue, FirstRefusal
<1>9. CallType'
  BY <1>2, <1>6, <1>7 DEF ClientInv, TypeOK, CallType
<1>10. ActsOnce' /\ AnswersAreTrue'
  BY <1>6, <1>7, <1>8 DEF ClientInv, ActsOnce, AnswersAreTrue
<1> QED BY <1>9, <1>10
LEMMA MakeCallKeeps == ASSUME ClientInv, NEW c \in Calls, MakeCall(c) PROVE ClientInv'
<1>1. /\ Send(c, "page", ref, NoSession) /\ ref \in Tokens
      /\ UNCHANGED <<session, refreshing, queue, login, server>>
  BY DEF MakeCall, ClientInv, TypeOK
<1>2. CallType' /\ QueueIsServed' /\ ActsOnce' /\ AnswersAreTrue'
  BY <1>1, SendKeeps DEF server
<1>3. HeldType' /\ OtherType'
  BY <1>1 DEF ClientInv, TypeOK, HeldType, OtherType, session, login, server
<1> QED BY <1>2, <1>3 DEF ClientInv, TypeOK, HeldType, CallType, OtherType

LEMMA LogoutKeeps == ASSUME ClientInv, NEW c \in Calls, Logout(c) PROVE ClientInv'
<1>1. UNCHANGED <<refreshing, queue, login, server>>
  BY DEF Logout
<1>2. OtherType'
  BY <1>1 DEF ClientInv, TypeOK, OtherType, login, server
<1>3. CASE stored # NoSession /\ Send(c, "logout", ref, stored) /\ UNCHANGED session
  <2>1. stored \in Sessions /\ ref \in Tokens
    BY <1>3 DEF ClientInv, TypeOK
  <2>2. CallType' /\ QueueIsServed' /\ ActsOnce' /\ AnswersAreTrue'
    BY <1>1, <1>3, <2>1, SendKeeps DEF server
  <2>3. HeldType'
    BY <1>3 DEF ClientInv, TypeOK, HeldType, session
  <2> QED BY <1>2, <2>2, <2>3 DEF ClientInv, TypeOK, HeldType, CallType, OtherType
<1>4. CASE ClearSession /\ UNCHANGED calls
  <2>1. CallType' /\ QueueIsServed' /\ ActsOnce' /\ AnswersAreTrue'
    BY <1>1, <1>4 DEF ClientInv, TypeOK, CallType, QueueIsServed, ActsOnce, AnswersAreTrue,
                      calls, server
  <2> QED BY <1>2, <1>4, <2>1, HeldAfterClear
          DEF ClientInv, TypeOK, HeldType, CallType, OtherType
<1> QED BY <1>3, <1>4 DEF Logout

LEMMA ServeKeeps == ASSUME ClientInv, NEW c \in Calls, Serve(c) PROVE ClientInv'
<1>1. /\ state[c] = "sent" /\ request[c].reply = "none"
      /\ UNCHANGED <<session, refreshing, queue, state, login, issued, lapsed>>
  BY DEF Serve
<1>2. PICK a \in {"ok", "error", "unauthorized"} :
        /\ Answered(c, a)
        /\ acted' = IF a = "ok" THEN [acted EXCEPT ![c] = @ + 1] ELSE acted
  BY DEF Serve
<1>3. dead' \subseteq Sessions
  <2>1. request[c].kind = "logout" => request[c].body \in Sessions
    BY DEF ClientInv, TypeOK
  <2> QED BY <2>1 DEF Serve, ClientInv, TypeOK
<1>4. CallType' /\ QueueIsServed' /\ ActsOnce' /\ AnswersAreTrue' /\ acted' \in [Calls -> Nat]
  BY <1>1, <1>2, AnswerKeeps
<1>5. HeldType' /\ OtherType'
  BY <1>1, <1>3, <1>4 DEF ClientInv, TypeOK, HeldType, OtherType, session, login
<1> QED BY <1>4, <1>5 DEF ClientInv, TypeOK, HeldType, CallType, OtherType

LEMMA SettlingKeeps ==
    ASSUME ClientInv, NEW c \in Calls, ReceiveAnswer(c) \/ GiveUp(c) \/ LoseAnswer(c)
    PROVE  ClientInv'
<1>1. CASE ReceiveAnswer(c)
  BY <1>1, SettleKeeps DEF ReceiveAnswer
<1>2. CASE GiveUp(c)
  BY <1>2, SettleKeeps DEF GiveUp
<1>3. CASE LoseAnswer(c)
  BY <1>3, SettleKeeps DEF LoseAnswer
<1> QED BY <1>1, <1>2, <1>3

LEMMA JoinQueueKeeps == ASSUME ClientInv, NEW c \in Calls, JoinQueue(c) PROVE ClientInv'
<1>1. /\ FirstRefusal(c) /\ refreshing /\ queue' = queue \union {c}
      /\ Await(c, "queued", NoSession)
      /\ UNCHANGED <<session, refreshing, login, server>>
  BY DEF JoinQueue
<1>2. CallType' /\ ActsOnce' /\ AnswersAreTrue'
  BY <1>1, AwaitKeeps DEF server
<1>3. /\ state[c] = "sent" /\ state'[c] = "queued"
      /\ \A d \in Calls \ {c} : state'[d] = state[d]
  BY <1>1 DEF FirstRefusal, Await, ClientInv, TypeOK
<1>4. QueueIsServed'
  BY <1>1, <1>3 DEF ClientInv, QueueIsServed
<1>5. HeldType' /\ OtherType'
  BY <1>1 DEF ClientInv, TypeOK, HeldType, OtherType, session, login, server
<1> QED BY <1>2, <1>4, <1>5 DEF ClientInv, TypeOK, HeldType, CallType, OtherType

LEMMA StartRefreshKeeps == ASSUME ClientInv, NEW c \in Calls, StartRefresh(c) PROVE ClientInv'
<1>1. /\ FirstRefusal(c) /\ ~ refreshing /\ refreshing' = TRUE
      /\ Await(c, "refreshing", stored)
      /\ UNCHANGED <<session, queue, login, server>>
  BY DEF StartRefresh
<1>2. stored \in Sessions
  BY DEF StartRefresh, ClientInv, TypeOK
<1>3. CallType' /\ ActsOnce' /\ AnswersAreTrue'
  BY <1>1, <1>2, AwaitKeeps DEF server
<1>4. /\ state[c] = "sent" /\ state'[c] = "refreshing"
      /\ \A d \in Calls \ {c} : state'[d] = state[d]
  BY <1>1 DEF FirstRefusal, Await, ClientInv, TypeOK
<1>5. QueueIsServed'
  BY <1>1, <1>4 DEF ClientInv, QueueIsServed
<1>6. HeldType' /\ OtherType'
  BY <1>1 DEF ClientInv, TypeOK, HeldType, OtherType, session, login, server
<1> QED BY <1>3, <1>5, <1>6 DEF ClientInv, TypeOK, HeldType, CallType, OtherType

LEMMA NothingStoredKeeps ==
    ASSUME ClientInv, NEW c \in Calls, NothingStored(c)
    PROVE  ClientInv'
<1>1. /\ FirstRefusal(c) /\ request' = Drop({c})
      /\ UNCHANGED <<refreshing, queue, login, server>>
  BY DEF NothingStored
<1>2. state' = [d \in Calls |-> IF d \in {c} THEN "refused" ELSE state[d]]
  <2>1. state \in [Calls -> States] /\ state' = [state EXCEPT ![c] = "refused"]
    BY DEF NothingStored, ClientInv, TypeOK
  <2> QED BY <2>1
<1>3. state[c] = "sent" /\ acted[c] = 0
  BY <1>1 DEF FirstRefusal, ClientInv, AnswersAreTrue
<1>4. CallType' /\ ActsOnce' /\ AnswersAreTrue'
  BY <1>1, <1>2, <1>3, DropKeeps DEF server
<1>5. QueueIsServed'
  BY <1>1, <1>2, <1>3 DEF ClientInv, QueueIsServed
<1>6. HeldType' /\ OtherType'
  BY <1>1, HeldAfterClear DEF NothingStored, ClientInv, TypeOK, OtherType, login, server
<1> QED BY <1>4, <1>5, <1>6 DEF ClientInv, TypeOK, HeldType, CallType, OtherType

LEMMA ServeRefreshKeeps == ASSUME ClientInv, NEW c \in Calls, ServeRefresh(c) PROVE ClientInv'
<1> DEFINE s == request[c].token.session
<1>1. /\ state[c] = "refreshing" /\ s \in Sessions
      /\ UNCHANGED <<session, refreshing, queue, state, login, lapsed, dead, acted>>
  BY DEF ServeRefresh, ClientInv, TypeOK
<1>2. request \in [Calls -> Requests] /\ request[c] \in Requests /\ issued \in [Sessions -> Nat]
  BY DEF ClientInv, TypeOK
<1>3. PICK q \in Requests :
        /\ request' = [request EXCEPT ![c] = q]
        /\ q.kind = request[c].kind /\ q.body = request[c].body /\ q.token.session = s
  <2>1. CASE request' = [request EXCEPT ![c] = Renew(request[c], NewToken(s), "ok")]
    <3>1. NewToken(s) \in Tokens /\ NewToken(s).session = s
      BY <1>1, NewTokenType DEF ClientInv
    <3> DEFINE q == Renew(request[c], NewToken(s), "ok")
    <3>2. /\ q \in Requests
          /\ q.kind = request[c].kind /\ q.body = request[c].body /\ q.token = NewToken(s)
      BY <1>2, <3>1, RenewType
    <3> HIDE DEF q
    <3>3. request' = [request EXCEPT ![c] = q]
      BY <2>1 DEF q
    <3> QED BY <3>1, <3>2, <3>3
  <2>2. CASE Answered(c, "unauthorized")
    <3> DEFINE q == [kind |-> request[c].kind, token |-> request[c].token,
                     body |-> request[c].body, retry |-> request[c].retry,
                     reply |-> "unauthorized"]
    <3>1. q \in Requests
      BY <1>2, RequestFields DEF Requests
    <3>2. [request[c] EXCEPT !.reply = "unauthorized"] = q
      BY <1>2 DEF Requests
    <3>3. request' = [request EXCEPT ![c] = q]
      BY <2>2, <3>2 DEF Answered
    <3> QED BY <3>1, <3>3
  <2> QED BY <2>1, <2>2 DEF ServeRefresh
<1>4. issued' \in [Sessions -> Nat]
  BY <1>1, <1>2 DEF ServeRefresh, Issue
<1>5. /\ request' \in [Calls -> Requests]
      /\ request'[c] = q /\ \A d \in Calls \ {c} : request'[d] = request[d]
  BY <1>2, <1>3
<1> HIDE DEF s
<1>6. CallType'
  BY <1>1, <1>3, <1>5 DEF ClientInv, TypeOK, CallType
<1>7. QueueIsServed' /\ ActsOnce' /\ AnswersAreTrue'
  BY <1>1, <1>5 DEF ClientInv, QueueIsServed, ActsOnce, AnswersAreTrue
<1>8. HeldType' /\ OtherType'
  BY <1>1, <1>4 DEF ClientInv, TypeOK, HeldType, OtherType, session, login
<1> QED BY <1>6, <1>7, <1>8 DEF ClientInv, TypeOK, HeldType, CallType, OtherType

\* The end of a refresh leaves nobody in the queue, and no refresh under way.
LEMMA QueueIsReleased ==
    ASSUME ClientInv, NEW c \in Calls, NEW o \in {"sent", "refused"},
           state[c] = "refreshing",
           state' = [d \in Calls |-> IF d \in Waiting(c) THEN o ELSE state[d]],
           queue' = {}, refreshing' = FALSE
    PROVE  QueueIsServed'
<1>1. \A d \in Calls : state'[d] = IF d \in Waiting(c) THEN o ELSE state[d]
  OBVIOUS
<1>2. \A d \in Calls : state[d] \in {"queued", "refreshing"} => d \in Waiting(c)
  BY DEF ClientInv, QueueIsServed, Waiting
<1>3. \A d \in Calls : state'[d] # "queued" /\ state'[d] # "refreshing"
  BY <1>1, <1>2
<1> QED BY <1>3 DEF QueueIsServed

LEMMA FinishRefreshKeeps ==
    ASSUME ClientInv, NEW c \in Calls, FinishRefresh(c)
    PROVE  ClientInv'
<1> DEFINE W == Waiting(c)  t == request[c].token
<1>1. /\ state[c] = "refreshing" /\ ref' = t /\ queue' = {} /\ refreshing' = FALSE
      /\ state' = [d \in Calls |-> IF d \in W THEN "sent" ELSE state[d]]
      /\ request' = [d \in Calls |-> IF d \in W THEN Renew(request[d], t, "none")
                                                ELSE request[d]]
      /\ UNCHANGED <<context, stored, login, server>>
  BY DEF FinishRefresh
<1>2. /\ request \in [Calls -> Requests] /\ state \in [Calls -> States]
      /\ t \in Tokens
  BY RequestFields DEF ClientInv, TypeOK
<1> HIDE DEF W, t
<1>3. \A d \in Calls : LET n == Renew(request[d], t, "none") IN
         n \in Requests /\ n.kind = request[d].kind /\ n.body = request[d].body
         /\ n.reply = "none"
  BY <1>2, RenewType
<1>4. \A d \in Calls :
         /\ request'[d] \in Requests
         /\ request'[d].kind = request[d].kind /\ request'[d].body = request[d].body
         /\ d \in W => request'[d].reply = "none" /\ state'[d] = "sent"
         /\ d \notin W => request'[d] = request[d] /\ state'[d] = state[d]
  BY <1>1, <1>2, <1>3
<1>5. request' \in [Calls -> Requests] /\ state' \in [Calls -> States]
  <2>1. request' \in [Calls -> Requests]
    BY <1>1, <1>2, <1>3
  <2>2. state' \in [Calls -> States]
    BY <1>1, <1>2 DEF States
  <2> QED BY <2>1, <2>2
<1>6. \A d \in Calls : d \in W <=> state[d] \in {"queued", "refreshing"}
  BY <1>1 DEF W, Waiting, ClientInv, QueueIsServed
<1>7. CallType'
  BY <1>4, <1>5, <1>6 DEF ClientInv, TypeOK, CallType
<1>8. QueueIsServed'
  BY <1>1, QueueIsReleased DEF W
<1>9. ActsOnce' /\ AnswersAreTrue'
  BY <1>1, <1>4, <1>6 DEF ClientInv, ActsOnce, AnswersAreTrue, server
<1>10. HeldType' /\ OtherType'
  BY <1>1, <1>2 DEF ClientInv, TypeOK, HeldType, OtherType, login, server
<1> QED BY <1>7, <1>8, <1>9, <1>10 DEF ClientInv, TypeOK, HeldType, CallType, OtherType

LEMMA FailRefreshKeeps ==
    ASSUME ClientInv, NEW c \in Calls, FailRefresh(c)
    PROVE  ClientInv'
<1>1. /\ state[c] = "refreshing" /\ queue' = {} /\ refreshing' = FALSE
      /\ state' = [d \in Calls |-> IF d \in Waiting(c) THEN "refused" ELSE state[d]]
      /\ request' = Drop(Waiting(c)) /\ ClearSession
      /\ UNCHANGED <<login, server>>
  BY DEF FailRefresh
<1>2. Waiting(c) \in SUBSET Calls /\ \A d \in Waiting(c) : acted[d] = 0
  BY <1>1 DEF Waiting, ClientInv, TypeOK, QueueIsServed, ActsOnce
<1>3. CallType' /\ ActsOnce' /\ AnswersAreTrue'
  BY <1>1, <1>2, DropKeeps DEF server
<1>4. QueueIsServed'
  BY <1>1, QueueIsReleased
<1>5. HeldType' /\ OtherType'
  BY <1>1, HeldAfterClear DEF ClientInv, TypeOK, OtherType, login, server
<1> QED BY <1>3, <1>4, <1>5 DEF ClientInv, TypeOK, HeldType, CallType, OtherType

LEMMA LoginKeeps == ASSUME ClientInv, NEW s \in Sessions, Login(s) PROVE ClientInv'
<1>1. /\ issued' = [issued EXCEPT ![s] = @ + 1]
      /\ stored' = s /\ context' = s /\ ref' = NewToken(s)
      /\ UNCHANGED <<refreshing, queue, calls, login, lapsed, dead, acted>>
  BY DEF Login, Issue
<1>2. HeldType'
  BY <1>1, NewTokenType DEF ClientInv, HeldType
<1>3. OtherType'
  BY <1>1 DEF ClientInv, TypeOK, OtherType, login
<1>4. CallType' /\ QueueIsServed' /\ ActsOnce' /\ AnswersAreTrue'
  BY <1>1 DEF ClientInv, TypeOK, CallType, QueueIsServed, ActsOnce, AnswersAreTrue, calls
<1> QED BY <1>2, <1>3, <1>4 DEF ClientInv, TypeOK, HeldType, CallType, OtherType

LEMMA ServeSilentKeeps == ASSUME ClientInv, ServeSilent PROVE ClientInv'
<1>1. /\ silent = "asked" /\ silentToken.session \in Sessions
      /\ UNCHANGED <<session, refreshing, queue, calls, lapsed, dead, acted>>
  BY DEF ServeSilent, ClientInv, TypeOK
<1>2. CASE silent' = "granted" /\ silentToken' = NewToken(silentToken.session)
           /\ Issue(silentToken.session)
  <2>1. silentToken' \in Tokens /\ silentToken'.session \in Sessions
    BY <1>1, <1>2, NewTokenType DEF ClientInv
  <2> QED BY <1>1, <1>2, <2>1 DEF ClientInv, TypeOK, QueueIsServed, ActsOnce,
                                  AnswersAreTrue, session, calls, Issue
<1>3. CASE silent' = "denied" /\ UNCHANGED <<silentToken, issued>>
  BY <1>1, <1>3 DEF ClientInv, TypeOK, QueueIsServed, ActsOnce, AnswersAreTrue,
                    session, calls
<1> QED BY <1>2, <1>3 DEF ServeSilent

LEMMA SilentSucceedsKeeps ==
    ASSUME ClientInv, NEW c \in Calls, SilentSucceeds(c)
    PROVE  ClientInv'
<1>1. /\ silentToken \in Tokens /\ silentToken.session \in Sessions
      /\ ref' = silentToken /\ context' = silentToken.session
      /\ Send(c, "me", silentToken, NoSession)
      /\ silent' = "none" /\ silentToken' = NoToken
      /\ UNCHANGED <<stored, refreshing, queue, server>>
  BY DEF SilentSucceeds, ClientInv, TypeOK
<1>2. CallType' /\ QueueIsServed' /\ ActsOnce' /\ AnswersAreTrue'
  BY <1>1, SendKeeps DEF server
<1>3. HeldType' /\ OtherType'
  BY <1>1, NullsAreTyped DEF ClientInv, TypeOK, HeldType, OtherType, server
<1> QED BY <1>2, <1>3 DEF ClientInv, TypeOK, HeldType, CallType, OtherType

LEMMA SilentFailsKeeps == ASSUME ClientInv, SilentFails PROVE ClientInv'
BY NullsAreTyped DEF SilentFails, ClientInv, TypeOK, QueueIsServed, ActsOnce,
                     AnswersAreTrue, calls, server

LEMMA ServerClockKeeps ==
    ASSUME ClientInv, NEW s \in Sessions, Expire(s) \/ Die(s)
    PROVE  ClientInv'
<1>1. CASE Expire(s)
  BY <1>1 DEF Expire, ClientInv, TypeOK, QueueIsServed, ActsOnce, AnswersAreTrue,
              session, calls, login
<1>2. CASE Die(s)
  BY <1>2 DEF Die, ClientInv, TypeOK, QueueIsServed, ActsOnce, AnswersAreTrue,
              session, calls, login
<1> QED BY <1>1, <1>2

LEMMA NextKeeps == ClientInv /\ [Next]_vars => ClientInv'
<1> SUFFICES ASSUME ClientInv, [Next]_vars PROVE ClientInv'
  OBVIOUS
<1>1. ASSUME NEW c \in Calls, Handle(c) PROVE ClientInv'
  BY <1>1, ServeKeeps, SettlingKeeps, JoinQueueKeeps, StartRefreshKeeps,
     NothingStoredKeeps, ServeRefreshKeeps, FinishRefreshKeeps, FailRefreshKeeps
     DEF Handle
<1>2. ASSUME NEW c \in Calls, MakeCall(c) \/ Logout(c) \/ SilentSucceeds(c)
      PROVE  ClientInv'
  BY <1>2, MakeCallKeeps, LogoutKeeps, SilentSucceedsKeeps
<1>3. CASE ServeSilent \/ SilentFails
  BY <1>3, ServeSilentKeeps, SilentFailsKeeps
<1>4. ASSUME NEW s \in Sessions, Login(s) \/ Expire(s) \/ Die(s) PROVE ClientInv'
  BY <1>4, LoginKeeps, ServerClockKeeps
<1>5. CASE UNCHANGED vars
  BY <1>5 DEF vars, session, calls, login, server, ClientInv, TypeOK, QueueIsServed,
              ActsOnce, AnswersAreTrue
<1> QED BY <1>1, <1>2, <1>3, <1>4, <1>5 DEF Next

\* ClientInv holds of every reachable state of the client, for any number of
\* calls in flight and of sessions begun.
THEOREM ClientInvariant == Spec => []ClientInv
<1>1. Init => ClientInv
  BY InitInvariant
<1>2. ClientInv /\ [Next]_vars => ClientInv'
  BY NextKeeps
<1> QED BY <1>1, <1>2, PTL DEF Spec

\* The variables of the client keep their types, and a call that refreshes has a
\* session to refresh.
THEOREM ClientTypes == Spec => []TypeOK
<1>1. ClientInv => TypeOK
  BY DEF ClientInv
<1> QED BY <1>1, ClientInvariant, PTL

\* The refresh queue of client.js strands no call: however many wait, they wait
\* for one refresh that is under way.
THEOREM QueueIsAlwaysServed == Spec => []QueueIsServed
<1>1. ClientInv => QueueIsServed
  BY DEF ClientInv
<1> QED BY <1>1, ClientInvariant, PTL

\* Sending calls again after a 401 never makes the server act twice on one.
THEOREM CallsActOnce == Spec => []ActsOnce
<1>1. ClientInv => ActsOnce
  BY DEF ClientInv
<1> QED BY <1>1, ClientInvariant, PTL
=============================================================================
