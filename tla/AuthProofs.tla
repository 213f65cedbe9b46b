-------------------------------- MODULE AuthProofs -----------------------------
(***************************************************************************)
(* The three properties of Auth, for any number of requests, people and    *)
(* emails.                                                                 *)
(*                                                                         *)
(* What carries them is that the tables only grow (Grows): a row that is   *)
(* there stays, keeps its email, password and owner, and what is deleted or*)
(* revoked is never live again.  So whatever a request has read stays true *)
(* enough until it writes (Knows), and a request whose credential was dead *)
(* when it arrived is at a statement that will refuse it (IsStuck).  Each  *)
(* step is then looked at twice: for what it does to the tables, and for   *)
(* what its own request knows after it.                                    *)
(***************************************************************************)
EXTENDS Auth, TLAPS

UserRow ==
    [state : {"absent", "live", "deleted"}, email : Emails \union {None},
     password : People \union {None}, profile : Ids \union {None}]

TokenRow == [state : {"absent", "live", "revoked"}, user : Ids \union {None}]

Steps ==
    {"idle", "readEmail", "insertUser", "readPassword", "insertToken", "findToken", "readOwner",
     "guard", "findOwnToken", "logout", "update", "delete", "done"}

Codes ==
    {"nothing", "ok", "EMAIL_TAKEN", "INVALID_CREDENTIALS", "INVALID_REFRESH_TOKEN", "INVALID_TOKEN",
     "INTERNAL_SERVER_ERROR"}

Types ==
    /\ users \in [Ids -> UserRow]
    /\ tokens \in [Ids -> TokenRow]
    /\ call \in [Requests -> AuthCalls \union {None}]
    /\ pc \in [Requests -> Steps]
    /\ found \in [Requests -> Ids \union {None}]
    /\ told \in [Requests -> Codes]
    /\ late \in [Requests -> BOOLEAN]

There(u) == u \in Ids /\ users[u].state # "absent"

Given_(t) == t \in Ids /\ tokens[t].state # "absent"

\* The rows that are not there are empty, emails are unique, and a token has a user.
RowsAreSound ==
    /\ \A u \in Ids : users[u].state = "absent" => users[u].email = None
    /\ \A u, v \in Ids : users[u].email = users[v].email /\ users[u].email # None => u = v
    /\ \A t \in Ids : IF tokens[t].state = "absent" THEN tokens[t].user = None ELSE There(tokens[t].user)

\* A request that has not ended has inserted nothing.
NotYet ==
    \A r \in Requests :
        pc[r] # "done" => users[r].state = "absent" /\ tokens[r].state = "absent" /\ told[r] = "nothing"

\* What request r has read, at each of its statements.
Knows(r) ==
    /\ pc[r] \in {"readEmail", "insertUser"} => call[r] \in RegisterCall
    /\ pc[r] \in {"readPassword", "insertToken"} => call[r] \in LoginCall
    /\ pc[r] = "insertToken" => There(found[r]) /\ users[found[r]].password = call[r].who
    /\ pc[r] \in {"findToken", "readOwner"} => call[r] \in RefreshCall /\ Given_(call[r].token)
    /\ pc[r] = "readOwner" => There(found[r])
    /\ pc[r] = "guard" => call[r] \in LogoutCall \union ProfileCall
    /\ pc[r] \in {"findOwnToken", "logout"} => call[r] \in LogoutCall
    /\ pc[r] \in {"update", "delete"} => call[r] \in ProfileCall
    /\ pc[r] \in {"guard", "findOwnToken", "logout", "update", "delete"} => There(call[r].user)
    /\ pc[r] = "logout" /\ found[r] # None => Given_(found[r]) /\ tokens[found[r]].user = call[r].user

\* Request r has ended with what it was told.
Keeps(r) ==
    told[r] = "ok" =>
        /\ pc[r] = "done"
        /\ call[r].kind = "register" =>
              There(r) /\ users[r].email = call[r].email /\ users[r].password = call[r].who
              /\ users[r].email # None
        /\ call[r].kind = "login" => Given_(r) /\ users[tokens[r].user].password = call[r].who

\* A request that came too late is at a statement that will refuse it.
IsStuck(r) ==
    late[r] =>
        /\ pc[r] \in {"findToken", "readOwner", "guard", "done"}
        /\ told[r] # "ok"
        /\ pc[r] \in {"findToken", "guard"} => Dead(call[r])
        /\ pc[r] = "readOwner" => ~Live(found[r])

AuthInv ==
    /\ Types /\ RowsAreSound /\ NotYet
    /\ \A r \in Requests : Knows(r) /\ Keeps(r) /\ IsStuck(r)
    /\ TrailTellsAll

LEMMA EventsDiffer ==
    ASSUME NEW a, NEW b, NEW u, NEW v
    PROVE  Event(a, u) = Event(b, v) <=> a = b /\ u = v
BY DEF Event

LEMMA UserRowFields ==
    ASSUME NEW row \in UserRow
    PROVE  /\ row.state \in {"absent", "live", "deleted"}
           /\ row.email \in Emails \union {None}
           /\ row.password \in People \union {None}
           /\ row.profile \in Ids \union {None}
BY DEF UserRow

LEMMA NewUserType ==
    ASSUME NEW e \in Emails, NEW p \in People, NEW id \in Ids
    PROVE  /\ NewUser(e, p, id) \in UserRow
           /\ NewUser(e, p, id).state = "live"
           /\ NewUser(e, p, id).email = e /\ NewUser(e, p, id).password = p
BY DEF NewUser, UserRow

LEMMA WithProfileType ==
    ASSUME NEW row \in UserRow, NEW id \in Ids
    PROVE  LET n == WithProfile(row, id) IN
           /\ n \in UserRow
           /\ n.state = row.state /\ n.email = row.email /\ n.password = row.password
BY UserRowFields DEF WithProfile, UserRow

LEMMA DeletedType ==
    ASSUME NEW row \in UserRow
    PROVE  LET n == Deleted(row) IN
           /\ n \in UserRow
           /\ n.state = "deleted" /\ n.email = row.email /\ n.password = row.password
BY UserRowFields DEF Deleted, UserRow

LEMMA TokenRowFields ==
    ASSUME NEW row \in TokenRow
    PROVE  row.state \in {"absent", "live", "revoked"} /\ row.user \in Ids \union {None}
BY DEF TokenRow

LEMMA NewRefreshTokenType ==
    ASSUME NEW u \in Ids
    PROVE  /\ NewRefreshToken(u) \in TokenRow
           /\ NewRefreshToken(u).state = "live" /\ NewRefreshToken(u).user = u
BY DEF NewRefreshToken, TokenRow

LEMMA RevokedType ==
    ASSUME NEW row \in TokenRow
    PROVE  /\ Revoked(row) \in TokenRow
           /\ Revoked(row).state = "revoked" /\ Revoked(row).user = row.user
BY TokenRowFields DEF Revoked, TokenRow

LEMMA CallFields ==
    ASSUME NEW q \in AuthCalls
    PROVE  /\ q \in RegisterCall => q.kind = "register" /\ q.email \in Emails /\ q.who \in People
           /\ q \in LoginCall => q.kind = "login" /\ q.email \in Emails /\ q.who \in People
           /\ q \in RefreshCall => q.kind = "refresh" /\ q.token \in Ids
           /\ q \in LogoutCall => q.kind = "logout" /\ q.user \in Ids /\ q.token \in Ids
           /\ q \in ProfileCall => q.kind \in {"update", "delete"} /\ q.user \in Ids
BY DEF RegisterCall, LoginCall, RefreshCall, LogoutCall, ProfileCall

-----------------------------------------------------------------------------
LEMMA InitInvariant == AuthInit => AuthInv
<1> SUFFICES ASSUME AuthInit PROVE AuthInv
  OBVIOUS
<1>1. \A u \in Ids : /\ u \in Members => users[u] = NewUser(EmailOf[u], u, u)
                     /\ u \notin Members => users[u] = AbsentUser
  BY DEF AuthInit
<1>2. \A t \in Ids : /\ t \in Members => tokens[t] = NewRefreshToken(t)
                     /\ t \notin Members => tokens[t] = AbsentToken
  BY DEF AuthInit
<1>3. \A m \in Members : /\ NewUser(EmailOf[m], m, m) \in UserRow
                         /\ NewUser(EmailOf[m], m, m).state = "live"
                         /\ NewUser(EmailOf[m], m, m).email = EmailOf[m]
  <2> TAKE m \in Members
  <2>1. EmailOf[m] \in Emails /\ m \in People /\ m \in Ids
    BY MembersHaveEmails DEF Ids
  <2> QED BY <2>1, NewUserType
<1>4. AbsentUser \in UserRow /\ AbsentUser.state = "absent" /\ AbsentUser.email = None
  BY DEF AbsentUser, UserRow
<1>5. AbsentToken \in TokenRow /\ AbsentToken.state = "absent" /\ AbsentToken.user = None
  BY DEF AbsentToken, TokenRow
<1>6. Types
  <2>1. users \in [Ids -> UserRow]
    BY <1>1, <1>3, <1>4 DEF AuthInit
  <2>2. tokens \in [Ids -> TokenRow]
    BY <1>2, <1>5, NewRefreshTokenType DEF AuthInit
  <2>3. /\ call \in [Requests -> AuthCalls \union {None}]
        /\ pc \in [Requests -> Steps]
        /\ found \in [Requests -> Ids \union {None}]
    BY DEF AuthInit, Steps
  <2>4. told \in [Requests -> Codes] /\ late \in [Requests -> BOOLEAN]
    BY DEF AuthInit, Codes
  <2> QED BY <2>1, <2>2, <2>3, <2>4 DEF Types
<1>7. RowsAreSound
  <2>1. \A u \in Ids : users[u].state = "absent" => users[u].email = None
    BY <1>1, <1>3, <1>4
  <2>2. \A u, v \in Ids : users[u].email = users[v].email /\ users[u].email # None => u = v
    BY <1>1, <1>3, <1>4, MembersHaveEmails
  <2>3. \A t \in Ids :
            IF tokens[t].state = "absent" THEN tokens[t].user = None ELSE There(tokens[t].user)
    BY <1>1, <1>2, <1>3, <1>5, NewRefreshTokenType DEF There
  <2> QED BY <2>1, <2>2, <2>3 DEF RowsAreSound
<1>8. NotYet
  BY <1>1, <1>2, <1>4, <1>5, RequestsAreNobody DEF NotYet, AuthInit, Ids
<1>9. \A r \in Requests : Knows(r) /\ Keeps(r) /\ IsStuck(r)
  <2> TAKE r \in Requests
  <2>1. pc[r] = "idle" /\ told[r] = "nothing" /\ late[r] = FALSE
    BY DEF AuthInit
  <2> QED BY <2>1 DEF Knows, Keeps, IsStuck
<1>10. TrailTellsAll
  <2>1. \A u \in Ids : Event("registered", u) \in trail <=> u \in Members
    BY EventsDiffer DEF AuthInit
  <2>2. \A u \in Ids : Event("deleted", u) \notin trail
    BY EventsDiffer DEF AuthInit
  <2>3. \A m \in Members : Event("login", m) \in trail
    BY DEF AuthInit
  <2>4. \A u \in Ids : users[u].state = IF u \in Members THEN "live" ELSE "absent"
    BY <1>1, <1>3, <1>4
  <2>5. \A t \in Ids : /\ tokens[t].state # "absent" => tokens[t].user = t /\ t \in Members
                       /\ tokens[t].state # "revoked"
    BY <1>2, <1>5, NewRefreshTokenType
  <2> QED BY <2>1, <2>2, <2>3, <2>4, <2>5 DEF TrailTellsAll
<1> QED BY <1>6, <1>7, <1>8, <1>9, <1>10 DEF AuthInv

-----------------------------------------------------------------------------
(* What a step may do to the tables, and to the requests beside it.        *)

\* Rows stay; what is over stays over.
Grows ==
    /\ \A u \in Ids : users[u].state # "absent" =>
          /\ users'[u].state # "absent"
          /\ users'[u].email = users[u].email /\ users'[u].password = users[u].password
          /\ users[u].state # "live" => users'[u].state # "live"
    /\ \A t \in Ids : tokens[t].state # "absent" =>
          /\ tokens'[t].state # "absent" /\ tokens'[t].user = tokens[t].user
          /\ tokens[t].state = "revoked" => tokens'[t].state = "revoked"

Same(q) ==
    /\ call'[q] = call[q] /\ pc'[q] = pc[q] /\ found'[q] = found[q]
    /\ told'[q] = told[q] /\ late'[q] = late[q]

\* What a request knows outlives the steps of the others.
LEMMA OthersKnow ==
    ASSUME AuthInv, NEW q \in Requests, Same(q), Grows
    PROVE  Knows(q)'
<1>1. Knows(q)
  BY DEF AuthInv
<1>2. \A u : There(u) => There(u)' /\ users'[u].password = users[u].password
  BY DEF Grows, There
<1>3. \A t : Given_(t) => Given_(t)' /\ tokens'[t].user = tokens[t].user
  BY DEF Grows, Given_
<1> QED BY <1>1, <1>2, <1>3 DEF Knows, Same

LEMMA OthersKeep ==
    ASSUME AuthInv, NEW q \in Requests, Same(q), Grows
    PROVE  Keeps(q)'
<1>1. Keeps(q)
  BY DEF AuthInv
<1>2. Given_(q) => There(tokens[q].user)
  BY DEF AuthInv, RowsAreSound, Given_
<1> QED BY <1>1, <1>2 DEF Keeps, Same, Grows, There, Given_

LEMMA OthersAreStuck ==
    ASSUME AuthInv, NEW q \in Requests, Same(q), Grows
    PROVE  IsStuck(q)'
<1> SUFFICES ASSUME late[q] PROVE IsStuck(q)'
  BY DEF IsStuck, Same
<1>1. IsStuck(q) /\ Knows(q)
  BY DEF AuthInv
<1>2. \A u : There(u) /\ ~Live(u) => ~Live(u)'
  BY DEF Grows, There, Live
<1>3. pc[q] = "readOwner" => ~(users'[found[q]].state = "live")
  BY <1>1, <1>2 DEF IsStuck, Knows, Live
<1>4. pc[q] = "findToken" => Dead(call[q])'
  <2> SUFFICES ASSUME pc[q] = "findToken" PROVE Dead(call[q])'
    OBVIOUS
  <2>1. call[q].kind = "refresh" /\ Given_(call[q].token) /\ Dead(call[q])
    BY <1>1 DEF Knows, IsStuck, RefreshCall
  <2>2. There(tokens[call[q].token].user)
    BY <2>1 DEF AuthInv, RowsAreSound, Given_
  <2>3. call'[q] = call[q]
    BY DEF Same
  <2> QED BY <2>1, <2>2, <2>3, <1>2 DEF Dead, Live, Grows, Given_
<1>5. pc[q] = "guard" => Dead(call[q])'
  <2> SUFFICES ASSUME pc[q] = "guard" PROVE Dead(call[q])'
    OBVIOUS
  <2>1. call[q].kind \in {"logout", "update", "delete"} /\ There(call[q].user) /\ Dead(call[q])
    BY <1>1 DEF Knows, IsStuck, LogoutCall, ProfileCall
  <2>2. call'[q] = call[q]
    BY DEF Same
  <2> QED BY <2>1, <2>2, <1>2 DEF Dead, Live
<1> QED BY <1>1, <1>3, <1>4, <1>5 DEF IsStuck, Same, Live

-----------------------------------------------------------------------------
(* The three ways in which a step of request r may leave it.               *)

LEMMA Untouched ==
    ASSUME AuthInv, NEW r \in Requests, UNCHANGED database,
           \A q \in Requests \ {r} : Same(q), NotYet', Types',
           Knows(r)', Keeps(r)', IsStuck(r)'
    PROVE  AuthInv'
<1>1. Grows
  BY DEF Grows, database
<1>2. \A q \in Requests : Knows(q)' /\ Keeps(q)' /\ IsStuck(q)'
  BY <1>1, OthersKnow, OthersKeep, OthersAreStuck
<1>3. RowsAreSound' /\ TrailTellsAll'
  BY DEF AuthInv, RowsAreSound, TrailTellsAll, database, There
<1> QED BY <1>2, <1>3 DEF AuthInv

LEMMA RejectStep ==
    ASSUME AuthInv, NEW r \in Requests, NEW code \in Codes, code # "ok", RejectAuth(r, code)
    PROVE  AuthInv'
<1> USE DEF RejectAuth, End
<1>1. Types'
  BY DEF AuthInv, Types, Steps, database
<1>2. \A q \in Requests \ {r} : Same(q)
  BY DEF AuthInv, Types, Same
<1>3. pc'[r] = "done" /\ told'[r] = code
  BY DEF AuthInv, Types
<1>4. NotYet'
  BY <1>2, <1>3 DEF AuthInv, NotYet, Same, database
<1>5. Knows(r)' /\ Keeps(r)' /\ IsStuck(r)'
  BY <1>3 DEF Knows, Keeps, IsStuck
<1> QED BY <1>1, <1>2, <1>4, <1>5, Untouched

LEMMA GoOnStep ==
    ASSUME AuthInv, NEW r \in Requests, pc[r] # "done",
           NEW next \in Steps \ {"idle", "done"}, NEW row \in Ids \union {None},
           GoOn(r, next, row), Knows(r)', late[r] => next = "readOwner" /\ ~Live(row)
    PROVE  AuthInv'
<1> USE DEF GoOn
<1>1. Types'
  BY DEF AuthInv, Types, database
<1>2. \A q \in Requests \ {r} : Same(q)
  BY DEF AuthInv, Types, Same
<1>3. pc'[r] = next /\ found'[r] = row /\ told'[r] = told[r] /\ late'[r] = late[r]
  BY DEF AuthInv, Types
<1>4. told[r] = "nothing"
  BY DEF AuthInv, NotYet
<1>5. NotYet'
  BY <1>2, <1>3, <1>4 DEF AuthInv, NotYet, Same, database
<1>6. Keeps(r)' /\ IsStuck(r)'
  BY <1>3, <1>4 DEF Keeps, IsStuck, Live, database
<1> QED BY <1>1, <1>2, <1>5, <1>6, Untouched

\* A request that ends well, having changed the tables or not.
LEMMA OkStep ==
    ASSUME AuthInv, NEW r \in Requests, pc[r] # "done", ~late[r], End(r, "ok"),
           users' \in [Ids -> UserRow], tokens' \in [Ids -> TokenRow],
           Grows, RowsAreSound', TrailTellsAll',
           \A q \in Ids \ {r} : /\ users[q].state = "absent" => users'[q].state = "absent"
                                /\ tokens[q].state = "absent" => tokens'[q].state = "absent",
           Keeps(r)'
    PROVE  AuthInv'
<1> USE DEF End
<1>1. Types'
  <2>1. call' \in [Requests -> AuthCalls \union {None}] /\ late' \in [Requests -> BOOLEAN]
    BY DEF AuthInv, Types
  <2>2. pc' \in [Requests -> Steps] /\ found' \in [Requests -> Ids \union {None}]
    BY DEF AuthInv, Types, Steps
  <2>3. told' \in [Requests -> Codes]
    BY DEF AuthInv, Types, Codes
  <2> QED BY <2>1, <2>2, <2>3 DEF Types
<1>2. \A q \in Requests \ {r} : Same(q)
  BY DEF AuthInv, Types, Same
<1>3. pc'[r] = "done" /\ ~late'[r]
  BY DEF AuthInv, Types
<1>4. NotYet'
  BY <1>2, <1>3 DEF AuthInv, NotYet, Same, Ids
<1>5. Knows(r)' /\ IsStuck(r)'
  BY <1>3 DEF Knows, IsStuck
<1>6. \A q \in Requests : Knows(q)' /\ Keeps(q)' /\ IsStuck(q)'
  BY <1>2, <1>5, OthersKnow, OthersKeep, OthersAreStuck
<1> QED BY <1>1, <1>4, <1>6 DEF AuthInv

-----------------------------------------------------------------------------
(* The steps.                                                              *)

LEMMA ArriveStep ==
    ASSUME AuthInv, NEW r \in Requests, NEW call_ \in AuthCalls, Arrive(r, call_)
    PROVE  AuthInv'
<1> USE DEF Arrive
<1>1. Types'
  <2>1. Dead(call_) \in BOOLEAN
    BY DEF Dead, AuthCalls, RegisterCall, LoginCall, RefreshCall, LogoutCall, ProfileCall
  <2> QED BY <2>1 DEF AuthInv, Types, Steps, database
<1>2. \A q \in Requests \ {r} : Same(q)
  BY DEF AuthInv, Types, Same
<1>3. /\ call'[r] = call_ /\ told'[r] = "nothing" /\ late'[r] = Dead(call_)
      /\ pc'[r] = CASE call_.kind = "register" -> "readEmail"
                    [] call_.kind = "login" -> "readPassword"
                    [] call_.kind = "refresh" -> "findToken"
                    [] OTHER -> "guard"
  BY DEF AuthInv, Types, NotYet
<1>4. NotYet'
  BY <1>2, <1>3 DEF AuthInv, NotYet, Same, database
<1>5. Keeps(r)'
  BY <1>3 DEF Keeps
<1>6. CASE call_ \in RegisterCall \union LoginCall
  <2>1. pc'[r] \in {"readEmail", "readPassword"} /\ ~Dead(call_)
        /\ (pc'[r] = "readEmail" => call_ \in RegisterCall)
        /\ (pc'[r] = "readPassword" => call_ \in LoginCall)
    BY <1>3, <1>6 DEF RegisterCall, LoginCall, Dead
  <2>2. Knows(r)' /\ IsStuck(r)'
    BY <1>3, <2>1 DEF Knows, IsStuck
  <2> QED BY <1>1, <1>2, <1>4, <1>5, <2>2, Untouched
<1>7. CASE call_ \in RefreshCall
  <2>1. pc'[r] = "findToken" /\ Given_(call_.token)
    BY <1>3, <1>7 DEF RefreshCall, Holds, Given_
  <2>2. Knows(r)'
    BY <1>3, <1>7, <2>1 DEF Knows, Given_, database
  <2>3. Dead(call_)' <=> Dead(call_)
    BY DEF Dead, Live, database
  <2>4. IsStuck(r)'
    BY <1>3, <2>1, <2>3 DEF IsStuck
  <2> QED BY <1>1, <1>2, <1>4, <1>5, <2>2, <2>4, Untouched
<1>8. CASE call_ \in LogoutCall \union ProfileCall
  <2>1. pc'[r] = "guard" /\ call_.user \in Ids
    BY <1>3, <1>8 DEF LogoutCall, ProfileCall
  <2>2. \E t \in Ids : tokens[t].user = call_.user
    BY <1>8 DEF LogoutCall, ProfileCall, Holds
  <2>3. There(call_.user)
    BY <2>1, <2>2, RequestsAreNobody DEF AuthInv, RowsAreSound, Ids
  <2>4. Knows(r)'
    BY <1>3, <1>8, <2>1, <2>3 DEF Knows, There, database
  <2>5. Dead(call_)' <=> Dead(call_)
    BY DEF Dead, Live, database
  <2>6. IsStuck(r)'
    BY <1>3, <2>1, <2>5 DEF IsStuck
  <2> QED BY <1>1, <1>2, <1>4, <1>5, <2>4, <2>6, Untouched
<1> QED BY <1>6, <1>7, <1>8 DEF AuthCalls

LEMMA ReadEmailStep ==
    ASSUME AuthInv, NEW r \in Requests, ReadEmail(r)
    PROVE  AuthInv'
<1>1. CASE RejectAuth(r, "EMAIL_TAKEN")
  BY <1>1, RejectStep DEF Codes
<1>2. CASE GoOn(r, "insertUser", None)
  <2>1. Knows(r) /\ IsStuck(r) /\ pc[r] = "readEmail"
    BY DEF AuthInv, ReadEmail
  <2>2. Knows(r)'
    <3>1. pc'[r] = "insertUser" /\ call'[r] = call[r]
      BY <1>2 DEF GoOn, AuthInv, Types
    <3> QED BY <2>1, <3>1 DEF Knows
  <2>3. ~late[r] /\ "insertUser" \in Steps \ {"idle", "done"}
    BY <2>1 DEF IsStuck, Steps
  <2> QED BY <1>2, <2>1, <2>2, <2>3, GoOnStep
<1> QED BY <1>1, <1>2 DEF ReadEmail

LEMMA InsertUserStep ==
    ASSUME AuthInv, NEW r \in Requests, InsertUser(r)
    PROVE  AuthInv'
<1>1. Knows(r) /\ IsStuck(r) /\ pc[r] = "insertUser"
  BY DEF AuthInv, InsertUser
<1>2. CASE RejectAuth(r, "INTERNAL_SERVER_ERROR")
  BY <1>2, RejectStep DEF Codes
<1>3. CASE /\ EmailIsUnique(call[r].email)
           /\ users' = [users EXCEPT ![r] = NewUser(call[r].email, call[r].who, r)]
           /\ trail' = trail \union {Event("registered", r)}
           /\ tokens' = tokens
           /\ End(r, "ok")
  <2> DEFINE email == call[r].email
             new == NewUser(email, call[r].who, r)
  <2>1. ~late[r] /\ r \in Ids /\ users[r].state = "absent" /\ tokens[r].state = "absent"
    BY <1>1 DEF IsStuck, AuthInv, NotYet, Ids
  <2>2. email \in Emails /\ call[r].who \in People /\ call[r].kind = "register"
    BY <1>1 DEF Knows, RegisterCall
  <2>3. new \in UserRow /\ new.state = "live" /\ new.email = email /\ new.password = call[r].who
    BY <2>1, <2>2, NewUserType
  <2> HIDE DEF new
  <2>4. /\ users' \in [Ids -> UserRow]
        /\ users'[r] = new
        /\ \A u \in Ids \ {r} : users'[u] = users[u]
    BY <1>3, <2>1, <2>3 DEF AuthInv, Types, new
  <2>5. \A u \in Ids : users[u].email # email
    BY <1>3 DEF EmailIsUnique, Owners
  <2>6. Grows
    BY <1>3, <2>1, <2>4 DEF Grows
  <2>7. RowsAreSound'
    <3>1. \A u \in Ids : users'[u].state = "absent" => users'[u].email = None
      BY <2>3, <2>4 DEF AuthInv, RowsAreSound
    <3>2. \A u, v \in Ids : users'[u].email = users'[v].email /\ users'[u].email # None => u = v
      BY <2>3, <2>4, <2>5 DEF AuthInv, RowsAreSound
    <3>3. \A u : There(u) => There(u)'
      BY <2>3, <2>4 DEF There
    <3> QED BY <1>3, <3>1, <3>2, <3>3 DEF AuthInv, RowsAreSound
  <2>8. TrailTellsAll'
    <3>1. \A u \in Ids : /\ Event("registered", u) \in trail' <=> Event("registered", u) \in trail \/ u = r
                         /\ Event("deleted", u) \in trail' <=> Event("deleted", u) \in trail
      BY <1>3, EventsDiffer
    <3>2. trail \subseteq trail'
      BY <1>3
    <3> QED BY <1>3, <2>1, <2>3, <2>4, <3>1, <3>2 DEF AuthInv, TrailTellsAll
  <2>9. Keeps(r)'
    <3>1. call'[r] = call[r] /\ pc'[r] = "done"
      BY <1>3 DEF End, AuthInv, Types
    <3> QED BY <2>1, <2>2, <2>3, <2>4, <3>1, RequestsAreNobody DEF Keeps, There
  <2>10. tokens' \in [Ids -> TokenRow]
    BY <1>3 DEF AuthInv, Types
  <2>11. \A q \in Ids \ {r} : /\ users[q].state = "absent" => users'[q].state = "absent"
                              /\ tokens[q].state = "absent" => tokens'[q].state = "absent"
    BY <1>3, <2>4
  <2>12. pc[r] # "done" /\ End(r, "ok")
    BY <1>1, <1>3
  <2> QED BY <2>1, <2>4, <2>6, <2>7, <2>8, <2>9, <2>10, <2>11, <2>12, OkStep
<1> QED BY <1>2, <1>3 DEF InsertUser

LEMMA ReadPasswordStep ==
    ASSUME AuthInv, NEW r \in Requests, ReadPassword(r)
    PROVE  AuthInv'
<1>1. Knows(r) /\ IsStuck(r) /\ pc[r] = "readPassword"
  BY DEF AuthInv, ReadPassword
<1>2. CASE RejectAuth(r, "INVALID_CREDENTIALS")
  BY <1>2, RejectStep DEF Codes
<1>3. ASSUME NEW u \in Ids, Live(u), users[u].password = call[r].who, GoOn(r, "insertToken", u)
      PROVE  AuthInv'
  <2>1. /\ pc'[r] = "insertToken" /\ call'[r] = call[r] /\ found'[r] = u
        /\ users' = users
    BY <1>3 DEF GoOn, AuthInv, Types, database
  <2>2. Knows(r)'
    BY <1>1, <1>3, <2>1 DEF Knows, There, Live
  <2>3. ~late[r] /\ "insertToken" \in Steps \ {"idle", "done"}
    BY <1>1 DEF IsStuck, Steps
  <2> QED BY <1>1, <1>3, <2>2, <2>3, GoOnStep
<1>4. Owners(call[r].email) \subseteq Ids
  BY DEF Owners
<1> QED BY <1>2, <1>3, <1>4 DEF ReadPassword

LEMMA InsertTokenStep ==
    ASSUME AuthInv, NEW r \in Requests, InsertToken(r)
    PROVE  AuthInv'
<1> USE DEF InsertToken
<1>1. Knows(r) /\ IsStuck(r) /\ pc[r] = "insertToken"
  BY DEF AuthInv
<1>2. /\ call[r].kind = "login" /\ There(found[r]) /\ found[r] \in Ids
      /\ users[found[r]].password = call[r].who
  BY <1>1 DEF Knows, LoginCall, There
<1>3. ~late[r] /\ r \in Ids /\ tokens[r].state = "absent"
  BY <1>1 DEF IsStuck, AuthInv, NotYet, Ids
<1> DEFINE new == NewRefreshToken(found[r])
<1>4. new \in TokenRow /\ new.state = "live" /\ new.user = found[r]
  BY <1>2, NewRefreshTokenType
<1> HIDE DEF new
<1>5. /\ tokens' \in [Ids -> TokenRow]
      /\ tokens'[r] = new
      /\ \A t \in Ids \ {r} : tokens'[t] = tokens[t]
      /\ users' = users
  BY <1>3, <1>4 DEF AuthInv, Types, new
<1>6. Grows
  BY <1>3, <1>5 DEF Grows
<1>7. RowsAreSound'
  BY <1>2, <1>4, <1>5 DEF AuthInv, RowsAreSound, There
<1>8. TrailTellsAll'
  <2>1. trail \subseteq trail' /\ Event("login", found[r]) \in trail'
    OBVIOUS
  <2>2. \A u \in Ids : /\ Event("registered", u) \in trail' <=> Event("registered", u) \in trail
                       /\ Event("deleted", u) \in trail' <=> Event("deleted", u) \in trail
    BY EventsDiffer
  <2> QED BY <1>4, <1>5, <2>1, <2>2 DEF AuthInv, TrailTellsAll
<1>9. Keeps(r)'
  <2>1. call'[r] = call[r] /\ pc'[r] = "done"
    BY DEF End, AuthInv, Types
  <2> QED BY <1>2, <1>3, <1>4, <1>5, <2>1 DEF Keeps, Given_
<1>10. \A q \in Ids \ {r} : /\ users[q].state = "absent" => users'[q].state = "absent"
                            /\ tokens[q].state = "absent" => tokens'[q].state = "absent"
  BY <1>5
<1>11. users' \in [Ids -> UserRow]
  BY <1>5 DEF AuthInv, Types
<1> QED BY <1>1, <1>3, <1>5, <1>6, <1>7, <1>8, <1>9, <1>10, <1>11, OkStep

LEMMA FindTokenStep ==
    ASSUME AuthInv, NEW r \in Requests, FindToken(r)
    PROVE  AuthInv'
<1>1. Knows(r) /\ IsStuck(r) /\ pc[r] = "findToken"
  BY DEF AuthInv, FindToken
<1>2. CASE RejectAuth(r, "INVALID_REFRESH_TOKEN")
  BY <1>2, RejectStep DEF Codes
<1>3. CASE /\ tokens[call[r].token].state = "live"
           /\ GoOn(r, "readOwner", tokens[call[r].token].user)
  <2> DEFINE u == tokens[call[r].token].user
  <2>1. call[r].kind = "refresh" /\ Given_(call[r].token)
    BY <1>1 DEF Knows, RefreshCall
  <2>2. There(u)
    BY <2>1 DEF AuthInv, RowsAreSound, Given_
  <2>3. late[r] => ~Live(u)
    BY <1>1, <1>3, <2>1 DEF IsStuck, Dead
  <2> HIDE DEF u
  <2>4. GoOn(r, "readOwner", u)
    BY <1>3 DEF u
  <2>5. /\ pc'[r] = "readOwner" /\ call'[r] = call[r] /\ found'[r] = u
        /\ users' = users /\ tokens' = tokens
    BY <2>4 DEF GoOn, AuthInv, Types, database
  <2>6. Knows(r)'
    BY <1>1, <2>2, <2>5 DEF Knows, There, Given_
  <2>7. u \in Ids /\ "readOwner" \in Steps \ {"idle", "done"}
    BY <2>2 DEF There, Steps
  <2> QED BY <1>1, <2>3, <2>4, <2>6, <2>7, GoOnStep
<1> QED BY <1>2, <1>3 DEF FindToken

LEMMA ReadOwnerStep ==
    ASSUME AuthInv, NEW r \in Requests, ReadOwner(r)
    PROVE  AuthInv'
<1>1. Knows(r) /\ IsStuck(r) /\ pc[r] = "readOwner"
  BY DEF AuthInv, ReadOwner
<1>2. CASE RejectAuth(r, "INVALID_REFRESH_TOKEN")
  BY <1>2, RejectStep DEF Codes
<1>3. CASE Live(found[r]) /\ RejectAuth(r, "ok")
  <2>1. ~late[r] /\ call[r].kind = "refresh"
    BY <1>1, <1>3 DEF IsStuck, Knows, RefreshCall
  <2>2. End(r, "ok") /\ users' = users /\ tokens' = tokens /\ trail' = trail
    BY <1>3 DEF RejectAuth, database
  <2>3. Grows
    BY <2>2 DEF Grows
  <2>4. RowsAreSound' /\ TrailTellsAll'
    BY <2>2 DEF AuthInv, RowsAreSound, TrailTellsAll, There
  <2>5. Keeps(r)'
    <3>1. call'[r] = call[r] /\ pc'[r] = "done"
      BY <2>2 DEF End, AuthInv, Types
    <3> QED BY <2>1, <3>1 DEF Keeps
  <2>6. users' \in [Ids -> UserRow] /\ tokens' \in [Ids -> TokenRow]
    BY <2>2 DEF AuthInv, Types
  <2>7. \A q \in Ids \ {r} : /\ users[q].state = "absent" => users'[q].state = "absent"
                             /\ tokens[q].state = "absent" => tokens'[q].state = "absent"
    BY <2>2
  <2> QED BY <1>1, <2>1, <2>2, <2>3, <2>4, <2>5, <2>6, <2>7, OkStep
<1> QED BY <1>2, <1>3 DEF ReadOwner

LEMMA GuardStep ==
    ASSUME AuthInv, NEW r \in Requests, Guard(r)
    PROVE  AuthInv'
<1>1. Knows(r) /\ IsStuck(r) /\ pc[r] = "guard"
  BY DEF AuthInv, Guard
<1>2. CASE RejectAuth(r, "INVALID_TOKEN")
  BY <1>2, RejectStep DEF Codes
<1> DEFINE next == IF call[r].kind = "logout" THEN "findOwnToken" ELSE call[r].kind
<1>3. CASE Live(call[r].user) /\ GoOn(r, next, None)
  <2>1. /\ call[r] \in LogoutCall \union ProfileCall /\ There(call[r].user)
        /\ call[r].kind \in {"logout", "update", "delete"}
    BY <1>1 DEF Knows, LogoutCall, ProfileCall
  <2>2. ~late[r]
    BY <1>1, <1>3, <2>1 DEF IsStuck, Dead
  <2>3. /\ next \in {"findOwnToken", "update", "delete"}
        /\ next = "findOwnToken" => call[r] \in LogoutCall
        /\ next \in {"update", "delete"} => call[r] \in ProfileCall
    BY <2>1 DEF LogoutCall, ProfileCall
  <2> HIDE DEF next
  <2>4. pc'[r] = next /\ call'[r] = call[r] /\ users' = users
    BY <1>3 DEF GoOn, AuthInv, Types, database
  <2>5. Knows(r)'
    BY <2>1, <2>3, <2>4 DEF Knows, There
  <2>6. next \in Steps \ {"idle", "done"}
    BY <2>3 DEF Steps
  <2> QED BY <1>1, <1>3, <2>2, <2>5, <2>6, GoOnStep
<1> QED BY <1>2, <1>3 DEF Guard

LEMMA FindOwnTokenStep ==
    ASSUME AuthInv, NEW r \in Requests, FindOwnToken(r)
    PROVE  AuthInv'
<1>1. Knows(r) /\ IsStuck(r) /\ pc[r] = "findOwnToken"
  BY DEF AuthInv, FindOwnToken
<1> DEFINE row == IF tokens[call[r].token].user = call[r].user THEN call[r].token ELSE None
<1>2. call[r] \in LogoutCall /\ There(call[r].user) /\ call[r].token \in Ids /\ call[r].user \in Ids
  BY <1>1 DEF Knows, LogoutCall
<1>3. row # None => row = call[r].token /\ tokens[row].user = call[r].user
  OBVIOUS
<1>4. row # None => Given_(row)
  BY <1>2, <1>3, RequestsAreNobody DEF AuthInv, RowsAreSound, Given_, Ids
<1>5. row \in Ids \union {None} /\ GoOn(r, "logout", row)
  BY <1>2 DEF FindOwnToken
<1> HIDE DEF row
<1>6. /\ pc'[r] = "logout" /\ call'[r] = call[r] /\ found'[r] = row
      /\ users' = users /\ tokens' = tokens
  BY <1>5 DEF GoOn, AuthInv, Types, database
<1>7. Knows(r)'
  BY <1>2, <1>3, <1>4, <1>6 DEF Knows, There, Given_
<1>8. ~late[r] /\ "logout" \in Steps \ {"idle", "done"}
  BY <1>1 DEF IsStuck, Steps
<1> QED BY <1>1, <1>5, <1>7, <1>8, GoOnStep

LEMMA RevokeStep ==
    ASSUME AuthInv, NEW r \in Requests, Revoke(r)
    PROVE  AuthInv'
<1> USE DEF Revoke
<1>1. Knows(r) /\ IsStuck(r) /\ pc[r] = "logout"
  BY DEF AuthInv
<1>2. /\ call[r] \in LogoutCall /\ call[r].kind = "logout"
      /\ found[r] # None => Given_(found[r]) /\ tokens[found[r]].user = call[r].user
  BY <1>1 DEF Knows, LogoutCall
<1>3. ~late[r]
  BY <1>1 DEF IsStuck
<1>4. \A t \in Ids : /\ Revoked(tokens[t]) \in TokenRow
                     /\ Revoked(tokens[t]).state = "revoked"
                     /\ Revoked(tokens[t]).user = tokens[t].user
  BY RevokedType DEF AuthInv, Types
<1>5. /\ tokens' \in [Ids -> TokenRow] /\ users' = users
      /\ \A t \in Ids : /\ tokens'[t].user = tokens[t].user
                        /\ t # found[r] => tokens'[t] = tokens[t]
                        /\ t = found[r] => tokens'[t].state = "revoked"
  BY <1>4 DEF AuthInv, Types
<1>6. \A t \in Ids : tokens'[t].state = "absent" <=> tokens[t].state = "absent"
  BY <1>2, <1>5, RequestsAreNobody DEF Given_, Ids
<1>7. Grows
  BY <1>5, <1>6 DEF Grows
<1>8. RowsAreSound'
  BY <1>5, <1>6 DEF AuthInv, RowsAreSound, There
<1>9. TrailTellsAll'
  <2>1. trail \subseteq trail' /\ Event("logout", call[r].user) \in trail'
    OBVIOUS
  <2>2. \A u \in Ids : /\ Event("registered", u) \in trail' <=> Event("registered", u) \in trail
                       /\ Event("deleted", u) \in trail' <=> Event("deleted", u) \in trail
    BY EventsDiffer
  <2>3. \A t \in Ids : tokens'[t].state = "revoked" => Event("logout", tokens'[t].user) \in trail'
    <3> TAKE t \in Ids
    <3>1. CASE t = found[r]
      BY <1>2, <1>5, <2>1, <3>1, RequestsAreNobody DEF Ids
    <3>2. CASE t # found[r]
      BY <1>5, <2>1, <3>2 DEF AuthInv, TrailTellsAll
    <3> QED BY <3>1, <3>2
  <2> QED BY <1>5, <1>6, <2>1, <2>2, <2>3 DEF AuthInv, TrailTellsAll
<1>10. Keeps(r)'
  <2>1. call'[r] = call[r] /\ pc'[r] = "done"
    BY DEF End, AuthInv, Types
  <2> QED BY <1>2, <2>1 DEF Keeps
<1>11. \A q \in Ids \ {r} : /\ users[q].state = "absent" => users'[q].state = "absent"
                            /\ tokens[q].state = "absent" => tokens'[q].state = "absent"
  BY <1>5, <1>6
<1>12. users' \in [Ids -> UserRow]
  BY <1>5 DEF AuthInv, Types
<1> QED BY <1>1, <1>3, <1>5, <1>7, <1>8, <1>9, <1>10, <1>11, <1>12, OkStep

\* Update and deletion write one row that is there, and keep its email and password.
LEMMA OwnRowStep ==
    ASSUME AuthInv, NEW r \in Requests, pc[r] \in {"update", "delete"},
           NEW row \in UserRow, users' = [users EXCEPT ![call[r].user] = row],
           row.email = users[call[r].user].email, row.password = users[call[r].user].password,
           row.state = "deleted" \/ row.state = users[call[r].user].state,
           tokens' = tokens, End(r, "ok"), TrailTellsAll'
    PROVE  AuthInv'
<1> DEFINE u == call[r].user
<1>1. Knows(r) /\ IsStuck(r)
  BY DEF AuthInv
<1>2. There(u) /\ call[r].kind \in {"update", "delete"} /\ ~late[r]
  BY <1>1 DEF Knows, IsStuck, ProfileCall
<1> HIDE DEF u
<1>3. /\ users' \in [Ids -> UserRow]
      /\ users'[u] = row
      /\ \A v \in Ids \ {u} : users'[v] = users[v]
  BY <1>2 DEF AuthInv, Types, There, u
<1>4. \A v \in Ids : /\ users'[v].email = users[v].email /\ users'[v].password = users[v].password
                     /\ users'[v].state = "absent" <=> users[v].state = "absent"
                     /\ users'[v].state = "live" => users[v].state = "live"
  BY <1>2, <1>3 DEF There, u
<1>5. Grows
  BY <1>4 DEF Grows
<1>6. RowsAreSound'
  BY <1>4 DEF AuthInv, RowsAreSound, There
<1>7. Keeps(r)'
  <2>1. call'[r] = call[r] /\ pc'[r] = "done"
    BY DEF End, AuthInv, Types
  <2> QED BY <1>2, <2>1 DEF Keeps
<1>8. \A q \in Ids \ {r} : /\ users[q].state = "absent" => users'[q].state = "absent"
                           /\ tokens[q].state = "absent" => tokens'[q].state = "absent"
  BY <1>4
<1>9. tokens' \in [Ids -> TokenRow]
  BY DEF AuthInv, Types
<1> QED BY <1>2, <1>3, <1>5, <1>6, <1>7, <1>8, <1>9, OkStep

LEMMA UpdateProfileStep ==
    ASSUME AuthInv, NEW r \in Requests, UpdateProfile(r)
    PROVE  AuthInv'
<1> USE DEF UpdateProfile
<1> DEFINE u == call[r].user
           new == WithProfile(users[u], r)
<1>1. There(u) /\ u \in Ids /\ users[u] \in UserRow /\ r \in Ids
  BY DEF AuthInv, Types, Knows, There, Ids
<1>2. new \in UserRow /\ new.state = users[u].state /\ new.email = users[u].email
      /\ new.password = users[u].password
  BY <1>1, WithProfileType
<1>3. users' = [users EXCEPT ![u] = new]
  BY <1>1 DEF AuthInv, Types
<1> HIDE DEF new
<1>4. \A v \in Ids : users'[v].state = users[v].state
  BY <1>1, <1>2, <1>3 DEF AuthInv, Types
<1>5. TrailTellsAll'
  <2>1. trail \subseteq trail'
    OBVIOUS
  <2>2. \A v \in Ids : /\ Event("registered", v) \in trail' <=> Event("registered", v) \in trail
                       /\ Event("deleted", v) \in trail' <=> Event("deleted", v) \in trail
    BY EventsDiffer
  <2> QED BY <1>4, <2>1, <2>2 DEF AuthInv, TrailTellsAll
<1> QED BY <1>2, <1>3, <1>5, OwnRowStep

LEMMA SoftDeleteStep ==
    ASSUME AuthInv, NEW r \in Requests, SoftDelete(r)
    PROVE  AuthInv'
<1> USE DEF SoftDelete
<1> DEFINE u == call[r].user
           new == Deleted(users[u])
<1>1. There(u) /\ u \in Ids /\ users[u] \in UserRow
  BY DEF AuthInv, Types, Knows, There
<1>2. new \in UserRow /\ new.state = "deleted" /\ new.email = users[u].email
      /\ new.password = users[u].password
  BY <1>1, DeletedType
<1>3. users' = [users EXCEPT ![u] = new]
  BY <1>1 DEF AuthInv, Types
<1> HIDE DEF new
<1>4. users'[u].state = "deleted" /\ \A v \in Ids \ {u} : users'[v] = users[v]
  BY <1>1, <1>2, <1>3 DEF AuthInv, Types
<1>5. TrailTellsAll'
  <2>1. trail \subseteq trail'
    OBVIOUS
  <2>2. \A v \in Ids : /\ Event("registered", v) \in trail' <=> Event("registered", v) \in trail
                       /\ Event("deleted", v) \in trail' <=> Event("deleted", v) \in trail \/ v = u
    BY EventsDiffer
  <2> QED BY <1>1, <1>4, <2>1, <2>2 DEF AuthInv, TrailTellsAll, There
<1> QED BY <1>2, <1>3, <1>5, OwnRowStep

-----------------------------------------------------------------------------
LEMMA StepInvariant == AuthInv /\ [AuthNext]_authVars => AuthInv'
<1> SUFFICES ASSUME AuthInv, [AuthNext]_authVars PROVE AuthInv'
  OBVIOUS
<1>1. ASSUME NEW r \in Requests, HandleAuth(r) PROVE AuthInv'
  <2>1. CASE LockTimesOut(r)
    BY <2>1, RejectStep DEF LockTimesOut, Codes
  <2> QED BY <1>1, <2>1, ReadEmailStep, InsertUserStep, ReadPasswordStep, InsertTokenStep,
             FindTokenStep, ReadOwnerStep, GuardStep, FindOwnTokenStep, RevokeStep,
             UpdateProfileStep, SoftDeleteStep DEF HandleAuth
<1>2. ASSUME NEW r \in Requests, NEW call_ \in AuthCalls, Arrive(r, call_) PROVE AuthInv'
  BY <1>2, ArriveStep
<1>3. CASE UNCHANGED <<database, call, pc, found, told, late>>
  <2>1. Types' /\ RowsAreSound' /\ NotYet' /\ TrailTellsAll'
    BY <1>3 DEF AuthInv, Types, RowsAreSound, NotYet, TrailTellsAll, database, There
  <2>2. \A r \in Requests : Same(r)
    BY <1>3 DEF Same
  <2>3. Grows
    BY <1>3 DEF Grows, database
  <2> QED BY <2>1, <2>2, <2>3, OthersKnow, OthersKeep, OthersAreStuck DEF AuthInv
<1>4. TokenExpires \/ AllAnswered \/ UNCHANGED authVars => UNCHANGED <<database, call, pc, found, told, late>>
  BY DEF TokenExpires, AllAnswered, authVars
<1> QED BY <1>1, <1>2, <1>3, <1>4 DEF AuthNext

\* Whatever the requests and their order, rows are sound, requests know what they
\* read, and the audit trail tells all.
LEMMA AuthInvariant == AuthSpec => []AuthInv
BY InitInvariant, StepInvariant, PTL DEF AuthSpec

\* The theorem of EmailHasOneOwner: two registrations of one email never both
\* succeed, however their statements interleave, and a login gives the tokens of
\* the row that its user registered.
THEOREM EmailsHaveOneOwner == AuthSpec => []EmailHasOneOwner
<1>1. AuthInv => EmailHasOneOwner
  <2> SUFFICES ASSUME AuthInv, NEW r \in Requests, told[r] = "ok"
               PROVE  /\ call[r].kind = "register" =>
                            Owners(call[r].email) = {r} /\ users[r].password = call[r].who
                      /\ call[r].kind = "login" => users[tokens[r].user].password = call[r].who
    BY DEF EmailHasOneOwner
  <2>1. Keeps(r)
    BY DEF AuthInv
  <2>2. \A u, v \in Ids : users[u].email = users[v].email /\ users[u].email # None => u = v
    BY DEF AuthInv, RowsAreSound
  <2>3. r \in Ids
    BY DEF Ids
  <2> QED BY <2>1, <2>2, <2>3 DEF Keeps, Owners
<1> QED BY <1>1, AuthInvariant, PTL

\* The theorem of DeadCredentialsAreRefused: no interleaving of logins, logouts,
\* deletions and refreshes lets a request succeed whose credential was dead when it
\* arrived.
THEOREM DeadAreRefused == AuthSpec => []DeadCredentialsAreRefused
<1>1. AuthInv => DeadCredentialsAreRefused
  BY DEF AuthInv, IsStuck, DeadCredentialsAreRefused
<1> QED BY <1>1, AuthInvariant, PTL

\* The theorem of TrailTellsAll: the tables never hold what the audit trail does not
\* tell of the same user.
THEOREM TrailIsComplete == AuthSpec => []TrailTellsAll
<1>1. AuthInv => TrailTellsAll
  BY DEF AuthInv
<1> QED BY <1>1, AuthInvariant, PTL
=============================================================================
