---------------------------------- MODULE Auth ---------------------------------
(***************************************************************************)
(* Sign-in on the server: the routes of app/auth and app/users, the guard  *)
(* of every other route (get_current_user), and the rows they keep: users, *)
(* refresh tokens, and the audit trail.                                    *)
(*                                                                         *)
(* A request reads in statements of their own, each of which sees what is  *)
(* committed at its time.  What it writes it flushes and commits under the *)
(* write lock, which is one step here: Ledger has the steps of a session,  *)
(* and shows that nobody sees anything between its first flush and the end *)
(* of its commit.                                                          *)
(*                                                                         *)
(* A user's row is never removed and keeps its email; is_active and        *)
(* deleted_at are only written together, and are one state.  A row has the *)
(* request that inserted it for its id.  A password is as good as the      *)
(* person who knows it.                                                    *)
(***************************************************************************)
EXTENDS Naturals, FiniteSets

CONSTANTS
    Requests,   \* bound: the requests that are made
    People,     \* the people who use the bank
    Emails,     \* the email addresses
    Members,    \* those who had registered and logged in before, one each
    EmailOf,    \* the emails they registered
    None        \* no value

ASSUME MembersHaveEmails ==
    /\ Members \subseteq People
    /\ EmailOf \in [Members -> Emails]
    /\ \A m, n \in Members : EmailOf[m] = EmailOf[n] => m = n

ASSUME RequestsAreNobody ==
    /\ Requests \intersect Members = {}
    /\ None \notin Requests \union Members \union Emails

Ids == Requests \union Members      \* of users, and of refresh tokens

VARIABLES
    users,      \* the table users
    tokens,     \* the table refresh_tokens
    trail,      \* the rows of audit_logs about users
    expired,    \* the refresh tokens whose expires_at has passed
    call,       \* what each request asks for
    pc,         \* the next statement of each request
    found,      \* the row that a request has read and goes on with
    told,       \* what each request was answered
    late        \* history: its credential was dead when the request arrived

database == <<users, tokens, trail>>

authVars == <<database, expired, call, pc, found, told, late>>

AbsentUser == [state |-> "absent", email |-> None, password |-> None, profile |-> None]

NewUser(email, person, id) ==
    [state |-> "live", email |-> email, password |-> person, profile |-> id]

WithProfile(row, id) ==
    [state |-> row.state, email |-> row.email, password |-> row.password, profile |-> id]

Deleted(row) ==
    [state |-> "deleted", email |-> row.email, password |-> row.password, profile |-> row.profile]

AbsentToken == [state |-> "absent", user |-> None]

NewRefreshToken(u) == [state |-> "live", user |-> u]

Revoked(row) == [state |-> "revoked", user |-> row.user]

Event(action, u) == [action |-> action, user |-> u]

RegisterCall == [kind : {"register"}, email : Emails, who : People]
LoginCall == [kind : {"login"}, email : Emails, who : People]
RefreshCall == [kind : {"refresh"}, token : Ids]
LogoutCall == [kind : {"logout"}, user : Ids, token : Ids]
ProfileCall == [kind : {"update", "delete"}, user : Ids]

AuthCalls == RegisterCall \union LoginCall \union RefreshCall \union LogoutCall \union ProfileCall

AuthInit ==
    /\ users = [u \in Ids |-> IF u \in Members THEN NewUser(EmailOf[u], u, u) ELSE AbsentUser]
    /\ tokens = [t \in Ids |-> IF t \in Members THEN NewRefreshToken(t) ELSE AbsentToken]
    /\ trail = {Event(a, m) : a \in {"registered", "login"}, m \in Members}
    /\ expired = {}
    /\ call = [r \in Requests |-> None]
    /\ pc = [r \in Requests |-> "idle"]
    /\ found = [r \in Requests |-> None]
    /\ told = [r \in Requests |-> "nothing"]
    /\ late = [r \in Requests |-> FALSE]

-----------------------------------------------------------------------------
Live(u) == users[u].state = "live"

\* A client has the tokens that it was given.  An access token names its user and
\* is kept nowhere; who has logged in has had one.
Given(t) == t \in Requests => told[t] = "ok"

Holds(call_) ==
    /\ call_.kind \in {"refresh", "logout"} =>
          tokens[call_.token].state # "absent" /\ Given(call_.token)
    /\ call_.kind \in {"logout", "update", "delete"} =>
          \E t \in Ids : tokens[t].user = call_.user /\ Given(t)

\* Whether what the call shows for itself has been given up: the token was revoked,
\* or its user deleted.
Dead(call_) ==
    CASE call_.kind = "refresh" ->
            tokens[call_.token].state = "revoked" \/ ~Live(tokens[call_.token].user)
      [] call_.kind \in {"logout", "update", "delete"} -> ~Live(call_.user)
      [] OTHER -> FALSE

Arrive(r, call_) ==
    /\ pc[r] = "idle" /\ Holds(call_)
    /\ call' = [call EXCEPT ![r] = call_]
    /\ late' = [late EXCEPT ![r] = Dead(call_)]
    /\ pc' = [pc EXCEPT ![r] =
          CASE call_.kind = "register" -> "readEmail"
            [] call_.kind = "login" -> "readPassword"
            [] call_.kind = "refresh" -> "findToken"
            [] OTHER -> "guard"]
    /\ UNCHANGED <<database, expired, found, told>>

GoOn(r, next, row) ==
    /\ pc' = [pc EXCEPT ![r] = next]
    /\ found' = [found EXCEPT ![r] = row]
    /\ UNCHANGED <<database, expired, call, told, late>>

End(r, code) ==
    /\ pc' = [pc EXCEPT ![r] = "done"]
    /\ found' = [found EXCEPT ![r] = None]
    /\ told' = [told EXCEPT ![r] = code]
    /\ UNCHANGED <<expired, call, late>>

RejectAuth(r, code) == End(r, code) /\ UNCHANGED database

Owners(email) == {u \in Ids : users[u].email = email}

-----------------------------------------------------------------------------
(* Registration.                                                           *)

ReadEmail(r) ==
    /\ pc[r] = "readEmail"
    /\ IF Owners(call[r].email) # {} THEN RejectAuth(r, "EMAIL_TAKEN")
       ELSE GoOn(r, "insertUser", None)

\* Deviation: the email is indexed, and not unique.
EmailIsIndexed(email) == TRUE

\* The unique constraint on users.email.
EmailIsUnique(email) == Owners(email) = {}

InsertUser(r) ==
    /\ pc[r] = "insertUser"
    /\ IF EmailIsUnique(call[r].email)
       THEN /\ users' = [users EXCEPT ![r] = NewUser(call[r].email, call[r].who, r)]
            /\ trail' = trail \union {Event("registered", r)}
            /\ UNCHANGED tokens
            /\ End(r, "ok")
       ELSE RejectAuth(r, "INTERNAL_SERVER_ERROR")

-----------------------------------------------------------------------------
(* Login.                                                                  *)

ReadPassword(r) ==
    /\ pc[r] = "readPassword"
    /\ \/ \E u \in Owners(call[r].email) :
             /\ Live(u) /\ users[u].password = call[r].who
             /\ GoOn(r, "insertToken", u)
       \/ /\ \A u \in Owners(call[r].email) : Live(u) => users[u].password # call[r].who
          /\ RejectAuth(r, "INVALID_CREDENTIALS")

InsertToken(r) ==
    /\ pc[r] = "insertToken"
    /\ tokens' = [tokens EXCEPT ![r] = NewRefreshToken(found[r])]
    /\ trail' = trail \union {Event("login", found[r])}
    /\ UNCHANGED users
    /\ End(r, "ok")

-----------------------------------------------------------------------------
(* Refresh: the token and its user are read by two statements.             *)

FindToken(r) ==
    /\ pc[r] = "findToken"
    /\ IF tokens[call[r].token].state = "live" THEN GoOn(r, "readOwner", tokens[call[r].token].user)
       ELSE RejectAuth(r, "INVALID_REFRESH_TOKEN")

\* Deviation: without C-2.
ReadOwnerOnly(r) ==
    /\ pc[r] = "readOwner"
    /\ RejectAuth(r, IF call[r].token \in expired THEN "INVALID_REFRESH_TOKEN" ELSE "ok")

ReadOwner(r) ==
    /\ pc[r] = "readOwner"
    /\ RejectAuth(r, IF call[r].token \in expired \/ ~Live(found[r])
                     THEN "INVALID_REFRESH_TOKEN" ELSE "ok")

-----------------------------------------------------------------------------
(* The routes for a user who has logged in.                                *)

\* get_current_user.  The access token may have expired on its way.
Guard(r) ==
    /\ pc[r] = "guard"
    /\ \/ RejectAuth(r, "INVALID_TOKEN")
       \/ /\ Live(call[r].user)
          /\ GoOn(r, IF call[r].kind = "logout" THEN "findOwnToken" ELSE call[r].kind, None)

\* Deviation: without C-1.
FindAnyToken(r) ==
    /\ pc[r] = "findOwnToken"
    /\ GoOn(r, "logout", call[r].token)

\* C-1: a token of another user is not found, and the logout then only writes to the
\* audit trail.
FindOwnToken(r) ==
    /\ pc[r] = "findOwnToken"
    /\ GoOn(r, "logout", IF tokens[call[r].token].user = call[r].user THEN call[r].token ELSE None)

Revoke(r) ==
    /\ pc[r] = "logout"
    /\ tokens' = [t \in Ids |-> IF t = found[r] THEN Revoked(tokens[t]) ELSE tokens[t]]
    /\ trail' = trail \union {Event("logout", call[r].user)}
    /\ UNCHANGED users
    /\ End(r, "ok")

\* Only the columns that were assigned are written.
UpdateProfile(r) ==
    /\ pc[r] = "update"
    /\ users' = [users EXCEPT ![call[r].user] = WithProfile(@, r)]
    /\ trail' = trail \union {Event("profile_updated", call[r].user)}
    /\ UNCHANGED tokens
    /\ End(r, "ok")

SoftDelete(r) ==
    /\ pc[r] = "delete"
    /\ users' = [users EXCEPT ![call[r].user] = Deleted(@)]
    /\ trail' = trail \union {Event("deleted", call[r].user)}
    /\ UNCHANGED tokens
    /\ End(r, "ok")

-----------------------------------------------------------------------------
\* Another session holds the write lock for longer than the busy timeout.
LockTimesOut(r) ==
    /\ pc[r] \in {"insertUser", "insertToken", "logout", "update", "delete"}
    /\ RejectAuth(r, "INTERNAL_SERVER_ERROR")

\* Seven days pass.  Bound: for one token.
TokenExpires ==
    /\ expired = {}
    /\ \E t \in Ids : tokens[t].state # "absent" /\ expired' = {t}
    /\ UNCHANGED <<database, call, pc, found, told, late>>

HandleAuth(r) ==
    \/ ReadEmail(r) \/ InsertUser(r)
    \/ ReadPassword(r) \/ InsertToken(r)
    \/ FindToken(r) \/ ReadOwner(r)
    \/ Guard(r) \/ FindOwnToken(r) \/ Revoke(r) \/ UpdateProfile(r) \/ SoftDelete(r)
    \/ LockTimesOut(r)

AllAnswered == (\A r \in Requests : pc[r] = "done") /\ UNCHANGED authVars

AuthNext ==
    \/ \E r \in Requests : HandleAuth(r) \/ \E call_ \in AuthCalls : Arrive(r, call_)
    \/ TokenExpires
    \/ AllAnswered

AuthSpec == AuthInit /\ [][AuthNext]_authVars

-----------------------------------------------------------------------------
(* Properties.                                                             *)

\* Of two registrations of one email that both found it free, one is refused: who
\* was told that she is registered has the only row with her email, and whoever
\* logs in gets the tokens of the row that she registered herself.
EmailHasOneOwner ==
    \A r \in Requests :
        told[r] = "ok" =>
            /\ call[r].kind = "register" =>
                  Owners(call[r].email) = {r} /\ users[r].password = call[r].who
            /\ call[r].kind = "login" => users[tokens[r].user].password = call[r].who

\* A request that arrives when its token has been revoked or its user deleted is
\* never answered as if nothing had happened.  A login that read the user before she
\* was deleted still inserts its token afterwards: the refresh has to look at the
\* user, too.
DeadCredentialsAreRefused == \A r \in Requests : late[r] => told[r] # "ok"

\* Nothing is done to a user or a token that the audit trail does not tell of the
\* same user: in particular, nobody's token is revoked by the logout of another.
TrailTellsAll ==
    /\ \A u \in Ids :
          /\ users[u].state # "absent" <=> Event("registered", u) \in trail
          /\ users[u].state = "deleted" <=> Event("deleted", u) \in trail
    /\ \A t \in Ids :
          /\ tokens[t].state # "absent" => Event("login", tokens[t].user) \in trail
          /\ tokens[t].state = "revoked" => Event("logout", tokens[t].user) \in trail
=============================================================================
