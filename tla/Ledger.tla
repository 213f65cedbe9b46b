-------------------------------- MODULE Ledger -------------------------------
(***************************************************************************)
(* The money routes of the API over their database: opening and closing an *)
(* account, deposit, withdrawal and transfer (app/accounts, app/transfers, *)
(* app/transactions, app/audit), each as the sequence of statements that   *)
(* its handler sends, and the session of app/database.py around them.      *)
(*                                                                         *)
(* Requests interleave at every await.  SQLite in WAL mode under pysqlite: *)
(*   - a SELECT outside a transaction sees the last committed state, and   *)
(*     keeps no snapshot;                                                  *)
(*   - the first write of a session begins its transaction and takes the   *)
(*     only write lock; it waits for the lock at most the busy timeout,    *)
(*     and then fails;                                                     *)
(*   - what a session has written is seen by nobody else until it commits. *)
(*                                                                         *)
(* db is the committed state, draft what the holder of the lock has made   *)
(* of it.  Rows of accounts carry a version (version_id_col): an UPDATE    *)
(* that finds another version than the one its session read rolls back.    *)
(*                                                                         *)
(* deleted_at and is_active of an account are only ever written together   *)
(* (accounts/service.py:163-164), and are one status here; the handlers'   *)
(* later tests of is_active alone can then never refuse.  The retries of   *)
(* the random account number are left out: its collision is not modelled.  *)
(***************************************************************************)
EXTENDS BankCalls, SequencesExt

CONSTANTS
    Sessions,   \* database sessions: of Requests, and of requests on other routes
    NoUser,     \* the owner of an account that was never opened
    NoKey,      \* the key of a transaction that is no half of a transfer
    NoRequest   \* the holder of the write lock when it is free

ASSUME NullsAreNull ==
    /\ NoUser \notin Users
    /\ NoKey \notin Keys
    /\ NoRequest \notin Sessions

ASSUME EveryRequestHasASession == Requests \subseteq Sessions

VARIABLES
    db,         \* the committed database
    draft,      \* the database as the holder of the write lock sees it
    lock,       \* the session that holds the write lock
    pc,         \* the next step of each request
    call,       \* what each request asks for
    copy,       \* the account rows that the session of each request has read
    answer      \* the outcome each request is answered with

vars == <<db, draft, lock, pc, call, copy, answer>>

-----------------------------------------------------------------------------
(* The tables.                                                             *)

Row == [status : {"absent", "open", "closed"}, owner : Users \union {NoUser},
        balance : Nat, version : Nat]

AbsentRow == [status |-> "absent", owner |-> NoUser, balance |-> 0, version |-> 0]

\* A transaction is named by its account and its place in the account's
\* ledger.  peer is reference_id: the other half of a transfer.
NoPeer == [account |-> "none", place |-> 0]

Peer == [account : Accounts, place : Nat]

Entry == [kind : {"deposit", "withdraw", "out", "in"}, amount : Nat \ {0},
          after : Nat, key : Keys \union {NoKey}, peer : Peer \union {NoPeer}]

Transfer == [key : Keys, amount : Nat \ {0}, from : Peer, to : Peer]

AuditRow ==
    [action : {"account.created", "account.deleted"}, user : Users,
     resource : Accounts]
    \union [action : {"transfer.completed"}, user : Users, resource : Keys]

Database ==
    [accounts : [Accounts -> Row], ledger : [Accounts -> Seq(Entry)],
     transfers : SUBSET Transfer, audit : SUBSET AuditRow]

\* An account of the seed was opened (version 1), and funded by one deposit
\* (version 2) unless its balance is 0.
SeedRow(a) ==
    [status |-> "open", owner |-> Seed[a].owner, balance |-> Seed[a].balance,
     version |-> IF Seed[a].balance = 0 THEN 1 ELSE 2]

SeedLedger(a) ==
    IF Seed[a].balance = 0 THEN <<>>
    ELSE <<[kind |-> "deposit", amount |-> Seed[a].balance,
            after |-> Seed[a].balance, key |-> NoKey, peer |-> NoPeer]>>

SeedDatabase ==
    [accounts  |-> [a \in Accounts |->
                      IF a \in DOMAIN Seed THEN SeedRow(a) ELSE AbsentRow],
     ledger    |-> [a \in Accounts |->
                      IF a \in DOMAIN Seed THEN SeedLedger(a) ELSE <<>>],
     transfers |-> {},
     audit     |-> {}]

-----------------------------------------------------------------------------
(* What the statements of a call make of a database d.                     *)

\* The row that a session writes for account a, from the copy it has read.
\* An UPDATE adds 1 to the version; an INSERT starts it at 1.
NewRow(c, a, read) ==
    CASE c.kind = "open" ->
           [status |-> "open", owner |-> c.user, balance |-> 0, version |-> 1]
      [] c.kind = "close" ->
           [status |-> "closed", owner |-> read.owner, balance |-> read.balance,
            version |-> read.version + 1]
      [] OTHER ->
           [status |-> read.status, owner |-> read.owner,
            balance |-> BalanceAfter(c, a, read.balance),
            version |-> read.version + 1]

\* Deviation: closing deletes the row, and its transactions with it.
WriteRowsCascading(d, c, rows) ==
    [d EXCEPT
        !.accounts = [a \in Accounts |-> IF a \in Touched(c) THEN NewRow(c, a, rows[a])
                                                             ELSE d.accounts[a]],
        !.ledger = [a \in Accounts |-> IF c.kind = "close" /\ a = c.account THEN <<>>
                                       ELSE d.ledger[a]]]

WriteRows(d, c, rows) ==
    [d EXCEPT !.accounts =
        [a \in Accounts |-> IF a \in Touched(c) THEN NewRow(c, a, rows[a])
                                                ELSE d.accounts[a]]]

\* Deviation: rows without a version.
VersionsIgnored(d, c, rows) == TRUE

\* Deviation: closing does not look at the version.
VersionsIgnoredOnClose(d, c, rows) ==
    c.kind \in {"open", "close"} \/
    \A a \in Touched(c) : d.accounts[a].version = rows[a].version

\* Deviation: only the version of the first account is looked at.
FirstVersionMatches(d, c, rows) ==
    c.kind = "open" \/ d.accounts[c.account].version = rows[c.account].version

\* The UPDATEs find the versions that the session has read.
VersionsMatch(d, c, rows) ==
    c.kind = "open" \/
    \A a \in Touched(c) : d.accounts[a].version = rows[a].version

\* The place that the transaction of c takes in the ledger of account a.
PlaceIn(d, a) == [account |-> a, place |-> Len(d.ledger[a]) + 1]

KindOf(c, a) == IF c.kind # "transfer" THEN c.kind
                ELSE IF a = c.account THEN "out" ELSE "in"

\* The transaction of c on account a, after the rows are written.  The two
\* halves of a transfer refer to each other.
NewEntry(d, c, a) ==
    [kind |-> KindOf(c, a), amount |-> c.amount, after |-> d.accounts[a].balance,
     key  |-> IF c.kind = "transfer" THEN c.key ELSE NoKey,
     peer |-> IF c.kind # "transfer" THEN NoPeer
              ELSE PlaceIn(d, IF a = c.account THEN c.to ELSE c.account)]

WriteEntries(d, c) ==
    [d EXCEPT !.ledger =
        [a \in Accounts |-> IF a \in Touched(c)
                            THEN Append(d.ledger[a], NewEntry(d, c, a))
                            ELSE d.ledger[a]]]

\* The row of transfers, once both of its transactions are there.
WriteTransfer(d, c) ==
    [d EXCEPT !.transfers = d.transfers \union
        {[key |-> c.key, amount |-> c.amount,
          from |-> [account |-> c.account, place |-> Len(d.ledger[c.account])],
          to   |-> [account |-> c.to, place |-> Len(d.ledger[c.to])]]}]

AuditRowOf(c) ==
    CASE c.kind = "open"  -> [action |-> "account.created", user |-> c.user,
                              resource |-> c.account]
      [] c.kind = "close" -> [action |-> "account.deleted", user |-> c.user,
                              resource |-> c.account]
      [] OTHER            -> [action |-> "transfer.completed", user |-> c.user,
                              resource |-> c.key]

WriteAudit(d, c) == [d EXCEPT !.audit = d.audit \union {AuditRowOf(c)}]

\* Deviation: no unique constraint.
NoUniqueKey(d, k) == FALSE

\* The unique constraint on the keys "<key>:debit" of the transactions.
DebitKeyTaken(d, k) ==
    \E a \in Accounts : \E i \in DOMAIN d.ledger[a] :
        d.ledger[a][i].kind = "out" /\ d.ledger[a][i].key = k

-----------------------------------------------------------------------------
(* The handlers.                                                           *)

NothingRead == [a \in Accounts |-> AbsentRow]

Init ==
    /\ db = SeedDatabase
    /\ draft = SeedDatabase
    /\ lock = NoRequest
    /\ pc = [r \in Requests |-> "unsent"]
    /\ call = [r \in Requests |-> NoCall]
    /\ copy = [r \in Requests |-> NothingRead]
    /\ answer = [r \in Requests |-> "none"]

\* The identifier of a new account is a fresh UUID.
Fresh(a) ==
    /\ a \notin DOMAIN Seed
    /\ \A q \in Requests : call[q].kind = "open" => call[q].account # a

FirstStep(c) ==
    CASE c.kind = "open"     -> "flush"
      [] c.kind = "transfer" -> "checkKey"
      [] OTHER               -> "readAccount"

ArriveWith(r, c) ==
    /\ pc[r] = "unsent"
    /\ c.kind = "open" => Fresh(c.account)
    /\ call' = [call EXCEPT ![r] = c]
    /\ pc' = [pc EXCEPT ![r] = FirstStep(c)]
    /\ UNCHANGED <<db, draft, lock, copy, answer>>

Arrive(r) == \E c \in Menu : ArriveWith(r, c)

\* The session ends and the answer is about to be sent.
Answer(r, code) ==
    /\ pc' = [pc EXCEPT ![r] = "reply"]
    /\ copy' = [copy EXCEPT ![r] = NothingRead]
    /\ answer' = [answer EXCEPT ![r] = code]

\* An exception before the session has written anything.
Reject(r, code) == Answer(r, code) /\ UNCHANGED <<db, draft, lock, call>>

\* The session keeps the row of account a that it has read.
Keep(r, a, next) ==
    /\ copy' = [copy EXCEPT ![r][a] = db.accounts[a]]
    /\ pc' = [pc EXCEPT ![r] = next]
    /\ UNCHANGED <<db, draft, lock, call, answer>>

\* Deposit, withdrawal and closing: read the account, and test it with no
\* await in between.
ReadAccount(r) ==
    LET c == call[r]  row == db.accounts[call[r].account] IN
    /\ pc[r] = "readAccount"
    /\ \/ row.status # "open" /\ Reject(r, "notFound")
       \/ row.status = "open" /\ row.owner # c.user /\ Reject(r, "forbidden")
       \/ /\ row.status = "open" /\ row.owner = c.user
          /\ \/ row.balance < Needs(c) /\ Reject(r, "insufficientFunds")
             \/ /\ c.kind = "close" /\ row.balance # 0
                /\ Reject(r, "accountHasFunds")
             \/ /\ row.balance >= Needs(c)
                /\ c.kind = "close" => row.balance = 0
                /\ Keep(r, c.account, "flush")

\* Transfer: is the idempotency key in the table of transfers?
CheckKey(r) ==
    /\ pc[r] = "checkKey"
    /\ \/ /\ \E t \in db.transfers : t.key = call[r].key
          /\ Reject(r, "duplicateKey")
       \/ /\ \A t \in db.transfers : t.key # call[r].key
          /\ pc' = [pc EXCEPT ![r] = "readFrom"]
          /\ UNCHANGED <<db, draft, lock, call, copy, answer>>

\* Transfer: read the account that the money leaves.
ReadFrom(r) ==
    LET c == call[r]  row == db.accounts[call[r].account] IN
    /\ pc[r] = "readFrom"
    /\ \/ row.status # "open" /\ Reject(r, "notFound")
       \/ row.status = "open" /\ row.owner # c.user /\ Reject(r, "forbidden")
       \/ /\ row.status = "open" /\ row.owner = c.user
          /\ Keep(r, c.account, "readTo")

\* Deviation: the funds are not tested.
ReadToUnfunded(r) ==
    /\ pc[r] = "readTo"
    /\ \/ db.accounts[call[r].to].status # "open" /\ Reject(r, "notFound")
       \/ db.accounts[call[r].to].status = "open" /\ Keep(r, call[r].to, "flush")

\* Transfer: read the account that the money reaches, then test the funds on
\* the copy of the first.
ReadTo(r) ==
    LET c == call[r] IN
    /\ pc[r] = "readTo"
    /\ \/ db.accounts[c.to].status # "open" /\ Reject(r, "notFound")
       \/ /\ db.accounts[c.to].status = "open"
          /\ copy[r][c.account].balance < Needs(c)
          /\ Reject(r, "insufficientFunds")
       \/ /\ db.accounts[c.to].status = "open"
          /\ copy[r][c.account].balance >= Needs(c)
          /\ Keep(r, c.to, "flush")

\* Deviation: closing is not audited.
AfterFlushUnaudited(c) ==
    CASE c.kind = "transfer" -> "entries"
      [] c.kind = "open"     -> "audit"
      [] OTHER               -> "commit"

\* The step after the rows of accounts are written.
AfterFlush(c) ==
    CASE c.kind = "transfer"          -> "entries"
      [] c.kind \in {"open", "close"} -> "audit"
      [] OTHER                        -> "commit"

\* The first write takes the lock.  Deposit and withdrawal send the UPDATE and
\* the INSERT of their transaction in one flush.
FlushRows(r) ==
    LET c == call[r]  written == WriteRows(db, c, copy[r]) IN
    /\ pc[r] = "flush" /\ lock = NoRequest
    /\ VersionsMatch(db, c, copy[r])
    /\ lock' = r
    /\ draft' = IF c.kind \in {"deposit", "withdraw"} THEN WriteEntries(written, c)
                                                      ELSE written
    /\ pc' = [pc EXCEPT ![r] = AfterFlush(c)]
    /\ UNCHANGED <<db, call, copy, answer>>

\* Deviation: the flush is retried for ever with the copies that are stale.
FlushIsRetried(r) ==
    /\ pc[r] = "flush" /\ lock = NoRequest
    /\ ~ VersionsMatch(db, call[r], copy[r])
    /\ UNCHANGED vars

\* Deviation: the session rolls back, but does not raise the error again.
StaleIsSwallowed(r) ==
    /\ pc[r] = "flush" /\ lock = NoRequest
    /\ ~ VersionsMatch(db, call[r], copy[r])
    /\ Reject(r, "ok")

\* StaleDataError: the session rolls back, and the handler's caller is told
\* CONCURRENT_MODIFICATION.
FlushIsStale(r) ==
    /\ pc[r] = "flush" /\ lock = NoRequest
    /\ ~ VersionsMatch(db, call[r], copy[r])
    /\ Reject(r, "concurrentModification")

\* "database is locked": the wait for the lock exceeds the busy timeout.
BusyTimeout(r) ==
    /\ pc[r] = "flush" /\ lock # NoRequest
    /\ Reject(r, "databaseLocked")

\* Deviation: the transactions are committed before the row of transfers.
InsertEntriesCommitting(r) ==
    /\ pc[r] = "entries"
    /\ ~ DebitKeyTaken(draft, call[r].key)
    /\ draft' = WriteEntries(draft, call[r]) /\ db' = draft'
    /\ pc' = [pc EXCEPT ![r] = "transferRow"]
    /\ UNCHANGED <<lock, call, copy, answer>>

\* Transfer: insert both transactions and link the debit to the credit.
InsertEntries(r) ==
    /\ pc[r] = "entries"
    /\ ~ DebitKeyTaken(draft, call[r].key)
    /\ draft' = WriteEntries(draft, call[r])
    /\ pc' = [pc EXCEPT ![r] = "transferRow"]
    /\ UNCHANGED <<db, lock, call, copy, answer>>

\* Deviation: the session is answered for but never closed.
DuplicateEntryLeakingLock(r) ==
    /\ pc[r] = "entries"
    /\ DebitKeyTaken(draft, call[r].key)
    /\ Answer(r, "integrityError")
    /\ UNCHANGED <<db, draft, lock, call>>

\* IntegrityError on the key of the debit: everything is rolled back, and the
\* exception is not one the application maps to an answer of its own.
DuplicateEntry(r) ==
    /\ pc[r] = "entries"
    /\ DebitKeyTaken(draft, call[r].key)
    /\ Answer(r, "integrityError")
    /\ draft' = db /\ lock' = NoRequest
    /\ UNCHANGED <<db, call>>

\* The unique key of transfers cannot fail here: a transfer with this key
\* would have a debit with this key, and InsertEntries has found none.
InsertTransferRow(r) ==
    /\ pc[r] = "transferRow"
    /\ draft' = WriteTransfer(draft, call[r])
    /\ pc' = [pc EXCEPT ![r] = "audit"]
    /\ UNCHANGED <<db, lock, call, copy, answer>>

InsertAudit(r) ==
    /\ pc[r] = "audit"
    /\ draft' = WriteAudit(draft, call[r])
    /\ pc' = [pc EXCEPT ![r] = "commit"]
    /\ UNCHANGED <<db, lock, call, copy, answer>>

\* The dependency get_db commits before the response is sent.
Commit(r) ==
    /\ pc[r] = "commit"
    /\ db' = draft
    /\ lock' = NoRequest
    /\ Answer(r, "ok")
    /\ UNCHANGED <<draft, call>>

Reply(r) ==
    /\ pc[r] = "reply"
    /\ pc' = [pc EXCEPT ![r] = "answered"]
    /\ UNCHANGED <<db, draft, lock, call, copy, answer>>

InFlight(r) == pc[r] \notin {"unsent", "answered", "lost"}

\* The process dies and is restarted: the open transaction is undone, every
\* request in flight loses its answer, what was committed stays.
Restart ==
    /\ draft' = db /\ lock' = NoRequest
    /\ pc' = [r \in Requests |-> IF InFlight(r) THEN "lost" ELSE pc[r]]
    /\ copy' = [r \in Requests |-> NothingRead]
    /\ UNCHANGED <<db, call, answer>>

Crash == (\E r \in Requests : InFlight(r)) /\ Restart

Handle(r) ==
    \/ ReadAccount(r) \/ CheckKey(r) \/ ReadFrom(r) \/ ReadTo(r)
    \/ FlushRows(r) \/ FlushIsStale(r) \/ BusyTimeout(r)
    \/ InsertEntries(r) \/ DuplicateEntry(r) \/ InsertTransferRow(r)
    \/ InsertAudit(r) \/ Commit(r) \/ Reply(r)

\* Nothing is left to do once every request is answered or lost.
Rest == (\A r \in Requests : pc[r] \in {"answered", "lost"}) /\ UNCHANGED vars

Next ==
    \/ \E r \in Requests : Arrive(r) \/ Handle(r)
    \/ Crash
    \/ Rest

Spec == Init /\ [][Next]_vars

\* The event loop resumes every handler whose statement has finished, and the
\* busy timeout bounds the wait for the lock.
FairSpec == Spec /\ \A r \in Requests : WF_vars(Handle(r))

-----------------------------------------------------------------------------
(* Properties.                                                             *)

Steps == {"unsent", "readAccount", "checkKey", "readFrom", "readTo", "flush",
          "entries", "transferRow", "audit", "commit", "reply", "answered",
          "lost"}

Codes == {"none", "ok", "notFound", "forbidden", "insufficientFunds",
          "accountHasFunds", "duplicateKey", "concurrentModification",
          "databaseLocked", "integrityError"}

\* The type of every variable; that a balance is a natural number says that no
\* interleaving of withdrawals and transfers overdraws an account.
TypeOK ==
    /\ db \in Database
    /\ draft \in Database
    /\ lock \in Sessions \union {NoRequest}
    /\ pc \in [Requests -> Steps]
    /\ call \in [Requests -> Menu \union {NoCall}]
    /\ copy \in [Requests -> [Accounts -> Row]]
    /\ answer \in [Requests -> Codes]

Credits(e) == e.kind \in {"deposit", "in"}

\* The balance that entry i of the ledger l starts from.
Before(l, i) == IF i = 1 THEN 0 ELSE l[i - 1].after

Chained(l) ==
    \A i \in DOMAIN l :
        IF Credits(l[i]) THEN l[i].after = Before(l, i) + l[i].amount
                         ELSE l[i].after + l[i].amount = Before(l, i)

BalanceOf(l) == IF l = <<>> THEN 0 ELSE l[Len(l)].after

Explained(d) ==
    \A a \in Accounts : /\ Chained(d.ledger[a])
                        /\ d.accounts[a].balance = BalanceOf(d.ledger[a])

\* The committed ledger of every account is a chain: each transaction starts
\* from the balance_after of the one before it, and the last one is the balance
\* of the account.  A handler that writes a balance computed from a stale read
\* (a lost update) breaks it.
LedgerChain == Explained(db)

\* A closed account holds no money, neither in its row nor by its ledger, however
\* its closing raced with deposits and with transfers that reach it.
ClosedIsEmpty ==
    \A a \in Accounts :
        db.accounts[a].status = "closed" =>
            db.accounts[a].balance = 0 /\ BalanceOf(db.ledger[a]) = 0

EntryAt(d, p) == d.ledger[p.account][p.place]

EntryExists(d, p) == p.account \in Accounts /\ p.place \in DOMAIN d.ledger[p.account]

Paired(d) ==
    /\ \A t \in d.transfers :
          /\ EntryExists(d, t.from) /\ EntryExists(d, t.to)
          /\ LET debit == EntryAt(d, t.from)  credit == EntryAt(d, t.to) IN
             /\ debit.kind = "out" /\ credit.kind = "in"
             /\ debit.amount = t.amount /\ credit.amount = t.amount
             /\ debit.key = t.key /\ credit.key = t.key
             /\ debit.peer = t.to /\ credit.peer = t.from
    /\ \A a \in Accounts : \A i \in DOMAIN d.ledger[a] :
          d.ledger[a][i].kind \in {"out", "in"} =>
             \E t \in d.transfers :
                [account |-> a, place |-> i] \in {t.from, t.to}

\* Every committed transfer has a debit and a credit of its amount that refer to
\* each other, and every such transaction is half of one committed transfer: a
\* crash or an error between the flushes of a transfer leaves no half behind.
TransfersPaired == Paired(db)

KeysAreUnique(d) == \A t, u \in d.transfers : t.key = u.key => t = u

\* An idempotency key moves money at most once, though the test of the key and
\* the insertion of the transfer are two statements, with others in between.
OneTransferPerKey == KeysAreUnique(db)

\* Who opened and who closed which account, and who made which transfer.
OpeningRows(d) ==
    {[action |-> "account.created", user |-> d.accounts[a].owner, resource |-> a] :
        a \in {b \in Accounts \ DOMAIN Seed : d.accounts[b].status # "absent"}}

ClosingRows(d) ==
    {[action |-> "account.deleted", user |-> d.accounts[a].owner, resource |-> a] :
        a \in {b \in Accounts : d.accounts[b].status = "closed"}}

TransferRows(d) ==
    {[action |-> "transfer.completed", resource |-> t.key,
      user |-> d.accounts[t.from.account].owner] : t \in d.transfers}

Audited(d) == d.audit = OpeningRows(d) \union ClosingRows(d) \union TransferRows(d)

\* The audit trail tells exactly what was committed: who opened and who closed
\* which account, and who made which transfer.
AuditTellsEffects == Audited(db)

AppendsOnly ==
    /\ \A a \in Accounts : IsPrefix(db.ledger[a], db'.ledger[a])
    /\ db.transfers \subseteq db'.transfers
    /\ db.audit \subseteq db'.audit

\* Transactions, transfers and audit rows are append-only: no step rewrites or
\* removes a committed one, though a debit is updated after it is inserted.
LedgerOnlyGrows == [][AppendsOnly]_vars

ClosedStay ==
    \A a \in Accounts : db.accounts[a].status = "closed" =>
        /\ db'.accounts[a] = db.accounts[a]
        /\ db'.ledger[a] = db.ledger[a]

\* Nothing happens to an account after it is closed: no request that read it
\* open before lands on it later.
ClosedIsFinal == [][ClosedStay]_vars

OutcomeOf(r) ==
    CASE pc[r] = "unsent"                         -> "idle"
      [] answer[r] = "ok"                         -> "applied"
      [] answer[r] \notin {"none", "ok"}          -> "refused"
      [] answer[r] = "none" /\ pc[r] = "lost"     -> "refused"
      [] OTHER                                    -> "pending"

Promise == INSTANCE Bank WITH
    holding   <- [a \in Accounts |->
                    [status |-> db.accounts[a].status, owner |-> db.accounts[a].owner,
                     balance |-> db.accounts[a].balance]],
    usedKeys  <- {t.key : t \in db.transfers},
    submitted <- call,
    outcome   <- [r \in Requests |-> OutcomeOf(r)]

\* The handlers keep the promise of Bank: every request takes effect in full at
\* one instant, its commit, at which all of its conditions hold, though they
\* were tested earlier on other reads; and one that is not answered "ok", or is
\* lost before its commit, has no effect at all.
KeepsPromise == Promise!Spec

\* Every request that arrives is answered, unless the process dies.
EveryRequestEnds == \A r \in Requests : InFlight(r) ~> ~ InFlight(r)

\* No request keeps the write lock of the database for ever, whatever fails.
LockIsReleased == \A r \in Requests : lock = r ~> lock # r

-----------------------------------------------------------------------------
(* What the documents claim and the code does not do.                      *)

\* docs/security.md: the retry of a transfer under its idempotency key is
\* answered 409 Conflict.  So a retry never fails with an unhandled error of
\* the database.
RetryIsAnsweredConflict ==
    \A q, r \in Requests :
        call[q] = call[r] /\ answer[q] = "ok" => answer[r] # "integrityError"
=============================================================================
