---------------------------- MODULE LedgerInductive --------------------------
(***************************************************************************)
(* The inductive invariant of Ledger: why an optimistic version check at   *)
(* the first write is enough.  It relates what each request has read and   *)
(* tested to the rows as they are now, and says exactly what the holder of *)
(* the write lock has made of the database at each of its steps.           *)
(***************************************************************************)
EXTENDS Ledger

\* The steps between the first write and the commit.
Writing == {"entries", "transferRow", "audit", "commit"}

\* The whole of what a call does to a database d, when it is applied at once.
RowsWritten(d, c) == WriteRows(d, c, d.accounts)

EntriesWritten(d, c) == WriteEntries(RowsWritten(d, c), c)

TransferWritten(d, c) == WriteTransfer(EntriesWritten(d, c), c)

BeforeAudit(d, c) == IF c.kind = "transfer" THEN TransferWritten(d, c)
                                            ELSE RowsWritten(d, c)

Result(d, c) == IF c.kind \in {"deposit", "withdraw"} THEN EntriesWritten(d, c)
                ELSE WriteAudit(BeforeAudit(d, c), c)

\* The rows that call c is about to change satisfy what its handler tests.
Passes(rows, c) ==
    \/ c.kind = "open" /\ rows[c.account] = AbsentRow
    \/ /\ c.kind # "open"
       /\ \A a \in Touched(c) : rows[a].status = "open"
       /\ rows[c.account].owner = c.user
       /\ rows[c.account].balance >= Needs(c)
       /\ c.kind = "close" => rows[c.account].balance = 0

\* The kind of call that each step belongs to.
StepSuitsCall ==
    \A r \in Requests :
        /\ pc[r] = "unsent" <=> call[r] = NoCall
        /\ pc[r] \in {"checkKey", "readFrom", "readTo", "entries", "transferRow"}
             => call[r].kind = "transfer"
        /\ pc[r] = "readAccount" => call[r].kind \in {"deposit", "withdraw", "close"}
        /\ pc[r] = "audit" => call[r].kind \in {"open", "close", "transfer"}

\* The request that is writing holds the lock; if none is, there is no draft,
\* whoever holds the lock.
LockIsForWriting ==
    /\ \A r \in Requests : pc[r] \in Writing <=> lock = r
    /\ (\A r \in Requests : lock # r) => draft = db

\* A row that was never opened is blank; every other account is of the seed, or
\* one request has opened it; two requests never open the same account.
IdentifiersAreFresh ==
    /\ \A a \in Accounts :
          \/ db.accounts[a] = AbsentRow
          \/ db.accounts[a].status # "absent" /\ a \in DOMAIN Seed
          \/ /\ db.accounts[a].status # "absent"
             /\ \E r \in Requests : call[r].kind = "open" /\ call[r].account = a
    /\ \A q, r \in Requests :
          /\ call[q].kind = "open" /\ call[r].kind = "open"
          /\ call[q].account = call[r].account
          => q = r
    /\ \A r \in Requests :
          call[r].kind = "open" =>
             /\ call[r].account \notin DOMAIN Seed
             /\ pc[r] \in {"flush", "audit", "commit"} =>
                   db.accounts[call[r].account] = AbsentRow

\* A version of a row determines the row: a copy with the version of the
\* committed row is the committed row.
VersionIdentifiesRow ==
    \A r \in Requests : \A a \in Accounts :
        \/ copy[r][a] = AbsentRow
        \/ /\ copy[r][a].status = "open"
           /\ db.accounts[a].status # "absent"
           /\ copy[r][a].version <= db.accounts[a].version
           /\ copy[r][a].version = db.accounts[a].version
                => copy[r][a] = db.accounts[a]

\* What was tested holds of the copies until the write, and of the committed
\* rows from then on.
TestsHold ==
    \A r \in Requests :
        /\ pc[r] = "readTo" =>
              /\ copy[r][call[r].account].status = "open"
              /\ copy[r][call[r].account].owner = call[r].user
        /\ pc[r] = "flush" /\ call[r].kind # "open" => Passes(copy[r], call[r])
        /\ pc[r] \in Writing => Passes(db.accounts, call[r])

\* What the holder of the lock has written so far.
DraftIsPartOfResult ==
    \A r \in Requests :
        /\ pc[r] = "entries" => draft = RowsWritten(db, call[r])
        /\ pc[r] = "transferRow" =>
              /\ draft = EntriesWritten(db, call[r])
              /\ ~ DebitKeyTaken(db, call[r].key)
        /\ pc[r] = "audit" =>
              /\ draft = BeforeAudit(db, call[r])
              /\ call[r].kind = "transfer" => ~ DebitKeyTaken(db, call[r].key)
        /\ pc[r] = "commit" =>
              /\ draft = Result(db, call[r])
              /\ call[r].kind = "transfer" => ~ DebitKeyTaken(db, call[r].key)

\* The inductive invariant.  Its parts hold of every reachable state and, with
\* the conditions on the ledger, imply the safety invariants of Ledger.
IInv ==
    /\ TypeOK
    /\ StepSuitsCall
    /\ LockIsForWriting
    /\ IdentifiersAreFresh
    /\ VersionIdentifiesRow
    /\ TestsHold
    /\ DraftIsPartOfResult
    /\ LedgerChain
    /\ ClosedIsEmpty
=============================================================================
