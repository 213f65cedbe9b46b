----------------------------- MODULE LedgerProofs ----------------------------
(***************************************************************************)
(* Proofs about Ledger, for every set of requests, users, accounts, keys   *)
(* and amounts, and every menu of calls and seed of accounts.              *)
(*                                                                         *)
(* IInv holds initially and is preserved by every step; there is a lemma   *)
(* for each action, with a step for each conjunct that it can disturb.     *)
(***************************************************************************)
EXTENDS LedgerLemmas

LEMMA NobodyIsARequest == NoRequest \notin Requests
BY NullsAreNull, EveryRequestHasASession

LEMMA SeedType == SeedDatabase \in Database
<1>1. ASSUME NEW a \in DOMAIN Seed
      PROVE  SeedRow(a) \in Row /\ SeedLedger(a) \in Seq(Entry)
  <2>1. Seed[a].owner \in Users /\ Seed[a].balance \in Nat
    BY SeedIsOfAccounts
  <2>2. SeedRow(a) \in Row
    BY <2>1 DEF SeedRow, Row
  <2>3. CASE Seed[a].balance = 0
    BY <2>2, <2>3 DEF SeedLedger
  <2>4. CASE Seed[a].balance # 0
    <3> DEFINE e == [kind |-> "deposit", amount |-> Seed[a].balance,
                     after |-> Seed[a].balance, key |-> NoKey, peer |-> NoPeer]
    <3>1. e \in Entry
      BY <2>1, <2>4 DEF Entry
    <3>2. SeedLedger(a) = <<e>>
      BY <2>4 DEF SeedLedger
    <3> QED BY <2>2, <3>1, <3>2
  <2> QED BY <2>3, <2>4
<1>2. AbsentRow \in Row
  BY DEF AbsentRow, Row
<1>3. \A a \in Accounts :
         (IF a \in DOMAIN Seed THEN SeedLedger(a) ELSE <<>>) \in Seq(Entry)
  BY <1>1
<1> QED BY <1>1, <1>2, <1>3 DEF SeedDatabase, Database

LEMMA SeedExplained == Explained(SeedDatabase)
<1> SUFFICES ASSUME NEW a \in Accounts
             PROVE  /\ Chained(SeedDatabase.ledger[a])
                    /\ SeedDatabase.accounts[a].balance =
                         BalanceOf(SeedDatabase.ledger[a])
  BY DEF Explained
<1>1. CASE a \notin DOMAIN Seed
  BY <1>1 DEF SeedDatabase, Chained, BalanceOf, AbsentRow
<1>2. CASE a \in DOMAIN Seed
  <2>1. Seed[a].balance \in Nat
    BY <1>2, SeedIsOfAccounts
  <2>2. /\ SeedDatabase.ledger[a] = SeedLedger(a)
        /\ SeedDatabase.accounts[a].balance = Seed[a].balance
    BY <1>2 DEF SeedDatabase, SeedRow
  <2>3. CASE Seed[a].balance = 0
    BY <2>2, <2>3 DEF SeedLedger, Chained, BalanceOf
  <2>4. CASE Seed[a].balance # 0
    BY <2>1, <2>2, <2>4 DEF SeedLedger, Chained, BalanceOf, Before, Credits
  <2> QED BY <2>3, <2>4
<1> QED BY <1>1, <1>2

LEMMA InitInvariant == Init => IInv
<1> SUFFICES ASSUME Init PROVE IInv
  OBVIOUS
<1>1. TypeOK
  BY SeedType DEF Init, TypeOK, NothingRead, AbsentRow, Row, Steps, Codes
<1>2. StepSuitsCall
  BY DEF Init, StepSuitsCall
<1>3. LockIsForWriting
  BY NobodyIsARequest DEF Init, LockIsForWriting, Writing
<1>4. IdentifiersAreFresh
  BY CallKinds DEF Init, IdentifiersAreFresh, SeedDatabase, SeedRow
<1>5. VersionIdentifiesRow
  BY DEF Init, VersionIdentifiesRow, NothingRead
<1>6. TestsHold
  BY DEF Init, TestsHold, Writing
<1>7. DraftIsPartOfResult
  BY DEF Init, DraftIsPartOfResult
<1>8. LedgerChain
  BY SeedExplained DEF Init, LedgerChain
<1>9. ClosedIsEmpty
  <2>1. \A a \in Accounts : db.accounts[a].status # "closed"
    BY DEF Init, SeedDatabase, SeedRow, AbsentRow
  <2> QED BY <2>1 DEF ClosedIsEmpty
<1> QED BY <1>1, <1>2, <1>3, <1>4, <1>5, <1>6, <1>7, <1>8, <1>9 DEF IInv

-----------------------------------------------------------------------------
(* Steps that leave the database, the draft and the lock alone.            *)

LEMMA CallIsKnown ==
    ASSUME IInv, NEW r \in Requests, pc[r] # "unsent"
    PROVE  call[r] \in Menu /\ call[r] \in Calls
BY MenuIsOfCalls DEF IInv, TypeOK, StepSuitsCall

LEMMA NothingReadType == NothingRead \in [Accounts -> Row]
BY DEF NothingRead, AbsentRow, Row

LEMMA TablesUnchanged ==
    ASSUME IInv, UNCHANGED db
    PROVE  LedgerChain' /\ ClosedIsEmpty'
BY DEF IInv, LedgerChain, ClosedIsEmpty, Explained

LEMMA ArriveKeeps ==
    ASSUME IInv, NEW r \in Requests, Arrive(r)
    PROVE  IInv'
<1> USE DEF Arrive, ArriveWith
<1>1. PICK c \in Menu : /\ c.kind = "open" => Fresh(c.account)
                        /\ call' = [call EXCEPT ![r] = c]
                        /\ pc' = [pc EXCEPT ![r] = FirstStep(c)]
  OBVIOUS
<1>2. /\ c \in Calls /\ c # NoCall
      /\ FirstStep(c) \in {"flush", "checkKey", "readAccount"}
      /\ FirstStep(c) = "flush" <=> c.kind = "open"
      /\ FirstStep(c) = "checkKey" <=> c.kind = "transfer"
  BY MenuIsOfCalls, CallKinds DEF FirstStep
<1>3. TypeOK'
  BY <1>1, <1>2 DEF IInv, TypeOK, Steps
<1>4. StepSuitsCall'
  BY <1>1, <1>2, CallFields DEF IInv, TypeOK, StepSuitsCall
<1>5. LockIsForWriting'
  BY <1>1, <1>2 DEF IInv, TypeOK, LockIsForWriting, Writing
<1>6. IdentifiersAreFresh'
  <2>1. call[r] = NoCall /\ NoCall.kind # "open"
    BY CallKinds DEF IInv, StepSuitsCall
  <2>2. ASSUME NEW a \in Accounts
        PROVE  \/ db'.accounts[a] = AbsentRow
               \/ db'.accounts[a].status # "absent" /\ a \in DOMAIN Seed
               \/ /\ db'.accounts[a].status # "absent"
                  /\ \E q \in Requests : call'[q].kind = "open" /\ call'[q].account = a
    BY <1>1, <2>1 DEF IInv, TypeOK, IdentifiersAreFresh
  <2>3. ASSUME NEW p \in Requests, NEW q \in Requests,
               call'[p].kind = "open", call'[q].kind = "open",
               call'[p].account = call'[q].account
        PROVE  p = q
    BY <1>1, <2>1, <2>3 DEF IInv, TypeOK, IdentifiersAreFresh, Fresh
  <2>4. ASSUME NEW q \in Requests, call'[q].kind = "open"
        PROVE  /\ call'[q].account \notin DOMAIN Seed
               /\ pc'[q] \in {"flush", "audit", "commit"} =>
                     db'.accounts[call'[q].account] = AbsentRow
    <3>1. CASE q # r
      BY <1>1, <2>4, <3>1 DEF IInv, TypeOK, IdentifiersAreFresh
    <3>2. CASE q = r
      <4>1. call'[q] = c /\ Fresh(c.account) /\ c.account \in Accounts
        BY <1>1, <1>2, <2>4, <3>2, CallFields DEF IInv, TypeOK
      <4> QED BY <4>1 DEF IInv, IdentifiersAreFresh, Fresh
    <3> QED BY <3>1, <3>2
  <2> QED BY <2>2, <2>3, <2>4 DEF IdentifiersAreFresh
<1>7. VersionIdentifiesRow'
  BY DEF IInv, VersionIdentifiesRow
<1>8. TestsHold'
  BY <1>1, <1>2 DEF IInv, TypeOK, TestsHold, Writing
<1>9. DraftIsPartOfResult'
  BY <1>1, <1>2 DEF IInv, TypeOK, DraftIsPartOfResult
<1> QED BY <1>3, <1>4, <1>5, <1>6, <1>7, <1>8, <1>9, TablesUnchanged DEF IInv

\* An exception before the first write, and the busy timeout.
LEMMA RejectKeeps ==
    ASSUME IInv, NEW r \in Requests, NEW code \in Codes, Reject(r, code),
           pc[r] \in {"readAccount", "checkKey", "readFrom", "readTo", "flush"}
    PROVE  IInv'
<1> USE DEF Reject, Answer
<1>1. TypeOK'
  BY NothingReadType DEF IInv, TypeOK, Steps
<1>2. StepSuitsCall'
  BY DEF IInv, TypeOK, StepSuitsCall
<1>3. LockIsForWriting'
  BY DEF IInv, TypeOK, LockIsForWriting, Writing
<1>4. IdentifiersAreFresh'
  BY DEF IInv, TypeOK, IdentifiersAreFresh
<1>5. VersionIdentifiesRow'
  BY DEF IInv, TypeOK, VersionIdentifiesRow, NothingRead
<1>6. TestsHold'
  BY DEF IInv, TypeOK, TestsHold, Writing
<1>7. DraftIsPartOfResult'
  BY DEF IInv, TypeOK, DraftIsPartOfResult
<1> QED BY <1>1, <1>2, <1>3, <1>4, <1>5, <1>6, <1>7, TablesUnchanged DEF IInv

LEMMA ReplyKeeps ==
    ASSUME IInv, NEW r \in Requests, Reply(r)
    PROVE  IInv'
<1> USE DEF Reply
<1>1. TypeOK'
  BY DEF IInv, TypeOK, Steps
<1>2. StepSuitsCall'
  BY DEF IInv, TypeOK, StepSuitsCall
<1>3. LockIsForWriting'
  BY DEF IInv, TypeOK, LockIsForWriting, Writing
<1>4. IdentifiersAreFresh'
  BY DEF IInv, TypeOK, IdentifiersAreFresh
<1>5. VersionIdentifiesRow'
  BY DEF IInv, VersionIdentifiesRow
<1>6. TestsHold'
  BY DEF IInv, TypeOK, TestsHold, Writing
<1>7. DraftIsPartOfResult'
  BY DEF IInv, TypeOK, DraftIsPartOfResult
<1> QED BY <1>1, <1>2, <1>3, <1>4, <1>5, <1>6, <1>7, TablesUnchanged DEF IInv

\* A read keeps a copy of an open row; what comes next must hold of the copies.
LEMMA KeepKeeps ==
    ASSUME IInv, NEW r \in Requests, NEW a \in Touched(call[r]),
           NEW next \in {"readTo", "flush"}, Keep(r, a, next),
           pc[r] \in {"readAccount", "readFrom", "readTo"},
           db.accounts[a].status = "open",
           next = "readTo" => /\ call[r].kind = "transfer"
                              /\ a = call[r].account
                              /\ db.accounts[a].owner = call[r].user,
           next = "flush" => Passes(copy'[r], call[r])
    PROVE  IInv'
<1> USE DEF Keep
<1>1. call[r] \in Calls /\ a \in Accounts
  BY CallIsKnown, CallFields
<1>2. TypeOK'
  BY <1>1 DEF IInv, TypeOK, Steps, Database
<1>3. StepSuitsCall'
  BY DEF IInv, TypeOK, StepSuitsCall
<1>4. LockIsForWriting'
  BY DEF IInv, TypeOK, LockIsForWriting, Writing
<1>5. IdentifiersAreFresh'
  <2>1. call[r].kind # "open"
    BY DEF IInv, StepSuitsCall
  <2> QED BY <2>1 DEF IInv, TypeOK, IdentifiersAreFresh
<1>6. VersionIdentifiesRow'
  <2>1. copy' = [copy EXCEPT ![r] = [copy[r] EXCEPT ![a] = db.accounts[a]]]
    OBVIOUS
  <2>2. db.accounts[a].version \in Nat
    BY <1>1 DEF IInv, TypeOK, Database, Row
  <2> QED BY <1>1, <2>1, <2>2 DEF IInv, TypeOK, VersionIdentifiesRow
<1>7. TestsHold'
  <2>1. \A q \in Requests \ {r} : copy'[q] = copy[q] /\ pc'[q] = pc[q]
    BY DEF IInv, TypeOK
  <2>2. pc'[r] = next
    BY DEF IInv, TypeOK
  <2>3. next = "readTo" => copy'[r][call[r].account] = db.accounts[a]
    BY <1>1 DEF IInv, TypeOK
  <2> QED BY <2>1, <2>2, <2>3 DEF IInv, TestsHold, Writing
<1>8. DraftIsPartOfResult'
  BY DEF IInv, TypeOK, DraftIsPartOfResult
<1> QED BY <1>2, <1>3, <1>4, <1>5, <1>6, <1>7, <1>8, TablesUnchanged DEF IInv

LEMMA ReadAccountKeeps ==
    ASSUME IInv, NEW r \in Requests, ReadAccount(r)
    PROVE  IInv'
<1> DEFINE c == call[r]
           row == db.accounts[call[r].account]
<1>1. /\ pc[r] = "readAccount" /\ c \in Calls
      /\ c.kind \in {"deposit", "withdraw", "close"}
  BY CallIsKnown DEF ReadAccount, IInv, StepSuitsCall
<1>2. CASE \E code \in Codes : Reject(r, code)
  BY <1>1, <1>2, RejectKeeps
<1>3. CASE /\ row.status = "open" /\ row.owner = c.user
           /\ row.balance >= Needs(c)
           /\ c.kind = "close" => row.balance = 0
           /\ Keep(r, c.account, "flush")
  <2>1. c.account \in Accounts /\ Touched(c) = {c.account}
    BY <1>1, CallFields DEF Touched
  <2>2. copy'[r][c.account] = row
    BY <1>3, <2>1 DEF Keep, IInv, TypeOK
  <2>3. Passes(copy'[r], c)
    BY <1>1, <1>3, <2>1, <2>2 DEF Passes
  <2> QED BY <1>1, <1>3, <2>1, <2>3, KeepKeeps
<1> QED BY <1>2, <1>3 DEF ReadAccount, Codes

LEMMA CheckKeyKeeps ==
    ASSUME IInv, NEW r \in Requests, CheckKey(r)
    PROVE  IInv'
<1>1. CASE \E code \in Codes : Reject(r, code)
  BY <1>1, RejectKeeps DEF CheckKey
<1>2. CASE /\ pc[r] = "checkKey"
           /\ pc' = [pc EXCEPT ![r] = "readFrom"]
           /\ UNCHANGED <<db, draft, lock, call, copy, answer>>
  <2>1. TypeOK'
    BY <1>2 DEF IInv, TypeOK, Steps
  <2>2. StepSuitsCall'
    BY <1>2 DEF IInv, TypeOK, StepSuitsCall
  <2>3. LockIsForWriting'
    BY <1>2 DEF IInv, TypeOK, LockIsForWriting, Writing
  <2>4. IdentifiersAreFresh'
    BY <1>2 DEF IInv, TypeOK, IdentifiersAreFresh
  <2>5. VersionIdentifiesRow'
    BY <1>2 DEF IInv, VersionIdentifiesRow
  <2>6. TestsHold'
    BY <1>2 DEF IInv, TypeOK, TestsHold, Writing
  <2>7. DraftIsPartOfResult'
    BY <1>2 DEF IInv, TypeOK, DraftIsPartOfResult
  <2> QED BY <1>2, <2>1, <2>2, <2>3, <2>4, <2>5, <2>6, <2>7, TablesUnchanged
          DEF IInv
<1> QED BY <1>1, <1>2 DEF CheckKey, Codes

LEMMA ReadFromKeeps ==
    ASSUME IInv, NEW r \in Requests, ReadFrom(r)
    PROVE  IInv'
<1> DEFINE c == call[r]
           row == db.accounts[call[r].account]
<1>1. pc[r] = "readFrom" /\ c \in Calls /\ c.kind = "transfer"
  BY CallIsKnown DEF ReadFrom, IInv, StepSuitsCall
<1>2. CASE \E code \in Codes : Reject(r, code)
  BY <1>1, <1>2, RejectKeeps
<1>3. CASE /\ row.status = "open" /\ row.owner = c.user
           /\ Keep(r, c.account, "readTo")
  <2>1. c.account \in Touched(c)
    BY <1>1, CallFields
  <2> QED BY <1>1, <1>3, <2>1, KeepKeeps
<1> QED BY <1>2, <1>3 DEF ReadFrom, Codes

LEMMA ReadToKeeps ==
    ASSUME IInv, NEW r \in Requests, ReadTo(r)
    PROVE  IInv'
<1> DEFINE c == call[r]
<1>1. pc[r] = "readTo" /\ c \in Calls /\ c.kind = "transfer"
  BY CallIsKnown DEF ReadTo, IInv, StepSuitsCall
<1>2. CASE \E code \in Codes : Reject(r, code)
  BY <1>1, <1>2, RejectKeeps
<1>3. CASE /\ db.accounts[c.to].status = "open"
           /\ copy[r][c.account].balance >= Needs(c)
           /\ Keep(r, c.to, "flush")
  <2>1. /\ c.to \in Accounts /\ c.account \in Accounts /\ c.to # c.account
        /\ Touched(c) = {c.account, c.to}
    BY <1>1, CallFields DEF Touched
  <2>2. /\ copy'[r][c.to] = db.accounts[c.to]
        /\ copy'[r][c.account] = copy[r][c.account]
    BY <1>3, <2>1 DEF Keep, IInv, TypeOK
  <2>3. copy[r][c.account].status = "open" /\ copy[r][c.account].owner = c.user
    BY <1>1 DEF IInv, TestsHold
  <2>4. Passes(copy'[r], c)
    BY <1>1, <1>3, <2>1, <2>2, <2>3 DEF Passes
  <2> QED BY <1>1, <1>3, <2>1, <2>4, KeepKeeps
<1> QED BY <1>2, <1>3 DEF ReadTo, Codes

-----------------------------------------------------------------------------
(* Steps of the request that writes.                                       *)

\* If the versions match when the write begins, the copies are the committed
\* rows, so that what was tested on the copies holds of the committed rows.
LEMMA MatchingCopies ==
    ASSUME IInv, NEW r \in Requests, pc[r] = "flush",
           VersionsMatch(db, call[r], copy[r])
    PROVE  /\ Passes(db.accounts, call[r])
           /\ WriteRows(db, call[r], copy[r]) = RowsWritten(db, call[r])
<1> DEFINE c == call[r]
<1>1. c \in Calls
  BY CallIsKnown
<1>2. CASE c.kind = "open"
  <2>1. Passes(db.accounts, c)
    BY <1>2 DEF IInv, IdentifiersAreFresh, Passes
  <2>2. \A a \in Touched(c) :
           NewRow(c, a, copy[r][a]) = NewRow(c, a, db.accounts[a])
    BY <1>2 DEF NewRow
  <2> QED BY <2>1, <2>2 DEF WriteRows, RowsWritten
<1>3. CASE c.kind # "open"
  <2>1. Passes(copy[r], c)
    BY <1>3 DEF IInv, TestsHold
  <2>2. ASSUME NEW a \in Touched(c)
        PROVE  copy[r][a] = db.accounts[a]
    <3>1. a \in Accounts
      BY <1>1, CallFields
    <3>2. copy[r][a] # AbsentRow
      BY <1>3, <2>1 DEF Passes, AbsentRow
    <3>3. copy[r][a].version = db.accounts[a].version
      BY <1>3 DEF VersionsMatch
    <3> QED BY <3>1, <3>2, <3>3 DEF IInv, VersionIdentifiesRow
  <2>3. Passes(db.accounts, c)
    BY <1>1, <1>3, <2>1, <2>2, CallFields DEF Passes
  <2>4. WriteRows(db, c, copy[r]) = RowsWritten(db, c)
    BY <2>2 DEF WriteRows, RowsWritten
  <2> QED BY <2>3, <2>4
<1> QED BY <1>2, <1>3

\* The conjuncts that a write to the draft does not disturb.
LEMMA DraftStepKeeps ==
    ASSUME IInv, NEW r \in Requests, NEW next \in Writing,
           pc' = [pc EXCEPT ![r] = next], UNCHANGED <<db, call, copy, answer>>,
           lock' = r, lock \in {r, NoRequest}, pc[r] \in Writing \union {"flush"},
           draft' \in Database,
           next \in {"entries", "transferRow"} => call[r].kind = "transfer",
           next = "audit" => call[r].kind \in {"open", "close", "transfer"},
           Passes(db.accounts, call[r])
    PROVE  /\ TypeOK' /\ StepSuitsCall' /\ LockIsForWriting'
           /\ IdentifiersAreFresh' /\ VersionIdentifiesRow' /\ TestsHold'
           /\ LedgerChain' /\ ClosedIsEmpty'
           /\ \A q \in Requests \ {r} : pc'[q] \notin Writing
<1>1. TypeOK'
  BY EveryRequestHasASession DEF IInv, TypeOK, Steps, Writing
<1>2. StepSuitsCall'
  BY DEF IInv, TypeOK, StepSuitsCall, Writing
<1>3. LockIsForWriting'
  BY NobodyIsARequest DEF IInv, TypeOK, LockIsForWriting
<1>4. IdentifiersAreFresh'
  <2>1. \A a \in Accounts : db'.accounts[a] = db.accounts[a]
    OBVIOUS
  <2>2. ASSUME NEW q \in Requests, call[q].kind = "open",
               pc'[q] \in {"flush", "audit", "commit"}
        PROVE  db.accounts[call[q].account] = AbsentRow
    <3>1. CASE q = r
      BY <2>2, <3>1 DEF Passes
    <3>2. CASE q # r
      BY <2>2, <3>2 DEF IInv, TypeOK, IdentifiersAreFresh
    <3> QED BY <3>1, <3>2
  <2> QED BY <2>1, <2>2 DEF IInv, IdentifiersAreFresh
<1>5. VersionIdentifiesRow'
  BY DEF IInv, VersionIdentifiesRow
<1>6. TestsHold'
  BY DEF IInv, TypeOK, TestsHold, Writing
<1>7. \A q \in Requests \ {r} : pc'[q] \notin Writing
  BY <1>3 DEF LockIsForWriting
<1> QED BY <1>1, <1>2, <1>3, <1>4, <1>5, <1>6, <1>7, TablesUnchanged

LEMMA FlushRowsKeeps ==
    ASSUME IInv, NEW r \in Requests, FlushRows(r)
    PROVE  IInv'
<1> DEFINE c == call[r]
<1>1. /\ c \in Calls /\ pc[r] = "flush" /\ lock = NoRequest /\ lock' = r
      /\ db \in Database /\ draft = db
      /\ pc' = [pc EXCEPT ![r] = AfterFlush(c)]
      /\ UNCHANGED <<db, call, copy, answer>>
  BY CallIsKnown, NobodyIsARequest DEF FlushRows, IInv, TypeOK, LockIsForWriting
<1>2. Passes(db.accounts, c) /\ WriteRows(db, c, copy[r]) = RowsWritten(db, c)
  BY MatchingCopies DEF FlushRows
<1>3. draft' = IF c.kind \in {"deposit", "withdraw"} THEN EntriesWritten(db, c)
                                                     ELSE RowsWritten(db, c)
  BY <1>2 DEF FlushRows, EntriesWritten
<1>4. draft' \in Database
  BY <1>1, <1>2, <1>3, ResultType
<1>5. /\ AfterFlush(c) \in Writing /\ AfterFlush(c) # "transferRow"
      /\ AfterFlush(c) = "entries" <=> c.kind = "transfer"
      /\ AfterFlush(c) = "audit" <=> c.kind \in {"open", "close"}
      /\ AfterFlush(c) = "commit" <=> c.kind \in {"deposit", "withdraw"}
  BY <1>1, CallFields DEF AfterFlush, Writing
<1>6. /\ TypeOK' /\ StepSuitsCall' /\ LockIsForWriting'
      /\ IdentifiersAreFresh' /\ VersionIdentifiesRow' /\ TestsHold'
      /\ LedgerChain' /\ ClosedIsEmpty'
      /\ \A q \in Requests \ {r} : pc'[q] \notin Writing
  BY <1>1, <1>2, <1>4, <1>5, DraftStepKeeps
<1>7. DraftIsPartOfResult'
  <2>1. pc'[r] = AfterFlush(c)
    BY <1>1 DEF IInv, TypeOK
  <2>2. /\ pc'[r] = "entries" => draft' = RowsWritten(db, c)
        /\ pc'[r] = "audit" => draft' = BeforeAudit(db, c)
        /\ pc'[r] = "commit" => draft' = Result(db, c)
        /\ pc'[r] \in {"audit", "commit"} => c.kind # "transfer"
    BY <1>3, <1>5, <2>1 DEF BeforeAudit, Result
  <2> QED BY <1>1, <1>5, <1>6, <2>1, <2>2 DEF DraftIsPartOfResult, Writing
<1> QED BY <1>6, <1>7 DEF IInv

LEMMA WriterHoldsLock ==
    ASSUME IInv, NEW r \in Requests, pc[r] \in Writing
    PROVE  /\ lock = r /\ call[r] \in Calls /\ Passes(db.accounts, call[r])
           /\ db \in Database /\ draft \in Database
BY CallIsKnown DEF IInv, TypeOK, LockIsForWriting, TestsHold, Writing

LEMMA InsertEntriesKeeps ==
    ASSUME IInv, NEW r \in Requests, InsertEntries(r)
    PROVE  IInv'
<1> DEFINE c == call[r]
<1>1. /\ pc[r] = "entries" /\ pc[r] \in Writing /\ lock' = r /\ lock = r
      /\ pc' = [pc EXCEPT ![r] = "transferRow"]
      /\ UNCHANGED <<db, call, copy, answer>>
      /\ c \in Calls /\ c.kind = "transfer" /\ Passes(db.accounts, c)
      /\ db \in Database /\ draft = RowsWritten(db, c)
  BY WriterHoldsLock
     DEF InsertEntries, Writing, IInv, StepSuitsCall, DraftIsPartOfResult
<1>2. draft' = EntriesWritten(db, c) /\ draft' \in Database
  <2>1. draft' = EntriesWritten(db, c)
    BY <1>1 DEF InsertEntries, EntriesWritten
  <2> QED BY <1>1, <2>1, ResultType
<1>3. ~ DebitKeyTaken(db, c.key)
  <2>1. draft.ledger = db.ledger
    BY <1>1 DEF RowsWritten, WriteRows, Database
  <2> QED BY <2>1 DEF InsertEntries, DebitKeyTaken
<1>4. /\ TypeOK' /\ StepSuitsCall' /\ LockIsForWriting'
      /\ IdentifiersAreFresh' /\ VersionIdentifiesRow' /\ TestsHold'
      /\ LedgerChain' /\ ClosedIsEmpty'
      /\ \A q \in Requests \ {r} : pc'[q] \notin Writing
  BY <1>1, <1>2, DraftStepKeeps DEF Writing
<1>5. DraftIsPartOfResult'
  <2>1. pc'[r] = "transferRow"
    BY <1>1 DEF IInv, TypeOK
  <2> QED BY <1>1, <1>2, <1>3, <1>4, <2>1
          DEF DraftIsPartOfResult, Writing, DebitKeyTaken
<1> QED BY <1>4, <1>5 DEF IInv

LEMMA InsertTransferRowKeeps ==
    ASSUME IInv, NEW r \in Requests, InsertTransferRow(r)
    PROVE  IInv'
<1> DEFINE c == call[r]
<1>1. /\ pc[r] = "transferRow" /\ pc[r] \in Writing /\ lock' = r /\ lock = r
      /\ pc' = [pc EXCEPT ![r] = "audit"]
      /\ UNCHANGED <<db, call, copy, answer>>
      /\ c \in Calls /\ c.kind = "transfer" /\ Passes(db.accounts, c)
      /\ db \in Database /\ draft = EntriesWritten(db, c)
      /\ ~ DebitKeyTaken(db, c.key)
  BY WriterHoldsLock
     DEF InsertTransferRow, Writing, IInv, StepSuitsCall, DraftIsPartOfResult
<1>2. draft' = BeforeAudit(db, c) /\ draft' \in Database
  <2>1. draft' = BeforeAudit(db, c)
    BY <1>1 DEF InsertTransferRow, TransferWritten, BeforeAudit
  <2> QED BY <1>1, <2>1, ResultType
<1>3. /\ TypeOK' /\ StepSuitsCall' /\ LockIsForWriting'
      /\ IdentifiersAreFresh' /\ VersionIdentifiesRow' /\ TestsHold'
      /\ LedgerChain' /\ ClosedIsEmpty'
      /\ \A q \in Requests \ {r} : pc'[q] \notin Writing
  BY <1>1, <1>2, DraftStepKeeps DEF Writing
<1>4. DraftIsPartOfResult'
  <2>1. pc'[r] = "audit"
    BY <1>1 DEF IInv, TypeOK
  <2> QED BY <1>1, <1>2, <1>3, <2>1 DEF DraftIsPartOfResult, Writing, DebitKeyTaken
<1> QED BY <1>3, <1>4 DEF IInv

LEMMA InsertAuditKeeps ==
    ASSUME IInv, NEW r \in Requests, InsertAudit(r)
    PROVE  IInv'
<1> DEFINE c == call[r]
<1>1. /\ pc[r] = "audit" /\ pc[r] \in Writing /\ lock' = r /\ lock = r
      /\ pc' = [pc EXCEPT ![r] = "commit"]
      /\ UNCHANGED <<db, call, copy, answer>>
      /\ c \in Calls /\ c.kind \in {"open", "close", "transfer"}
      /\ Passes(db.accounts, c) /\ db \in Database /\ draft = BeforeAudit(db, c)
      /\ c.kind = "transfer" => ~ DebitKeyTaken(db, c.key)
  BY WriterHoldsLock
     DEF InsertAudit, Writing, IInv, StepSuitsCall, DraftIsPartOfResult
<1>2. draft' = Result(db, c) /\ draft' \in Database
  <2>1. draft' = Result(db, c)
    BY <1>1 DEF InsertAudit, Result
  <2> QED BY <1>1, <2>1, ResultType
<1>3. /\ TypeOK' /\ StepSuitsCall' /\ LockIsForWriting'
      /\ IdentifiersAreFresh' /\ VersionIdentifiesRow' /\ TestsHold'
      /\ LedgerChain' /\ ClosedIsEmpty'
      /\ \A q \in Requests \ {r} : pc'[q] \notin Writing
  BY <1>1, <1>2, DraftStepKeeps DEF Writing
<1>4. DraftIsPartOfResult'
  <2>1. pc'[r] = "commit"
    BY <1>1 DEF IInv, TypeOK
  <2> QED BY <1>1, <1>2, <1>3, <2>1 DEF DraftIsPartOfResult, Writing, DebitKeyTaken
<1> QED BY <1>3, <1>4 DEF IInv

\* The integrity error: the draft is undone and the lock released.
LEMMA DuplicateEntryKeeps ==
    ASSUME IInv, NEW r \in Requests, DuplicateEntry(r)
    PROVE  IInv'
<1>1. /\ pc[r] = "entries" /\ lock = r /\ lock' = NoRequest /\ draft' = db
      /\ db \in Database
      /\ pc' = [pc EXCEPT ![r] = "reply"]
      /\ copy' = [copy EXCEPT ![r] = NothingRead]
      /\ answer' = [answer EXCEPT ![r] = "integrityError"]
      /\ UNCHANGED <<db, call>>
  BY WriterHoldsLock DEF DuplicateEntry, Answer, Writing
<1>2. TypeOK'
  BY <1>1, NothingReadType DEF IInv, TypeOK, Steps, Codes
<1>3. StepSuitsCall'
  BY <1>1 DEF IInv, TypeOK, StepSuitsCall
<1>4. LockIsForWriting'
  BY <1>1, NobodyIsARequest DEF IInv, TypeOK, LockIsForWriting, Writing
<1>5. IdentifiersAreFresh'
  BY <1>1 DEF IInv, TypeOK, IdentifiersAreFresh
<1>6. VersionIdentifiesRow'
  BY <1>1 DEF IInv, TypeOK, VersionIdentifiesRow, NothingRead
<1>7. TestsHold'
  BY <1>1 DEF IInv, TypeOK, TestsHold, Writing
<1>8. DraftIsPartOfResult'
  BY <1>1, <1>4, NobodyIsARequest DEF DraftIsPartOfResult, LockIsForWriting, Writing
<1> QED BY <1>1, <1>2, <1>3, <1>4, <1>5, <1>6, <1>7, <1>8, TablesUnchanged DEF IInv

LEMMA RestartKeeps ==
    ASSUME IInv, Restart
    PROVE  IInv'
<1>1. /\ draft' = db /\ lock' = NoRequest
      /\ pc' = [r \in Requests |-> IF InFlight(r) THEN "lost" ELSE pc[r]]
      /\ copy' = [r \in Requests |-> NothingRead]
      /\ UNCHANGED <<db, call, answer>>
      /\ \A r \in Requests : pc'[r] \in {"unsent", "answered", "lost"}
      /\ \A r \in Requests : pc'[r] = "unsent" <=> pc[r] = "unsent"
  BY DEF Restart, InFlight
<1>2. TypeOK'
  BY <1>1, NothingReadType DEF IInv, TypeOK, Steps
<1>3. StepSuitsCall'
  BY <1>1 DEF IInv, StepSuitsCall
<1>4. LockIsForWriting'
  BY <1>1, NobodyIsARequest DEF LockIsForWriting, Writing
<1>5. IdentifiersAreFresh'
  BY <1>1 DEF IInv, IdentifiersAreFresh
<1>6. VersionIdentifiesRow'
  BY <1>1 DEF VersionIdentifiesRow, NothingRead
<1>7. TestsHold'
  BY <1>1 DEF TestsHold, Writing
<1>8. DraftIsPartOfResult'
  BY <1>1 DEF DraftIsPartOfResult
<1> QED BY <1>1, <1>2, <1>3, <1>4, <1>5, <1>6, <1>7, <1>8, TablesUnchanged DEF IInv

-----------------------------------------------------------------------------
(* The commit: the database becomes the result of the call.                *)

LEMMA CommitIsResult ==
    ASSUME IInv, NEW r \in Requests, Commit(r)
    PROVE  /\ pc[r] = "commit" /\ lock = r /\ lock' = NoRequest
           /\ call[r] \in Calls /\ Passes(db.accounts, call[r])
           /\ db \in Database /\ db' = Result(db, call[r]) /\ draft' = db'
           /\ call[r].kind = "transfer" => ~ DebitKeyTaken(db, call[r].key)
           /\ pc' = [pc EXCEPT ![r] = "reply"]
           /\ copy' = [copy EXCEPT ![r] = NothingRead]
           /\ answer' = [answer EXCEPT ![r] = "ok"]
           /\ UNCHANGED call
BY WriterHoldsLock DEF Commit, Answer, Writing, IInv, DraftIsPartOfResult

\* The rows that a call touches were not absent unless it opens them, and get a
\* version that nobody has read.
LEMMA RowsOfResult ==
    ASSUME NEW d \in Database, NEW c \in Calls, Passes(d.accounts, c),
           NEW a \in Accounts
    PROVE  /\ a \notin Touched(c) => Result(d, c).accounts[a] = d.accounts[a]
           /\ a \in Touched(c) =>
                 /\ Result(d, c).accounts[a].status # "absent"
                 /\ c.kind = "open" => a = c.account /\ d.accounts[a] = AbsentRow
                 /\ c.kind # "open" =>
                       /\ d.accounts[a].status = "open"
                       /\ Result(d, c).accounts[a].version = d.accounts[a].version + 1
<1>1. Result(d, c).accounts[a] =
         IF a \in Touched(c) THEN NewRow(c, a, d.accounts[a]) ELSE d.accounts[a]
  BY TablesOfResult
<1>2. CASE a \in Touched(c) /\ c.kind = "open"
  BY <1>1, <1>2 DEF NewRow, Passes, Touched
<1>3. CASE a \in Touched(c) /\ c.kind # "open"
  BY <1>1, <1>3 DEF NewRow, Passes
<1> QED BY <1>1, <1>2, <1>3

LEMMA CommitKeeps ==
    ASSUME IInv, NEW r \in Requests, Commit(r)
    PROVE  IInv'
<1> DEFINE c == call[r]
<1>1. /\ pc[r] = "commit" /\ lock = r /\ lock' = NoRequest
      /\ c \in Calls /\ Passes(db.accounts, c)
      /\ db \in Database /\ db' = Result(db, c) /\ draft' = db'
      /\ pc' = [pc EXCEPT ![r] = "reply"]
      /\ copy' = [copy EXCEPT ![r] = NothingRead]
      /\ answer' = [answer EXCEPT ![r] = "ok"]
      /\ UNCHANGED call
  BY CommitIsResult
<1>2. db' \in Database
  BY <1>1, ResultType
<1>3. TypeOK'
  BY <1>1, <1>2, NothingReadType DEF IInv, TypeOK, Steps, Codes
<1>4. StepSuitsCall'
  BY <1>1 DEF IInv, TypeOK, StepSuitsCall
<1>5. LockIsForWriting'
  BY <1>1, NobodyIsARequest DEF IInv, TypeOK, LockIsForWriting, Writing
<1>6. IdentifiersAreFresh'
  <2>1. ASSUME NEW a \in Accounts
        PROVE  \/ db'.accounts[a] = AbsentRow
               \/ db'.accounts[a].status # "absent" /\ a \in DOMAIN Seed
               \/ /\ db'.accounts[a].status # "absent"
                  /\ \E q \in Requests : call'[q].kind = "open" /\ call'[q].account = a
    <3>1. CASE a \notin Touched(c)
      BY <1>1, <3>1, RowsOfResult DEF IInv, IdentifiersAreFresh
    <3>2. CASE a \in Touched(c) /\ c.kind = "open"
      BY <1>1, <3>2, RowsOfResult
    <3>3. CASE a \in Touched(c) /\ c.kind # "open"
      <4>1. db.accounts[a] # AbsentRow /\ db'.accounts[a].status # "absent"
        BY <1>1, <3>3, RowsOfResult DEF AbsentRow
      <4> QED BY <1>1, <4>1 DEF IInv, IdentifiersAreFresh
    <3> QED BY <3>1, <3>2, <3>3
  <2>2. ASSUME NEW q \in Requests, call[q].kind = "open",
               pc'[q] \in {"flush", "audit", "commit"}
        PROVE  db'.accounts[call[q].account] = AbsentRow
    <3>1. q # r /\ pc'[q] = pc[q]
      BY <1>1, <2>2 DEF IInv, TypeOK
    <3>2. db.accounts[call[q].account] = AbsentRow
      BY <2>2, <3>1 DEF IInv, IdentifiersAreFresh
    <3>3. call[q].account \in Accounts
      BY <2>2, <3>1, CallIsKnown, CallFields
    <3>4. call[q].account \notin Touched(c)
      <4>1. CASE c.kind = "open"
        BY <2>2, <3>1, <4>1 DEF IInv, IdentifiersAreFresh, Touched
      <4>2. CASE c.kind # "open"
        BY <1>1, <3>2, <4>2 DEF Passes, AbsentRow
      <4> QED BY <4>1, <4>2
    <3> QED BY <1>1, <3>2, <3>3, <3>4, RowsOfResult
  <2> QED BY <1>1, <2>1, <2>2 DEF IInv, IdentifiersAreFresh
<1>7. VersionIdentifiesRow'
  <2> SUFFICES ASSUME NEW q \in Requests, NEW a \in Accounts,
                      copy'[q][a] # AbsentRow
               PROVE  /\ copy'[q][a].status = "open"
                      /\ db'.accounts[a].status # "absent"
                      /\ copy'[q][a].version <= db'.accounts[a].version
                      /\ copy'[q][a].version = db'.accounts[a].version
                           => copy'[q][a] = db'.accounts[a]
    BY DEF VersionIdentifiesRow
  <2>1. copy'[q][a] = copy[q][a]
    BY <1>1 DEF IInv, TypeOK, NothingRead
  <2>2. /\ copy[q][a].status = "open"
        /\ db.accounts[a].status # "absent"
        /\ copy[q][a].version <= db.accounts[a].version
        /\ copy[q][a].version = db.accounts[a].version
             => copy[q][a] = db.accounts[a]
    BY <2>1 DEF IInv, VersionIdentifiesRow
  <2>3. copy[q][a].version \in Nat /\ db.accounts[a].version \in Nat
    BY <1>1 DEF IInv, TypeOK, Database, Row
  <2>4. CASE a \notin Touched(c)
    <3>1. db'.accounts[a] = db.accounts[a]
      BY <1>1, <2>4, RowsOfResult
    <3> QED BY <2>1, <2>2, <3>1
  <2>5. CASE a \in Touched(c)
    <3>1. c.kind # "open"
      BY <1>1, <2>2, <2>5, RowsOfResult DEF AbsentRow
    <3>2. /\ db'.accounts[a].status # "absent"
          /\ db'.accounts[a].version = db.accounts[a].version + 1
      BY <1>1, <2>5, <3>1, RowsOfResult
    <3> QED BY <2>1, <2>2, <2>3, <3>2
  <2> QED BY <2>4, <2>5
<1>8. \A q \in Requests : pc'[q] \notin Writing
  BY <1>1, <1>5, NobodyIsARequest DEF LockIsForWriting
<1>9. TestsHold'
  BY <1>1, <1>8 DEF IInv, TypeOK, TestsHold
<1>10. DraftIsPartOfResult'
  BY <1>8 DEF DraftIsPartOfResult, Writing
<1>11. LedgerChain'
  BY <1>1, ResultExplained DEF IInv, LedgerChain, Explained
<1>12. ClosedIsEmpty'
  <2>1. \A a \in Accounts :
           db'.accounts[a].status = "closed" => db'.accounts[a].balance = 0
    BY <1>1, ResultClosesEmpty DEF IInv, ClosedIsEmpty
  <2> QED BY <1>11, <2>1 DEF ClosedIsEmpty, LedgerChain, Explained
<1> QED BY <1>3, <1>4, <1>5, <1>6, <1>7, <1>9, <1>10, <1>11, <1>12 DEF IInv

-----------------------------------------------------------------------------
(* The theorems.                                                           *)

LEMMA NextKeeps == IInv /\ [Next]_vars => IInv'
<1> SUFFICES ASSUME IInv, [Next]_vars
             PROVE  IInv'
  OBVIOUS
<1>1. ASSUME NEW r \in Requests, Arrive(r) PROVE IInv'
  BY <1>1, ArriveKeeps
<1>2. ASSUME NEW r \in Requests, Handle(r) PROVE IInv'
  <2>1. CASE ReadAccount(r)
    BY <2>1, ReadAccountKeeps
  <2>2. CASE CheckKey(r)
    BY <2>2, CheckKeyKeeps
  <2>3. CASE ReadFrom(r)
    BY <2>3, ReadFromKeeps
  <2>4. CASE ReadTo(r)
    BY <2>4, ReadToKeeps
  <2>5. CASE FlushRows(r)
    BY <2>5, FlushRowsKeeps
  <2>6. CASE FlushIsStale(r) \/ BusyTimeout(r)
    BY <2>6, RejectKeeps DEF FlushIsStale, BusyTimeout, Codes
  <2>7. CASE InsertEntries(r)
    BY <2>7, InsertEntriesKeeps
  <2>8. CASE DuplicateEntry(r)
    BY <2>8, DuplicateEntryKeeps
  <2>9. CASE InsertTransferRow(r)
    BY <2>9, InsertTransferRowKeeps
  <2>10. CASE InsertAudit(r)
    BY <2>10, InsertAuditKeeps
  <2>11. CASE Commit(r)
    BY <2>11, CommitKeeps
  <2>12. CASE Reply(r)
    BY <2>12, ReplyKeeps
  <2> QED BY <1>2, <2>1, <2>2, <2>3, <2>4, <2>5, <2>6, <2>7, <2>8, <2>9, <2>10,
             <2>11, <2>12 DEF Handle
<1>3. CASE Crash
  BY <1>3, RestartKeeps DEF Crash
<1>4. CASE UNCHANGED vars
  BY <1>4 DEF vars, IInv, TypeOK, StepSuitsCall, LockIsForWriting,
              IdentifiersAreFresh, VersionIdentifiesRow, TestsHold,
              DraftIsPartOfResult, DebitKeyTaken, LedgerChain, Explained,
              ClosedIsEmpty
<1> QED BY <1>1, <1>2, <1>3, <1>4 DEF Next, Rest

\* IInv is an invariant: what a session tested on its copies still holds of the
\* committed rows while it writes, because a version determines a row.
THEOREM InductiveInvariant == Spec => []IInv
<1> QED BY InitInvariant, NextKeeps, PTL DEF Spec

\* The variables keep their types; in particular no balance is ever negative,
\* for any number of concurrent withdrawals and transfers.
THEOREM TypeCorrect == Spec => []TypeOK
<1>1. IInv => TypeOK
  BY DEF IInv
<1> QED BY <1>1, InductiveInvariant, PTL

\* No update is lost: the committed ledger of every account is a chain that ends
\* in the balance of the account.
THEOREM LedgerIsChain == Spec => []LedgerChain
<1>1. IInv => LedgerChain
  BY DEF IInv
<1> QED BY <1>1, InductiveInvariant, PTL

\* No closed account holds money.
THEOREM ClosedAccountsAreEmpty == Spec => []ClosedIsEmpty
<1>1. IInv => ClosedIsEmpty
  BY DEF IInv
<1> QED BY <1>1, InductiveInvariant, PTL
=============================================================================
