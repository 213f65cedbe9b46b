------------------------------ MODULE CardsProofs ----------------------------
(***************************************************************************)
(* Proofs about Cards, for every set of requests on the card routes and on *)
(* the money routes: the cards keep their audit trail, what a request is   *)
(* told of a status was true, and the money routes keep their invariant    *)
(* IInv beside the card routes, which take the same write lock.            *)
(***************************************************************************)
EXTENDS Cards, LedgerPromises

-----------------------------------------------------------------------------
(* Lemmas about the data: what a call writes.                              *)

LEMMA CardCallFields ==
    ASSUME NEW c \in CardCalls
    PROVE  /\ c.kind \in {"issue", "status", "delete"}
           /\ c.user \in Users /\ c.card \in CardIds
           /\ c.kind = "issue" => c.account \in Accounts
           /\ c.kind = "status" => c.status \in Statuses
           /\ c # NoCall
BY DEF CardCalls, IssueCall, StatusCall, DeleteCall, NoCall

\* The row of the card and the audit row that call c writes.
LEMMA WrittenCard ==
    ASSUME NEW d \in CardDatabase, NEW c \in CardCalls, NEW read \in CardRow
    PROVE  LET e == WriteCards(d, c, read) IN
           /\ e \in CardDatabase
           /\ e.trail = Append(d.trail, CardAuditOf(c, read))
           /\ \A k \in CardIds \ {c.card} : e.cards[k] = d.cards[k]
           /\ c.kind = "issue" => e.cards[c.card] = NewCard(c.account)
           /\ c.kind # "issue" =>
                 /\ e.cards[c.card].account = d.cards[c.card].account
                 /\ e.cards[c.card].life = IF c.kind = "delete" THEN "deleted"
                                           ELSE d.cards[c.card].life
                 /\ e.cards[c.card].status =
                       IF c.kind = "status" /\ c.status # read.status THEN c.status
                       ELSE d.cards[c.card].status
<1> DEFINE e == WriteCards(d, c, read)
           row == d.cards[c.card]
<1>1. /\ c.kind \in {"issue", "status", "delete"} /\ c.card \in CardIds
      /\ c.user \in Users /\ (c.kind = "issue" => c.account \in Accounts)
      /\ c.kind = "status" => c.status \in Statuses
  BY CardCallFields
<1>2. /\ row \in CardRow /\ d.cards \in [CardIds -> CardRow] /\ d.trail \in Seq(CardAudit)
      /\ read.status \in Statuses
  BY <1>1 DEF CardDatabase, CardRow
<1>3. CardAuditOf(c, read) \in CardAudit
  BY <1>1, <1>2 DEF CardAuditOf, CardAudit, Created, Statuses
<1>4. CASE c.kind = "issue"
  <2>1. NewCard(c.account) \in CardRow
    BY <1>1, <1>4 DEF NewCard, CardRow, Statuses
  <2>2. e.cards = [d.cards EXCEPT ![c.card] = NewCard(c.account)]
    BY <1>4 DEF WriteCards
  <2> QED BY <1>1, <1>2, <1>3, <1>4, <2>1, <2>2 DEF WriteCards, CardDatabase
<1>5. CASE c.kind # "issue"
  <2>1. e.cards = [d.cards EXCEPT ![c.card] = Updated(row, c, read)]
    BY <1>5 DEF WriteCards
  <2>2. CASE c.kind = "status"
    <3>1. Updated(row, c, read) =
             [life |-> row.life, account |-> row.account,
              status |-> IF c.status = read.status THEN row.status ELSE c.status]
      BY <1>2, <2>2 DEF Updated, CardRow
    <3>2. Updated(row, c, read) \in CardRow
      BY <1>1, <1>2, <2>2, <3>1 DEF CardRow
    <3> QED BY <1>1, <1>2, <1>3, <1>5, <2>1, <2>2, <3>1, <3>2
            DEF WriteCards, CardDatabase
  <2>3. CASE c.kind = "delete"
    <3>1. Updated(row, c, read) =
             [life |-> "deleted", account |-> row.account, status |-> row.status]
      BY <1>2, <2>3 DEF Updated, CardRow
    <3>2. Updated(row, c, read) \in CardRow
      BY <1>1, <1>2, <3>1 DEF CardRow
    <3> QED BY <1>1, <1>2, <1>3, <1>5, <2>1, <2>3, <3>1, <3>2
            DEF WriteCards, CardDatabase
  <2> QED BY <1>1, <1>5, <2>2, <2>3
<1> QED BY <1>4, <1>5

\* The card of call c exists after the call, on the account that it was issued on.
LEMMA WrittenRow ==
    ASSUME NEW d \in CardDatabase, NEW c \in CardCalls, NEW read \in CardRow,
           c.kind = "issue" <=> d.cards[c.card].life = "absent"
    PROVE  LET e == WriteCards(d, c, read) IN
           /\ \A k \in CardIds : k # c.card => e.cards[k] = d.cards[k]
           /\ e.cards[c.card].life # "absent"
           /\ c.kind = "issue" => e.cards[c.card].account = c.account
           /\ c.kind # "issue" =>
                 /\ e.cards[c.card].account = d.cards[c.card].account
                 /\ d.cards[c.card].life = "deleted" => e.cards[c.card].life = "deleted"
                 /\ e.cards[c.card].status =
                       IF c.kind = "status" /\ c.status # read.status THEN c.status
                       ELSE d.cards[c.card].status
<1> DEFINE e == WriteCards(d, c, read)
<1>1. /\ \A k \in CardIds \ {c.card} : e.cards[k] = d.cards[k]
      /\ c.kind = "issue" => e.cards[c.card] = NewCard(c.account)
      /\ c.kind # "issue" =>
            /\ e.cards[c.card].account = d.cards[c.card].account
            /\ e.cards[c.card].life = IF c.kind = "delete" THEN "deleted"
                                      ELSE d.cards[c.card].life
            /\ e.cards[c.card].status =
                  IF c.kind = "status" /\ c.status # read.status THEN c.status
                  ELSE d.cards[c.card].status
  BY WrittenCard
<1>2. NewCard(c.account).life = "live" /\ NewCard(c.account).account = c.account
  BY DEF NewCard
<1> SUFFICES /\ \A k \in CardIds : k # c.card => e.cards[k] = d.cards[k]
             /\ e.cards[c.card].life # "absent"
             /\ c.kind = "issue" => e.cards[c.card].account = c.account
             /\ c.kind # "issue" =>
                   /\ e.cards[c.card].account = d.cards[c.card].account
                   /\ d.cards[c.card].life = "deleted" => e.cards[c.card].life = "deleted"
                   /\ e.cards[c.card].status =
                         IF c.kind = "status" /\ c.status # read.status THEN c.status
                         ELSE d.cards[c.card].status
  OBVIOUS
<1> HIDE DEF e
<1>3. CASE c.kind = "issue"
  BY <1>1, <1>2, <1>3
<1>4. CASE c.kind # "issue"
  BY <1>1, <1>4
<1> QED BY <1>3, <1>4

\* What the audit row adds to the changes and to the deletions of each card.
LEMMA WrittenTrail ==
    ASSUME NEW d \in CardDatabase, NEW c \in CardCalls, NEW read \in CardRow,
           NEW k \in CardIds
    PROVE  LET e == WriteCards(d, c, read)
               n == Len(d.trail) + 1
               changes == c.kind = "issue" \/ (c.kind = "status" /\ c.status # read.status)
           IN /\ n \in Nat /\ \A i \in DOMAIN d.trail : i \in Nat /\ i < n
              /\ DOMAIN e.trail = DOMAIN d.trail \union {n}
              /\ \A i \in DOMAIN d.trail : e.trail[i] = d.trail[i]
              /\ e.trail[n] = CardAuditOf(c, read)
              /\ Changes(e, k) = IF k = c.card /\ changes THEN Changes(d, k) \union {n}
                                                          ELSE Changes(d, k)
              /\ Deletions(e, k) = IF k = c.card /\ c.kind = "delete"
                                   THEN Deletions(d, k) \union {n} ELSE Deletions(d, k)
<1> DEFINE e == WriteCards(d, c, read)
           n == Len(d.trail) + 1
           row == CardAuditOf(c, read)
<1>1. /\ c.kind \in {"issue", "status", "delete"} /\ d.trail \in Seq(CardAudit)
      /\ read.status \in Statuses
  BY CardCallFields DEF CardDatabase, CardRow
<1>2. e.trail = Append(d.trail, row)
  BY DEF WriteCards
<1>3. /\ n \in Nat /\ \A i \in DOMAIN d.trail : i \in Nat /\ i < n
      /\ DOMAIN e.trail = DOMAIN d.trail \union {n}
      /\ \A i \in DOMAIN d.trail : e.trail[i] = d.trail[i]
      /\ e.trail[n] = row
  BY <1>1, <1>2
<1>4. /\ row.card = c.card
      /\ row.old # row.new <=>
            (c.kind = "issue" \/ (c.kind = "status" /\ c.status # read.status))
      /\ row.action = "card.deleted" <=> c.kind = "delete"
  BY <1>1 DEF CardAuditOf, Created
<1> HIDE DEF e, n, row
<1>5. Changes(e, k) = {i \in DOMAIN d.trail \union {n} :
                          e.trail[i].card = k /\ e.trail[i].old # e.trail[i].new}
  BY <1>3 DEF Changes
<1>6. Deletions(e, k) = {i \in DOMAIN d.trail \union {n} :
                            e.trail[i].card = k /\ e.trail[i].action = "card.deleted"}
  BY <1>3 DEF Deletions
<1>7. /\ Changes(e, k) = IF k = c.card /\ row.old # row.new
                         THEN Changes(d, k) \union {n} ELSE Changes(d, k)
      /\ Deletions(e, k) = IF k = c.card /\ row.action = "card.deleted"
                           THEN Deletions(d, k) \union {n} ELSE Deletions(d, k)
  BY <1>3, <1>4, <1>5, <1>6 DEF Changes, Deletions
<1> QED BY <1>3, <1>4, <1>7 DEF e, n, row

LEMMA WrittenTrailTells ==
    ASSUME NEW d \in CardDatabase, NEW c \in CardCalls, NEW read \in CardRow,
           c.kind = "issue" <=> d.cards[c.card].life = "absent",
           NEW k \in CardIds, TrailTells(d, k)
    PROVE  TrailTells(WriteCards(d, c, read), k)
<1> DEFINE e == WriteCards(d, c, read)
           n == Len(d.trail) + 1
           changes == c.kind = "issue" \/ (c.kind = "status" /\ c.status # read.status)
<1>1. /\ n \in Nat /\ \A i \in DOMAIN d.trail : i \in Nat /\ i < n
      /\ \A i \in DOMAIN d.trail : e.trail[i] = d.trail[i]
      /\ e.trail[n] = CardAuditOf(c, read)
      /\ Changes(e, k) = IF k = c.card /\ changes THEN Changes(d, k) \union {n}
                                                  ELSE Changes(d, k)
      /\ Deletions(e, k) = IF k = c.card /\ c.kind = "delete"
                           THEN Deletions(d, k) \union {n} ELSE Deletions(d, k)
      /\ Changes(d, k) \subseteq DOMAIN d.trail
  BY WrittenTrail DEF Changes
<1>2. /\ k # c.card => e.cards[k] = d.cards[k]
      /\ c.kind = "issue" => e.cards[c.card] = NewCard(c.account)
      /\ c.kind # "issue" =>
            /\ e.cards[c.card].life = IF c.kind = "delete" THEN "deleted"
                                      ELSE d.cards[c.card].life
            /\ e.cards[c.card].status =
                  IF c.kind = "status" /\ c.status # read.status THEN c.status
                  ELSE d.cards[c.card].status
  BY WrittenCard
<1>3. c.kind \in {"issue", "status", "delete"}
  BY CardCallFields
<1> SUFFICES TrailTells(e, k)
  OBVIOUS
<1> HIDE DEF e, n
<1>4. CASE k # c.card
  BY <1>1, <1>2, <1>4 DEF TrailTells
<1>5. CASE k = c.card /\ c.kind = "issue"
  <2>1. Changes(d, k) = {} /\ Deletions(d, k) = {}
    BY <1>5 DEF TrailTells
  <2>2. Changes(e, k) = {n} /\ Deletions(e, k) = {}
    BY <1>1, <1>5, <2>1
  <2>3. e.trail[n].action = "card.created" /\ e.trail[n].new = "ACTIVE"
    BY <1>1, <1>5 DEF CardAuditOf, Created
  <2>4. e.cards[k].life = "live" /\ e.cards[k].status = "ACTIVE"
    BY <1>2, <1>5 DEF NewCard
  <2> QED BY <1>1, <2>2, <2>3, <2>4 DEF TrailTells
<1>6. CASE k = c.card /\ c.kind # "issue" /\ changes
  <2>1. PICK first, last \in Changes(d, k) :
           /\ \A i \in Changes(d, k) : first <= i /\ i <= last
           /\ d.trail[first].action = "card.created"
    BY <1>6 DEF TrailTells
  <2>2. /\ Changes(e, k) = Changes(d, k) \union {n} /\ Deletions(e, k) = Deletions(d, k)
        /\ e.trail[first].action = "card.created" /\ e.trail[n].new = c.status
    BY <1>1, <1>6, <2>1 DEF CardAuditOf
  <2>3. \A i \in Changes(e, k) : first <= i /\ i <= n
    BY <1>1, <2>1, <2>2
  <2>4. /\ e.cards[k].life = d.cards[k].life /\ e.cards[k].life # "absent"
        /\ e.cards[k].status = c.status
    BY <1>2, <1>6
  <2>5. e.cards[k].life = "deleted" <=> Deletions(e, k) # {}
    BY <2>2, <2>4 DEF TrailTells
  <2> QED BY <2>1, <2>2, <2>3, <2>4, <2>5 DEF TrailTells
<1>7. CASE k = c.card /\ c.kind # "issue" /\ ~ changes
  <2>1. Changes(e, k) = Changes(d, k) /\ e.cards[k].status = d.cards[k].status
    BY <1>1, <1>2, <1>7
  <2>2. e.cards[k].life # "absent" /\ d.cards[k].life # "absent"
    BY <1>2, <1>7
  <2>3. e.cards[k].life = "deleted" <=> Deletions(e, k) # {}
    BY <1>1, <1>2, <1>3, <1>7 DEF TrailTells
  <2> QED BY <1>1, <2>1, <2>2, <2>3 DEF TrailTells
<1> QED BY <1>4, <1>5, <1>6, <1>7

-----------------------------------------------------------------------------
(* The invariant.                                                          *)

\* The kind of call that each step belongs to, and when a request has an answer.
WantSuitsStep ==
    \A q \in CardRequests :
        /\ step[q] = "unsent" <=> want[q] = NoCall
        /\ step[q] = "readAccount" => want[q].kind = "issue"
        /\ step[q] \in {"readCard", "readOwner"} => want[q].kind # "issue"
        /\ told[q] # "none" => step[q] = "answered"

\* Every card is of the seed or of one request that issues it, and is not there
\* before that request commits.
CardsAreFresh ==
    /\ \A k \in CardIds :
          \/ cdb.cards[k].life = "absent"
          \/ Seeded(k)
          \/ \E q \in CardRequests : want[q].kind = "issue" /\ want[q].card = k
    /\ \A p, q \in CardRequests :
          want[p].kind = "issue" /\ want[q].kind = "issue" /\ want[p].card = want[q].card
             => p = q
    /\ \A q \in CardRequests :
          want[q].kind = "issue" =>
             /\ ~ Seeded(want[q].card)
             /\ step[q] \in {"readAccount", "write", "commit"} =>
                   cdb.cards[want[q].card].life = "absent"

\* Every card is on an account that was opened, and every audit row is of a card.
CardsHaveAccounts ==
    /\ \A k \in CardIds : cdb.cards[k].life # "absent" =>
          /\ cdb.cards[k].account \in Accounts
          /\ db.accounts[cdb.cards[k].account].status # "absent"
    /\ \A i \in DOMAIN cdb.trail : cdb.cards[cdb.trail[i].card].life # "absent"

\* What a session has read and tested and can no longer change.
CardTestsHold ==
    \A q \in CardRequests :
        /\ want[q].kind = "issue" /\ step[q] \in {"write", "commit"} =>
              /\ db.accounts[want[q].account].status # "absent"
              /\ db.accounts[want[q].account].owner = want[q].user
        /\ want[q].kind # "issue" /\ step[q] \in {"readOwner", "write", "commit"} =>
              /\ cdb.cards[want[q].card].life # "absent"
              /\ held[q].account = cdb.cards[want[q].card].account
        /\ want[q].kind # "issue" /\ step[q] \in {"write", "commit"} =>
              db.accounts[cdb.cards[want[q].card].account].owner = want[q].user
        /\ step[q] = "commit" => cdraft = WriteCards(cdb, want[q], held[q])

\* The statuses that a request may rely on were committed since it arrived.
ShownSoFar ==
    \A q \in CardRequests :
        /\ CardInFlight(q) => cdb.cards[want[q].card].status \in shown[q]
        /\ want[q].kind # "issue" /\ step[q] \in {"readOwner", "write", "commit"} =>
              held[q].status \in shown[q]

CardsInv ==
    /\ IInv
    /\ CardTypeOK
    /\ WantSuitsStep
    /\ CardsAreFresh
    /\ CardsHaveAccounts
    /\ CardTestsHold
    /\ ShownSoFar
    /\ AuditTellsCards
    /\ ToldStatusWasSet

-----------------------------------------------------------------------------
(* The money routes beside the card routes.                                *)

\* A session of another route takes or releases the lock.
LEMMA ForeignLockKeeps ==
    ASSUME IInv, UNCHANGED <<db, draft, pc, call, copy, answer>>,
           lock \notin Requests, lock' \notin Requests,
           lock' \in Sessions \union {NoRequest}
    PROVE  IInv'
<1>1. TypeOK'
  BY DEF IInv, TypeOK
<1>2. LockIsForWriting'
  BY DEF IInv, LockIsForWriting, Writing
<1>3. StepSuitsCall' /\ IdentifiersAreFresh' /\ VersionIdentifiesRow'
  BY DEF IInv, StepSuitsCall, IdentifiersAreFresh, VersionIdentifiesRow
<1>4. TestsHold' /\ DraftIsPartOfResult'
  BY DEF IInv, TestsHold, DraftIsPartOfResult, DebitKeyTaken
<1> QED BY <1>1, <1>2, <1>3, <1>4, TablesUnchanged DEF IInv

\* No account that was opened changes its owner or becomes unopened.
OwnersStay ==
    \A a \in Accounts : db.accounts[a].status # "absent" =>
        /\ db'.accounts[a].status # "absent"
        /\ db'.accounts[a].owner = db.accounts[a].owner

LEMMA LedgerKeepsOwners ==
    ASSUME IInv, [Next]_vars
    PROVE  OwnersStay
<1>1. CASE UNCHANGED db
  BY <1>1 DEF OwnersStay
<1>2. ASSUME NEW r \in Requests, Commit(r)
      PROVE  OwnersStay
  <2>1. /\ call[r] \in Calls /\ Passes(db.accounts, call[r])
        /\ db \in Database /\ db' = Result(db, call[r])
    BY <1>2, CommitIsResult
  <2>2. ASSUME NEW a \in Accounts, db.accounts[a].status # "absent"
        PROVE  /\ db'.accounts[a].status # "absent"
               /\ db'.accounts[a].owner = db.accounts[a].owner
    BY <2>1, <2>2, OwnersOfResult
  <2> QED BY <2>2 DEF OwnersStay
<1> QED BY <1>1, <1>2, OnlyCommitsChange

\* A step that changes neither the tables of cards nor the card requests keeps
\* what is said of them, if it leaves the lock to the one that writes cards.
LEMMA LedgerStepKeepsCards ==
    ASSUME CardsInv, IInv', OwnersStay, UNCHANGED <<cdb, cdraft, cardRequestVars>>,
           \A q \in CardRequests : lock' = q <=> lock = q
    PROVE  CardsInv'
<1> USE DEF cardRequestVars
<1>1. CardTypeOK'
  <2>1. lock' \in Sessions \union {NoRequest}
    BY DEF IInv, TypeOK
  <2> QED BY <2>1 DEF CardsInv, CardTypeOK
<1>2. WantSuitsStep' /\ CardsAreFresh'
  BY DEF CardsInv, WantSuitsStep, CardsAreFresh
<1>3. CardsHaveAccounts'
  BY DEF CardsInv, CardsHaveAccounts, OwnersStay
<1>4. CardTestsHold'
  <2>1. \A q \in CardRequests : want[q].kind = "issue" /\ step[q] \in {"write", "commit"} =>
           want[q].account \in Accounts
    BY CardMenuIsOfCalls, CardCallFields DEF CardsInv, CardTypeOK, WantSuitsStep
  <2>2. \A q \in CardRequests : want[q].kind # "issue" /\ step[q] \in {"write", "commit"} =>
           want[q].card \in CardIds
    BY CardMenuIsOfCalls, CardCallFields DEF CardsInv, CardTypeOK, WantSuitsStep
  <2> QED BY <2>1, <2>2 DEF CardsInv, CardTestsHold, CardsHaveAccounts, OwnersStay
<1>5. ShownSoFar' /\ ToldStatusWasSet'
  BY DEF CardsInv, ShownSoFar, CardInFlight, ToldStatusWasSet
<1>6. AuditTellsCards'
  <2>1. \A k \in CardIds : TrailTells(cdb', k)
    BY DEF CardsInv, AuditTellsCards
  <2>2. ASSUME NEW i \in DOMAIN cdb.trail
        PROVE  OwnerDidIt(cdb, db'.accounts, i)
    <3>1. cdb.trail \in Seq(CardAudit)
      BY DEF CardsInv, CardTypeOK, CardDatabase
    <3>2. cdb.trail[i] \in CardAudit
      BY <3>1
    <3>3. cdb.trail[i].card \in CardIds
      BY <3>2 DEF CardAudit
    <3> QED BY <3>3 DEF CardsInv, AuditTellsCards, CardsHaveAccounts, OwnersStay,
                        OwnerDidIt
  <2> QED BY <2>1, <2>2 DEF AuditTellsCards, TrailTells, OwnerDidIt, Changes, Deletions
<1> QED BY <1>1, <1>2, <1>3, <1>4, <1>5, <1>6 DEF CardsInv

\* A step of the money routes does not touch a lock that a card request holds.
LEMMA LedgerStepKeeps ==
    ASSUME CardsInv, NEW r \in Requests, LedgerStep(r)
    PROVE  CardsInv'
<1>1. Next /\ UNCHANGED <<cdb, cdraft, cardRequestVars>>
  BY DEF LedgerStep, Next
<1>2. IInv'
  BY <1>1, NextKeeps DEF CardsInv
<1>3. OwnersStay
  BY <1>1, LedgerKeepsOwners DEF CardsInv
<1>4. \A q \in CardRequests : q \notin Requests /\ q # NoRequest
  BY CardRequestsAreOthers, NullsAreNull
<1>5. \A q \in CardRequests : lock' = q <=> lock = q
  <2>1. CASE lock' = lock
    BY <2>1
  <2>2. CASE lock' # lock
    <3>1. \/ lock = NoRequest /\ lock' = r
          \/ pc[r] \in Writing /\ lock' = NoRequest
      BY <2>2 DEF LedgerStep, Arrive, ArriveWith, Handle, ReadAccount, CheckKey,
         ReadFrom, ReadTo, FlushRows, FlushIsStale, BusyTimeout, InsertEntries,
         DuplicateEntry, InsertTransferRow, InsertAudit, Commit, Reply, Reject,
         Keep, Answer, Writing
    <3>2. lock \in Requests \union {NoRequest} /\ lock' \in Requests \union {NoRequest}
      BY <3>1 DEF CardsInv, IInv, LockIsForWriting
    <3> QED BY <1>4, <3>2
  <2> QED BY <2>1, <2>2
<1> QED BY <1>1, <1>2, <1>3, <1>5, LedgerStepKeepsCards

-----------------------------------------------------------------------------
(* The steps of the card requests before their first write.                *)

LEMMA WantIsKnown ==
    ASSUME CardsInv, NEW q \in CardRequests, step[q] # "unsent"
    PROVE  want[q] \in CardMenu /\ want[q] \in CardCalls
BY CardMenuIsOfCalls DEF CardsInv, CardTypeOK, WantSuitsStep

LEMMA RowsStay ==
    ASSUME CardsInv, UNCHANGED <<db, cdb>>
    PROVE  CardsHaveAccounts' /\ AuditTellsCards'
<1>1. cdb' = cdb /\ db' = db /\ CardsHaveAccounts /\ AuditTellsCards
  BY DEF CardsInv
<1>2. CardsHaveAccounts'
  BY <1>1 DEF CardsHaveAccounts
<1>3. ASSUME NEW k \in CardIds
      PROVE  TrailTells(cdb, k)'
  <2>1. TrailTells(cdb, k)
    BY <1>1 DEF AuditTellsCards
  <2>2. Changes(cdb, k)' = Changes(cdb, k) /\ Deletions(cdb, k)' = Deletions(cdb, k)
    BY <1>1 DEF Changes, Deletions
  <2> QED BY <1>1, <2>1, <2>2 DEF TrailTells
<1>4. ASSUME NEW i \in DOMAIN cdb'.trail
      PROVE  OwnerDidIt(cdb, db.accounts, i)'
  BY <1>1, <1>4 DEF AuditTellsCards, OwnerDidIt
<1> QED BY <1>2, <1>3, <1>4 DEF AuditTellsCards

LEMMA TablesStay ==
    ASSUME CardsInv, UNCHANGED <<vars, cdb>>
    PROVE  IInv' /\ CardsHaveAccounts' /\ AuditTellsCards'
<1>1. IInv'
  BY NextKeeps DEF CardsInv
<1>2. db' = db
  BY DEF vars
<1> QED BY <1>1, <1>2, RowsStay

LEMMA ArriveCardKeeps ==
    ASSUME CardsInv, NEW q \in CardRequests, ArriveCard(q)
    PROVE  CardsInv'
<1>1. PICK c \in CardMenu : ArriveCardWith(q, c)
  BY DEF ArriveCard
<1>2. /\ c \in CardCalls /\ c # NoCall /\ c.card \in CardIds
      /\ c.kind \in {"issue", "status", "delete"}
  BY CardMenuIsOfCalls, CardCallFields
<1>3. /\ step[q] = "unsent" /\ want[q] = NoCall
      /\ want' = [want EXCEPT ![q] = c]
      /\ step' = [step EXCEPT ![q] = IF c.kind = "issue" THEN "readAccount" ELSE "readCard"]
      /\ shown' = [shown EXCEPT ![q] = {cdb.cards[c.card].status}]
      /\ UNCHANGED <<vars, cdb, cdraft, held, told>>
      /\ c.kind = "issue" => FreshCard(c.card)
      /\ UNCHANGED <<db, lock>>
  BY <1>1 DEF ArriveCardWith, CardsInv, WantSuitsStep, vars
<1>4. /\ step \in [CardRequests -> CardSteps] /\ cdb \in CardDatabase
      /\ want \in [CardRequests -> CardMenu \union {NoCall}]
      /\ shown \in [CardRequests -> SUBSET Statuses]
  BY DEF CardsInv, CardTypeOK
<1>5. CardTypeOK'
  <2>1. cdb.cards[c.card].status \in Statuses
    BY <1>2, <1>4 DEF CardDatabase, CardRow
  <2> QED BY <1>3, <1>4, <2>1 DEF CardsInv, CardTypeOK, CardSteps
<1>6. WantSuitsStep'
  BY <1>2, <1>3, <1>4 DEF CardsInv, WantSuitsStep
<1>7. CardsAreFresh'
  <2>1. NoCall.kind # "issue"
    BY DEF NoCall
  <2>2. \A p \in CardRequests : want'[p] = IF p = q THEN c ELSE want[p]
    BY <1>3, <1>4
  <2>3. \A p \in CardRequests \ {q} : step'[p] = step[p]
    BY <1>3, <1>4
  <2>4. c.kind = "issue" => /\ ~ Seeded(c.card)
                            /\ \A p \in CardRequests : want[p].kind = "issue" =>
                                  want[p].card # c.card
                            /\ cdb.cards[c.card].life = "absent"
    BY <1>2, <1>3 DEF FreshCard, CardsInv, CardsAreFresh
  <2> QED BY <1>3, <2>1, <2>2, <2>3, <2>4 DEF CardsInv, CardsAreFresh
<1>8. CardTestsHold'
  BY <1>3, <1>4 DEF CardsInv, CardTestsHold
<1>9. ShownSoFar'
  BY <1>3, <1>4 DEF CardsInv, ShownSoFar, CardInFlight
<1>10. ToldStatusWasSet'
  <2>1. ASSUME NEW p \in CardRequests, told'[p] = "ok", want'[p].kind = "status"
        PROVE  want'[p].status \in shown'[p]
    <3>1. CASE p = q
      BY <1>3, <2>1, <3>1 DEF CardsInv, WantSuitsStep
    <3>2. CASE p # q
      BY <1>3, <1>4, <2>1, <3>2 DEF CardsInv, ToldStatusWasSet
    <3> QED BY <3>1, <3>2
  <2> QED BY <2>1 DEF ToldStatusWasSet
<1> QED BY <1>3, <1>5, <1>6, <1>7, <1>8, <1>9, <1>10, TablesStay DEF CardsInv

LEMMA CardRejectKeeps ==
    ASSUME CardsInv, NEW q \in CardRequests, NEW code \in Codes \ {"none", "ok"},
           CardReject(q, code),
           step[q] \in {"readAccount", "readCard", "readOwner", "write"}
    PROVE  CardsInv'
<1>1. /\ step' = [step EXCEPT ![q] = "answered"]
      /\ held' = [held EXCEPT ![q] = AbsentCard]
      /\ told' = [told EXCEPT ![q] = code]
      /\ UNCHANGED <<vars, db, lock, cdb, cdraft, want, shown>>
  BY DEF CardReject, CardAnswer, vars
<1>2. /\ step \in [CardRequests -> CardSteps] /\ told \in [CardRequests -> Codes]
      /\ held \in [CardRequests -> CardRow]
  BY DEF CardsInv, CardTypeOK
<1>3. CardTypeOK'
  <2>1. AbsentCard \in CardRow
    BY DEF AbsentCard, CardRow, Statuses
  <2> QED BY <1>1, <1>2, <2>1 DEF CardsInv, CardTypeOK, CardSteps
<1>4. WantSuitsStep' /\ CardsAreFresh'
  BY <1>1, <1>2 DEF CardsInv, WantSuitsStep, CardsAreFresh
<1>5. CardTestsHold'
  BY <1>1, <1>2 DEF CardsInv, CardTestsHold
<1>6. ShownSoFar'
  BY <1>1, <1>2 DEF CardsInv, ShownSoFar, CardInFlight
<1>7. ToldStatusWasSet'
  BY <1>1, <1>2 DEF CardsInv, ToldStatusWasSet
<1> QED BY <1>1, <1>3, <1>4, <1>5, <1>6, <1>7, TablesStay DEF CardsInv

\* A step that only reads, and goes on; what comes next must hold of what is read.
LEMMA CardReadKeeps ==
    ASSUME CardsInv, NEW q \in CardRequests, NEW next \in {"readOwner", "write"},
           NEW row \in CardRow, CardGoesOn(q, next), held' = [held EXCEPT ![q] = row],
           step[q] \in {"readAccount", "readCard", "readOwner"},
           next = "readOwner" => want[q].kind # "issue",
           want[q].kind = "issue" =>
              /\ db.accounts[want[q].account].status # "absent"
              /\ db.accounts[want[q].account].owner = want[q].user,
           want[q].kind # "issue" =>
              /\ cdb.cards[want[q].card].life # "absent"
              /\ row.account = cdb.cards[want[q].card].account
              /\ row.status \in shown[q]
              /\ next = "write" =>
                    db.accounts[cdb.cards[want[q].card].account].owner = want[q].user
    PROVE  CardsInv'
<1>1. /\ step' = [step EXCEPT ![q] = next]
      /\ UNCHANGED <<vars, db, lock, cdb, cdraft, want, told, shown>>
  BY DEF CardGoesOn, vars
<1>2. step \in [CardRequests -> CardSteps] /\ held \in [CardRequests -> CardRow]
  BY DEF CardsInv, CardTypeOK
<1>3. CardTypeOK'
  BY <1>1, <1>2 DEF CardsInv, CardTypeOK, CardSteps
<1>4. WantSuitsStep'
  BY <1>1, <1>2 DEF CardsInv, WantSuitsStep
<1>5. CardsAreFresh'
  <2>1. want[q].kind = "issue" => step[q] = "readAccount"
    BY DEF CardsInv, WantSuitsStep
  <2> QED BY <1>1, <1>2, <2>1 DEF CardsInv, CardsAreFresh
<1>6. CardTestsHold'
  <2>1. \A p \in CardRequests \ {q} : step'[p] = step[p] /\ held'[p] = held[p]
    BY <1>1, <1>2
  <2>2. step'[q] = next /\ held'[q] = row
    BY <1>1, <1>2
  <2>3. db' = db /\ cdb' = cdb /\ cdraft' = cdraft /\ want' = want /\ CardTestsHold
    BY <1>1 DEF CardsInv
  <2> DEFINE holds(p) ==
        /\ want[p].kind = "issue" /\ step[p] \in {"write", "commit"} =>
              /\ db.accounts[want[p].account].status # "absent"
              /\ db.accounts[want[p].account].owner = want[p].user
        /\ want[p].kind # "issue" /\ step[p] \in {"readOwner", "write", "commit"} =>
              /\ cdb.cards[want[p].card].life # "absent"
              /\ held[p].account = cdb.cards[want[p].card].account
        /\ want[p].kind # "issue" /\ step[p] \in {"write", "commit"} =>
              db.accounts[cdb.cards[want[p].card].account].owner = want[p].user
        /\ step[p] = "commit" => cdraft = WriteCards(cdb, want[p], held[p])
  <2>4. ASSUME NEW p \in CardRequests, p # q
        PROVE  holds(p)'
    <3>1. holds(p)
      BY <2>3 DEF CardTestsHold
    <3>2. step'[p] = step[p] /\ held'[p] = held[p]
      BY <2>1, <2>4
    <3> QED BY <2>3, <3>1, <3>2
  <2>5. holds(q)'
    BY <2>2, <2>3
  <2>6. \A p \in CardRequests : holds(p)'
    BY <2>4, <2>5
  <2> QED BY <2>6 DEF CardTestsHold
<1>7. ShownSoFar'
  <2>1. \A p \in CardRequests \ {q} : step'[p] = step[p] /\ held'[p] = held[p]
    BY <1>1, <1>2
  <2>2. step'[q] = next /\ held'[q] = row
    BY <1>1, <1>2
  <2>3. cdb.cards[want[q].card].status \in shown[q]
    BY DEF CardsInv, ShownSoFar, CardInFlight
  <2> QED BY <1>1, <2>1, <2>2, <2>3 DEF CardsInv, ShownSoFar, CardInFlight
<1>8. ToldStatusWasSet'
  BY <1>1 DEF CardsInv, ToldStatusWasSet
<1> QED BY <1>1, <1>3, <1>4, <1>5, <1>6, <1>7, <1>8, TablesStay DEF CardsInv

LEMMA ReadCardAccountKeeps ==
    ASSUME CardsInv, NEW q \in CardRequests, ReadCardAccount(q)
    PROVE  CardsInv'
<1>1. step[q] = "readAccount" /\ want[q].kind = "issue"
  BY DEF ReadCardAccount, CardsInv, WantSuitsStep
<1>2. CASE \E code \in Codes \ {"none", "ok"} : CardReject(q, code)
  BY SMTT(20), <1>1, <1>2, CardRejectKeeps
<1>3. CASE /\ db.accounts[want[q].account].status = "open"
           /\ db.accounts[want[q].account].owner = want[q].user
           /\ CardGoesOn(q, "write") /\ UNCHANGED held
  <2>1. held[q] \in CardRow /\ held' = [held EXCEPT ![q] = held[q]]
    BY <1>3 DEF CardsInv, CardTypeOK
  <2> QED BY <1>1, <1>3, <2>1, CardReadKeeps
<1> QED BY <1>2, <1>3 DEF ReadCardAccount, Codes

LEMMA ReadCardKeeps ==
    ASSUME CardsInv, NEW q \in CardRequests, ReadCard(q)
    PROVE  CardsInv'
<1> DEFINE row == cdb.cards[want[q].card]
<1>1. step[q] = "readCard" /\ want[q].kind # "issue" /\ want[q].card \in CardIds
  BY WantIsKnown, CardCallFields DEF ReadCard, CardsInv, WantSuitsStep
<1>2. CASE \E code \in Codes \ {"none", "ok"} : CardReject(q, code)
  BY SMTT(20), <1>1, <1>2, CardRejectKeeps
<1>3. CASE /\ row.life = "live" /\ held' = [held EXCEPT ![q] = row]
           /\ CardGoesOn(q, "readOwner")
  <2>1. row \in CardRow
    BY <1>1 DEF CardsInv, CardTypeOK, CardDatabase
  <2>2. row.status \in shown[q]
    BY <1>1 DEF CardsInv, ShownSoFar, CardInFlight
  <2> QED BY <1>1, <1>3, <2>1, <2>2, CardReadKeeps
<1> QED BY <1>2, <1>3 DEF ReadCard, Codes

LEMMA ReadOwnerKeeps ==
    ASSUME CardsInv, NEW q \in CardRequests, ReadOwner(q)
    PROVE  CardsInv'
<1>1. step[q] = "readOwner" /\ want[q].kind # "issue"
  BY DEF ReadOwner, CardsInv, WantSuitsStep
<1>2. CASE \E code \in Codes \ {"none", "ok"} : CardReject(q, code)
  BY <1>1, <1>2, CardRejectKeeps
<1>3. CASE /\ db.accounts[held[q].account].status = "open"
           /\ db.accounts[held[q].account].owner = want[q].user
           /\ CardGoesOn(q, "write") /\ UNCHANGED held
  <2>1. held[q] \in CardRow /\ held' = [held EXCEPT ![q] = held[q]]
    BY <1>3 DEF CardsInv, CardTypeOK
  <2>2. /\ cdb.cards[want[q].card].life # "absent"
        /\ held[q].account = cdb.cards[want[q].card].account
        /\ held[q].status \in shown[q]
    BY <1>1 DEF CardsInv, CardTestsHold, ShownSoFar
  <2> QED BY ZenonT(20), <1>1, <1>3, <2>1, <2>2, CardReadKeeps
<1> QED BY <1>2, <1>3 DEF ReadOwner, Codes

-----------------------------------------------------------------------------
(* The write, the commit and the crash.                                    *)

LEMMA WriteCardKeeps ==
    ASSUME CardsInv, NEW q \in CardRequests, WriteCard(q)
    PROVE  CardsInv'
<1>1. /\ step[q] = "write" /\ lock = NoRequest /\ lock' = q
      /\ cdraft' = WriteCards(cdb, want[q], held[q])
      /\ step' = [step EXCEPT ![q] = "commit"]
      /\ UNCHANGED <<db, draft, pc, call, copy, answer, cdb, want, held, told, shown>>
      /\ want[q] \in CardCalls
  BY WantIsKnown DEF WriteCard
<1>2. /\ step \in [CardRequests -> CardSteps] /\ held \in [CardRequests -> CardRow]
      /\ cdb \in CardDatabase
  BY DEF CardsInv, CardTypeOK
<1>3. \A p \in CardRequests : p \notin Requests /\ p # NoRequest /\ p \in Sessions
  BY CardRequestsAreOthers, NullsAreNull
<1>4. IInv'
  BY <1>1, <1>3, NobodyIsARequest, ForeignLockKeeps DEF CardsInv
<1>5. \A p \in CardRequests : step'[p] = IF p = q THEN "commit" ELSE step[p]
  BY <1>1, <1>2
<1>6. \A p \in CardRequests : step[p] # "commit"
  BY <1>1, <1>3 DEF CardsInv, CardTypeOK
<1>7. CardTypeOK'
  <2>1. cdraft' \in CardDatabase
    BY <1>1, <1>2, WrittenCard
  <2>2. step' \in [CardRequests -> CardSteps]
    BY <1>1, <1>2 DEF CardSteps
  <2>3. \A p \in CardRequests : lock' = p <=> step'[p] = "commit"
    BY <1>1, <1>5, <1>6
  <2> QED BY <1>1, <1>3, <2>1, <2>2, <2>3 DEF CardsInv, CardTypeOK
<1>8. WantSuitsStep' /\ CardsAreFresh'
  BY <1>1, <1>5 DEF CardsInv, WantSuitsStep, CardsAreFresh
<1>9. CardsHaveAccounts' /\ AuditTellsCards' /\ ToldStatusWasSet'
  BY <1>1, RowsStay DEF CardsInv, ToldStatusWasSet
<1>10. CardTestsHold'
  BY <1>1, <1>5, <1>6 DEF CardsInv, CardTestsHold
<1>11. ShownSoFar'
  BY <1>1, <1>5 DEF CardsInv, ShownSoFar, CardInFlight
<1> QED BY <1>4, <1>7, <1>8, <1>9, <1>10, <1>11 DEF CardsInv

LEMMA CardCrashKeeps ==
    ASSUME CardsInv, CardCrash
    PROVE  CardsInv'
<1>1. /\ Restart /\ lock' = NoRequest /\ db' = db
      /\ step' = [q \in CardRequests |-> IF CardInFlight(q) THEN "lost" ELSE step[q]]
      /\ held' = [q \in CardRequests |-> AbsentCard]
      /\ cdraft' = cdb /\ UNCHANGED <<cdb, want, told, shown>>
  BY DEF CardCrash, Restart
<1>2. IInv'
  BY <1>1, RestartKeeps DEF CardsInv
<1>3. /\ \A q \in CardRequests : /\ step'[q] \in {"unsent", "answered", "lost"}
                                 /\ step'[q] = "unsent" <=> step[q] = "unsent"
                                 /\ step[q] = "answered" => step'[q] = "answered"
      /\ \A q \in CardRequests : q # NoRequest
  BY <1>1, CardRequestsAreOthers, NullsAreNull DEF CardInFlight
<1>4. CardTypeOK'
  <2>1. AbsentCard \in CardRow
    BY DEF AbsentCard, CardRow, Statuses
  <2>2. step' \in [CardRequests -> CardSteps]
    BY <1>1, <1>3 DEF CardSteps
  <2> QED BY <1>1, <1>3, <2>1, <2>2 DEF CardsInv, CardTypeOK
<1>5. WantSuitsStep' /\ CardsAreFresh'
  BY <1>1, <1>3 DEF CardsInv, WantSuitsStep, CardsAreFresh
<1>6. CardsHaveAccounts' /\ AuditTellsCards' /\ ToldStatusWasSet'
  BY <1>1, RowsStay DEF CardsInv, ToldStatusWasSet
<1>7. CardTestsHold' /\ ShownSoFar'
  BY <1>3 DEF CardTestsHold, ShownSoFar, CardInFlight
<1> QED BY <1>2, <1>4, <1>5, <1>6, <1>7 DEF CardsInv

\* The commit of a card request is the write of its call to the committed tables.
LEMMA CommitWritesCards ==
    ASSUME CardsInv, NEW q \in CardRequests, CommitCard(q)
    PROVE  /\ step[q] = "commit" /\ lock = q /\ lock' = NoRequest
           /\ want[q] \in CardMenu /\ want[q] \in CardCalls /\ want[q].card \in CardIds
           /\ held[q] \in CardRow
           /\ cdb \in CardDatabase /\ cdb' = WriteCards(cdb, want[q], held[q])
           /\ cdraft' = cdb' /\ cdb' \in CardDatabase
           /\ want[q].kind = "issue" <=> cdb.cards[want[q].card].life = "absent"
           /\ step' = [step EXCEPT ![q] = "answered"]
           /\ held' = [held EXCEPT ![q] = AbsentCard]
           /\ told' = [told EXCEPT ![q] = "ok"]
           /\ UNCHANGED <<db, draft, pc, call, copy, answer, want>>
           /\ \A p \in CardRequests : p # q => step[p] # "commit"
<1>1. /\ step[q] = "commit" /\ lock' = NoRequest /\ cdb' = cdraft /\ cdraft' = cdraft
      /\ step' = [step EXCEPT ![q] = "answered"]
      /\ held' = [held EXCEPT ![q] = AbsentCard]
      /\ told' = [told EXCEPT ![q] = "ok"]
      /\ UNCHANGED <<db, draft, pc, call, copy, answer, want>>
  BY DEF CommitCard, Publish, CardAnswer
<1>2. /\ want[q] \in CardMenu /\ want[q] \in CardCalls /\ want[q].card \in CardIds
  BY <1>1, WantIsKnown, CardCallFields
<1>3. /\ lock = q /\ held[q] \in CardRow /\ cdb \in CardDatabase /\ cdraft \in CardDatabase
      /\ \A p \in CardRequests : p # q => step[p] # "commit"
  BY <1>1 DEF CardsInv, CardTypeOK
<1>4. cdraft = WriteCards(cdb, want[q], held[q])
  BY <1>1 DEF CardsInv, CardTestsHold
<1>5. want[q].kind = "issue" <=> cdb.cards[want[q].card].life = "absent"
  BY <1>1 DEF CardsInv, CardTestsHold, CardsAreFresh
<1> QED BY <1>1, <1>2, <1>3, <1>4, <1>5

LEMMA CommittedOwnersDidIt ==
    ASSUME CardsInv, NEW q \in CardRequests, CommitCard(q)
    PROVE  CardsHaveAccounts' /\ \A i \in DOMAIN cdb'.trail : OwnerDidIt(cdb', db'.accounts, i)
<1> DEFINE c == want[q]
           n == Len(cdb.trail) + 1
<1>1. /\ c \in CardCalls /\ held[q] \in CardRow /\ cdb \in CardDatabase
      /\ cdb' = WriteCards(cdb, c, held[q]) /\ db' = db /\ step[q] = "commit"
      /\ c.kind = "issue" <=> cdb.cards[c.card].life = "absent"
      /\ c.card \in CardIds
  BY CommitWritesCards
<1>2. /\ \A k \in CardIds : k # c.card => cdb'.cards[k] = cdb.cards[k]
      /\ cdb'.cards[c.card].life # "absent"
      /\ c.kind = "issue" => cdb'.cards[c.card].account = c.account
      /\ c.kind # "issue" => cdb'.cards[c.card].account = cdb.cards[c.card].account
  BY SMTT(20), <1>1, WrittenRow
<1>3. /\ c.kind = "issue" => c.account \in Accounts
      /\ db.accounts[cdb'.cards[c.card].account].owner = c.user
      /\ cdb'.cards[c.card].account \in Accounts
      /\ db.accounts[cdb'.cards[c.card].account].status # "absent"
  BY <1>1, <1>2, CardCallFields DEF CardsInv, CardTestsHold, CardsHaveAccounts
<1>4. /\ DOMAIN cdb'.trail = DOMAIN cdb.trail \union {n}
      /\ \A i \in DOMAIN cdb.trail : cdb'.trail[i] = cdb.trail[i]
      /\ cdb'.trail[n].card = c.card /\ cdb'.trail[n].user = c.user
  <2>1. CardAuditOf(c, held[q]).card = c.card /\ CardAuditOf(c, held[q]).user = c.user
    BY SMTT(20), <1>1, CardCallFields DEF CardAuditOf, Created
  <2> QED BY <1>1, <2>1, WrittenTrail
<1>5. ASSUME NEW i \in DOMAIN cdb.trail
      PROVE  /\ cdb.trail[i].card \in CardIds
             /\ cdb'.cards[cdb.trail[i].card].life # "absent"
             /\ cdb'.trail[i].user =
                   db.accounts[cdb'.cards[cdb'.trail[i].card].account].owner
  <2>1. cdb.trail[i] \in CardAudit
    BY <1>1 DEF CardDatabase
  <2>2. cdb.trail[i].card \in CardIds
    BY <2>1 DEF CardAudit
  <2>3. /\ cdb.cards[cdb.trail[i].card].life # "absent"
        /\ cdb.trail[i].user = db.accounts[cdb.cards[cdb.trail[i].card].account].owner
    BY SMTT(20) DEF CardsInv, CardsHaveAccounts, AuditTellsCards, OwnerDidIt
  <2>4. cdb'.cards[cdb.trail[i].card].account = cdb.cards[cdb.trail[i].card].account
    BY <1>1, <1>2, <2>2, <2>3
  <2> QED BY <1>2, <1>4, <2>2, <2>3, <2>4
<1>6. CardsHaveAccounts'
  <2>1. \A k \in CardIds : cdb'.cards[k].life # "absent" =>
           /\ cdb'.cards[k].account \in Accounts
           /\ db'.accounts[cdb'.cards[k].account].status # "absent"
    BY ZenonT(20), <1>1, <1>2, <1>3 DEF CardsInv, CardsHaveAccounts
  <2>2. \A i \in DOMAIN cdb'.trail : cdb'.cards[cdb'.trail[i].card].life # "absent"
    BY <1>2, <1>4, <1>5
  <2> QED BY <2>1, <2>2 DEF CardsHaveAccounts
<1>7. \A i \in DOMAIN cdb'.trail : OwnerDidIt(cdb', db'.accounts, i)
  BY ZenonT(20), <1>1, <1>3, <1>4, <1>5 DEF OwnerDidIt
<1> QED BY <1>6, <1>7

LEMMA CommitCardKeeps ==
    ASSUME CardsInv, NEW q \in CardRequests, CommitCard(q)
    PROVE  CardsInv'
<1> DEFINE c == want[q]
<1>1. /\ step[q] = "commit" /\ lock = q /\ lock' = NoRequest
      /\ c \in CardMenu /\ c \in CardCalls /\ c.card \in CardIds /\ held[q] \in CardRow
      /\ cdb \in CardDatabase /\ cdb' = WriteCards(cdb, c, held[q])
      /\ cdraft' = cdb' /\ cdb' \in CardDatabase
      /\ c.kind = "issue" <=> cdb.cards[c.card].life = "absent"
      /\ step' = [step EXCEPT ![q] = "answered"]
      /\ held' = [held EXCEPT ![q] = AbsentCard]
      /\ told' = [told EXCEPT ![q] = "ok"]
      /\ UNCHANGED <<db, draft, pc, call, copy, answer, want>>
      /\ \A p \in CardRequests : p # q => step[p] # "commit"
  BY CommitWritesCards
<1>2. /\ \A k \in CardIds : k # c.card => cdb'.cards[k] = cdb.cards[k]
      /\ cdb'.cards[c.card].life # "absent"
      /\ c.kind # "issue" =>
            /\ cdb'.cards[c.card].account = cdb.cards[c.card].account
            /\ cdb'.cards[c.card].status =
                  IF c.kind = "status" /\ c.status # held[q].status THEN c.status
                  ELSE cdb.cards[c.card].status
  BY <1>1, WrittenRow
<1>3. /\ step \in [CardRequests -> CardSteps] /\ held \in [CardRequests -> CardRow]
      /\ told \in [CardRequests -> Codes] /\ shown \in [CardRequests -> SUBSET Statuses]
      /\ want \in [CardRequests -> CardMenu \union {NoCall}]
  BY DEF CardsInv, CardTypeOK
<1>4. /\ \A p \in CardRequests : p \notin Requests /\ p # NoRequest
      /\ NoRequest \notin Requests
  BY CardRequestsAreOthers, NullsAreNull, NobodyIsARequest
<1>5. \A p \in CardRequests : p # q => step'[p] = step[p] /\ held'[p] = held[p]
  BY <1>1, <1>3
<1>6. /\ step'[q] = "answered"
      /\ told' = [told EXCEPT ![q] = "ok"]
  BY <1>1, <1>3
<1>7. shown' = [p \in CardRequests |->
                  IF CardInFlight(p) THEN shown[p] \union {cdb'.cards[want[p].card].status}
                                     ELSE shown[p]]
  BY <1>1 DEF CommitCard, Publish
<1>8. \A p \in CardRequests : CardInFlight(p) => want[p].card \in CardIds
  BY WantIsKnown, CardCallFields DEF CardInFlight
<1>9. IInv'
  BY <1>1, <1>4, ForeignLockKeeps DEF CardsInv
<1>10. CardTypeOK'
  <2>1. AbsentCard \in CardRow
    BY DEF AbsentCard, CardRow, Statuses
  <2>2. \A k \in CardIds : cdb'.cards[k].status \in Statuses
    BY <1>1 DEF CardDatabase, CardRow
  <2>3. shown' \in [CardRequests -> SUBSET Statuses]
    BY <1>3, <1>7, <1>8, <2>2
  <2>4. /\ step' \in [CardRequests -> CardSteps] /\ told' \in [CardRequests -> Codes]
        /\ held' \in [CardRequests -> CardRow]
    BY <1>1, <1>3, <2>1 DEF CardSteps, Codes
  <2>5. \A p \in CardRequests : lock' = p <=> step'[p] = "commit"
    BY <1>1, <1>4, <1>5, <1>6
  <2> QED BY <1>1, <1>3, <2>3, <2>4, <2>5 DEF CardTypeOK
<1>11. WantSuitsStep'
  BY <1>1, <1>5, <1>6 DEF CardsInv, WantSuitsStep
<1>12. CardsAreFresh'
  <2>1. ASSUME NEW k \in CardIds, cdb'.cards[k].life # "absent", ~ Seeded(k)
        PROVE  \E p \in CardRequests : want'[p].kind = "issue" /\ want'[p].card = k
    <3>1. CASE k = c.card /\ c.kind = "issue"
      BY <1>1, <3>1
    <3>2. CASE ~ (k = c.card /\ c.kind = "issue")
      <4>1. cdb.cards[k].life # "absent"
        BY <1>1, <1>2, <2>1, <3>2
      <4> QED BY <1>1, <2>1, <4>1 DEF CardsInv, CardsAreFresh
    <3> QED BY <3>1, <3>2
  <2>2. ASSUME NEW p \in CardRequests, want[p].kind = "issue",
               step'[p] \in {"readAccount", "write", "commit"}
        PROVE  cdb'.cards[want[p].card].life = "absent"
    <3>1. p # q /\ step[p] = step'[p]
      BY <1>5, <1>6, <2>2
    <3>2. cdb.cards[want[p].card].life = "absent" /\ want[p].card \in CardIds
      BY <1>8, <2>2, <3>1 DEF CardsInv, CardsAreFresh, CardInFlight
    <3>3. want[p].card # c.card
      BY SMTT(20), <1>1, <2>2, <3>1, <3>2 DEF CardsInv, CardsAreFresh
    <3> QED BY <1>2, <3>2, <3>3
  <2> QED BY <1>1, <2>1, <2>2 DEF CardsInv, CardsAreFresh
<1>13. CardsHaveAccounts' /\ AuditTellsCards'
  <2>1. \A k \in CardIds : TrailTells(cdb', k)
    BY <1>1, WrittenTrailTells DEF CardsInv, AuditTellsCards
  <2>2. CardsHaveAccounts' /\ \A i \in DOMAIN cdb'.trail : OwnerDidIt(cdb', db'.accounts, i)
    BY CommittedOwnersDidIt
  <2> QED BY <2>1, <2>2 DEF AuditTellsCards, TrailTells, OwnerDidIt, Changes, Deletions
<1>14. CardTestsHold'
  <2> SUFFICES ASSUME NEW p \in CardRequests, p # q
               PROVE  /\ want[p].kind = "issue" /\ step[p] \in {"write", "commit"} =>
                            /\ db.accounts[want[p].account].status # "absent"
                            /\ db.accounts[want[p].account].owner = want[p].user
                      /\ want[p].kind # "issue"
                            /\ step[p] \in {"readOwner", "write", "commit"} =>
                            /\ cdb'.cards[want[p].card].life # "absent"
                            /\ held[p].account = cdb'.cards[want[p].card].account
                      /\ want[p].kind # "issue" /\ step[p] \in {"write", "commit"} =>
                            db.accounts[cdb'.cards[want[p].card].account].owner
                               = want[p].user
    BY <1>1, <1>5, <1>6 DEF CardTestsHold
  <2>1. want[p].kind # "issue" /\ step[p] \in {"readOwner", "write", "commit"} =>
           /\ cdb'.cards[want[p].card].life # "absent"
           /\ cdb'.cards[want[p].card].account = cdb.cards[want[p].card].account
    BY <1>1, <1>2, <1>8 DEF CardsInv, CardTestsHold, CardInFlight
  <2> QED BY SMTT(20), <2>1 DEF CardsInv, CardTestsHold
<1>15. ShownSoFar'
  BY <1>1, <1>5, <1>6, <1>7, <1>8 DEF CardsInv, ShownSoFar, CardInFlight
<1>16. ToldStatusWasSet'
  <2>1. ASSUME c.kind = "status"
        PROVE  c.status \in shown'[q]
    <3>1. shown'[q] = shown[q] \union {cdb'.cards[c.card].status}
      BY <1>1, <1>7 DEF CardInFlight
    <3>2. held[q].status \in shown[q]
      BY <1>1, <2>1 DEF CardsInv, ShownSoFar
    <3> QED BY <1>2, <2>1, <3>1, <3>2
  <2>2. \A p \in CardRequests : p # q => told'[p] = told[p] /\ shown[p] \subseteq shown'[p]
    BY <1>3, <1>6, <1>7
  <2> QED BY <1>1, <2>1, <2>2 DEF CardsInv, ToldStatusWasSet
<1> QED BY <1>9, <1>10, <1>11, <1>12, <1>13, <1>14, <1>15, <1>16 DEF CardsInv

-----------------------------------------------------------------------------
(* The initial states, and all steps.                                      *)

\* Each card of the seed has one audit row, its creation by the account's owner.
LEMMA SeedTells ==
    ASSUME NEW k \in CardIds
    PROVE  TrailTells(SeedCards, k)
<1> DEFINE d == SeedCards
<1>1. /\ DOMAIN d.trail = DOMAIN CardSeed
      /\ \A i \in DOMAIN CardSeed :
            d.trail[i] = Created(Seed[CardSeed[i].account].owner, CardSeed[i].card)
      /\ d.cards[k] = IF Seeded(k) THEN NewCard(SeedCard(k).account) ELSE AbsentCard
  BY DEF SeedCards
<1>2. \A i \in DOMAIN CardSeed :
         /\ d.trail[i].card = CardSeed[i].card /\ d.trail[i].old = "none"
         /\ d.trail[i].new = "ACTIVE" /\ d.trail[i].action = "card.created"
  <2>1. \A u, x : /\ Created(u, x).card = x /\ Created(u, x).old = "none"
                  /\ Created(u, x).new = "ACTIVE"
                  /\ Created(u, x).action = "card.created"
    BY DEF Created
  <2> QED BY <1>1, <2>1
<1> SUFFICES TrailTells(d, k)
  OBVIOUS
<1> HIDE DEF d
<1>3. /\ Changes(d, k) = {i \in DOMAIN CardSeed : CardSeed[i].card = k}
      /\ Deletions(d, k) = {}
  BY <1>1, <1>2 DEF Changes, Deletions
<1>4. CASE ~ Seeded(k)
  <2>1. Changes(d, k) = {} /\ d.cards[k].life = "absent"
    BY <1>1, <1>3, <1>4 DEF Seeded, AbsentCard
  <2> QED BY <1>3, <2>1 DEF TrailTells
<1>5. CASE Seeded(k)
  <2>1. PICK i \in DOMAIN CardSeed : CardSeed[i].card = k
    BY <1>5 DEF Seeded
  <2>2. Changes(d, k) = {i} /\ i \in Nat
    BY <1>3, <2>1, CardSeedIsOfCards
  <2>3. d.cards[k].life = "live" /\ d.cards[k].status = "ACTIVE"
    BY <1>1, <1>5 DEF NewCard
  <2> QED BY <1>2, <1>3, <2>1, <2>2, <2>3 DEF TrailTells
<1> QED BY <1>4, <1>5

LEMMA SeedIsCardDatabase ==
    /\ SeedCards \in CardDatabase
    /\ \A i \in DOMAIN CardSeed :
          /\ CardSeed[i].card \in CardIds /\ CardSeed[i].account \in DOMAIN Seed
          /\ CardSeed[i].account \in Accounts
          /\ Seed[CardSeed[i].account].owner \in Users
    /\ \A k \in CardIds : Seeded(k) =>
          \E i \in DOMAIN CardSeed : CardSeed[i].card = k /\ SeedCard(k) = CardSeed[i]
<1>1. ASSUME NEW i \in DOMAIN CardSeed
      PROVE  /\ CardSeed[i].card \in CardIds /\ CardSeed[i].account \in DOMAIN Seed
             /\ CardSeed[i].account \in Accounts
             /\ Seed[CardSeed[i].account].owner \in Users
  <2> DEFINE Cards == [card : CardIds, account : DOMAIN Seed]
  <2>1. CardSeed \in Seq(Cards)
    BY CardSeedIsOfCards
  <2>2. CardSeed[i] \in Cards
    <3> HIDE DEF Cards
    <3> QED BY <2>1
  <2> QED BY <2>2, SeedIsOfAccounts
<1>2. ASSUME NEW k \in CardIds, Seeded(k)
      PROVE  \E i \in DOMAIN CardSeed : CardSeed[i].card = k /\ SeedCard(k) = CardSeed[i]
  BY <1>2 DEF Seeded, SeedCard
<1>3. \A k \in CardIds : Seeded(k) => SeedCard(k).account \in Accounts
  BY <1>1, <1>2
<1>4. SeedCards.cards \in [CardIds -> CardRow]
  <2>1. AbsentCard \in CardRow /\ \A a \in Accounts : NewCard(a) \in CardRow
    BY DEF AbsentCard, NewCard, CardRow, Statuses
  <2> QED BY <1>3, <2>1 DEF SeedCards
<1>5. SeedCards.trail \in Seq(CardAudit)
  <2>1. \A i \in DOMAIN CardSeed :
           Created(Seed[CardSeed[i].account].owner, CardSeed[i].card) \in CardAudit
    BY <1>1 DEF Created, CardAudit, Statuses
  <2>2. DOMAIN CardSeed = 1..Len(CardSeed) /\ Len(CardSeed) \in Nat
    BY CardSeedIsOfCards
  <2> QED BY <2>1, <2>2 DEF SeedCards
<1>6. SeedCards = [cards |-> SeedCards.cards, trail |-> SeedCards.trail]
  BY DEF SeedCards
<1>7. SeedCards \in CardDatabase
  BY <1>4, <1>5, <1>6 DEF CardDatabase
<1> QED BY <1>1, <1>2, <1>7

LEMMA CardInitKeeps == CardInit => CardsInv
<1> SUFFICES ASSUME CardInit PROVE CardsInv
  OBVIOUS
<1>1. /\ Init /\ cdb = SeedCards /\ cdraft = SeedCards /\ lock = NoRequest
      /\ db = SeedDatabase
      /\ step = [q \in CardRequests |-> "unsent"]
      /\ want = [q \in CardRequests |-> NoCall]
      /\ held = [q \in CardRequests |-> AbsentCard]
      /\ told = [q \in CardRequests |-> "none"]
      /\ shown = [q \in CardRequests |-> {}]
  BY DEF CardInit, Init
<1>2. /\ \A q \in CardRequests : q # NoRequest
      /\ NoCall.kind \notin {"issue", "status", "delete"}
  BY CardRequestsAreOthers, NullsAreNull DEF NoCall
<1>3. CardTypeOK
  <2>1. AbsentCard \in CardRow
    BY DEF AbsentCard, CardRow, Statuses
  <2> QED BY <1>1, <1>2, <2>1, SeedIsCardDatabase DEF CardTypeOK, CardSteps, Codes
<1>4. WantSuitsStep
  BY <1>1 DEF WantSuitsStep
<1>5. CardsAreFresh
  <2>1. \A k \in CardIds : SeedCards.cards[k].life = "absent" \/ Seeded(k)
    BY DEF SeedCards, AbsentCard
  <2> QED BY <1>1, <1>2, <2>1 DEF CardsAreFresh
<1>6. \A i \in DOMAIN CardSeed :
         /\ SeedCards.cards[CardSeed[i].card].life = "live"
         /\ SeedCards.cards[CardSeed[i].card].account = CardSeed[i].account
  <2> SUFFICES ASSUME NEW i \in DOMAIN CardSeed
               PROVE  SeedCards.cards[CardSeed[i].card] = NewCard(CardSeed[i].account)
    <3>1. \A a : NewCard(a).life = "live" /\ NewCard(a).account = a
      BY DEF NewCard
    <3> HIDE DEF NewCard
    <3> QED BY <3>1
  <2>1. CardSeed[i].card \in CardIds /\ Seeded(CardSeed[i].card)
    BY SeedIsCardDatabase DEF Seeded
  <2>2. SeedCard(CardSeed[i].card) = CardSeed[i]
    BY <2>1, SeedIsCardDatabase, CardSeedIsOfCards
  <2> QED BY <2>1, <2>2 DEF SeedCards
<1>7. \A a \in DOMAIN Seed \intersect Accounts :
         /\ db.accounts[a].status = "open" /\ db.accounts[a].owner = Seed[a].owner
  BY <1>1 DEF SeedDatabase, SeedRow
<1>8. /\ DOMAIN cdb.trail = DOMAIN CardSeed
      /\ \A i \in DOMAIN CardSeed :
            /\ cdb.trail[i].card = CardSeed[i].card
            /\ cdb.trail[i].user = Seed[CardSeed[i].account].owner
  BY <1>1 DEF SeedCards, Created
<1>9. CardsHaveAccounts
  <2>1. ASSUME NEW k \in CardIds, cdb.cards[k].life # "absent"
        PROVE  /\ cdb.cards[k].account \in Accounts
               /\ db.accounts[cdb.cards[k].account].status # "absent"
    <3>1. Seeded(k)
      BY <1>1, <2>1 DEF SeedCards, AbsentCard
    <3>2. PICK i \in DOMAIN CardSeed : CardSeed[i].card = k
      BY <3>1 DEF Seeded
    <3>3. cdb.cards[k].account = CardSeed[i].account
      BY <1>1, <1>6, <3>2
    <3> QED BY <1>7, <3>3, SeedIsCardDatabase
  <2>2. \A i \in DOMAIN cdb.trail : cdb.cards[cdb.trail[i].card].life # "absent"
    BY <1>1, <1>6, <1>8
  <2> QED BY <2>1, <2>2 DEF CardsHaveAccounts
<1>10. CardTestsHold
  BY <1>1 DEF CardTestsHold
<1>11. ShownSoFar
  BY <1>1 DEF ShownSoFar, CardInFlight
<1>12. AuditTellsCards
  <2>1. \A i \in DOMAIN cdb.trail : OwnerDidIt(cdb, db.accounts, i)
    BY <1>1, <1>6, <1>7, <1>8, SeedIsCardDatabase DEF OwnerDidIt
  <2> QED BY <1>1, <2>1, SeedTells DEF AuditTellsCards
<1>13. ToldStatusWasSet
  BY <1>1 DEF ToldStatusWasSet
<1> QED BY <1>1, <1>3, <1>4, <1>5, <1>9, <1>10, <1>11, <1>12, <1>13, InitInvariant
        DEF CardsInv

LEMMA CardNextKeeps == CardsInv /\ [CardNext]_cvars => CardsInv'
<1> SUFFICES ASSUME CardsInv, [CardNext]_cvars PROVE CardsInv'
  OBVIOUS
<1>1. ASSUME NEW q \in CardRequests, ArriveCard(q) PROVE CardsInv'
  BY <1>1, ArriveCardKeeps
<1>2. ASSUME NEW q \in CardRequests, HandleCard(q) PROVE CardsInv'
  <2>1. CASE ReadCardAccount(q)
    BY <2>1, ReadCardAccountKeeps
  <2>2. CASE ReadCard(q)
    BY <2>2, ReadCardKeeps
  <2>3. CASE ReadOwner(q)
    BY <2>3, ReadOwnerKeeps
  <2>4. CASE WriteCard(q)
    BY <2>4, WriteCardKeeps
  <2>5. CASE CardBusyTimeout(q)
    BY <2>5, CardRejectKeeps DEF CardBusyTimeout, Codes
  <2>6. CASE CommitCard(q)
    BY <2>6, CommitCardKeeps
  <2> QED BY <1>2, <2>1, <2>2, <2>3, <2>4, <2>5, <2>6 DEF HandleCard
<1>3. ASSUME NEW r \in Requests, LedgerStep(r) PROVE CardsInv'
  BY <1>3, LedgerStepKeeps
<1>4. CASE CardCrash
  BY <1>4, CardCrashKeeps
<1>5. CASE UNCHANGED cvars
  <2>1. UNCHANGED <<db, vars, cdb, cdraft, cardRequestVars>> /\ UNCHANGED lock
    BY <1>5 DEF cvars, vars
  <2>2. IInv' /\ OwnersStay
    BY <2>1, TablesStay DEF OwnersStay
  <2> QED BY <2>1, <2>2, LedgerStepKeepsCards
<1> QED BY <1>1, <1>2, <1>3, <1>4, <1>5 DEF CardNext, CardRest

-----------------------------------------------------------------------------
(* The theorems.                                                           *)

THEOREM CardsInvariant == CardSpec => []CardsInv
<1> QED BY CardInitKeeps, CardNextKeeps, PTL DEF CardSpec

\* The money routes keep their invariant while card requests take and release
\* the write lock that they share, and while both are stopped by a restart.
THEOREM LedgerBesideCards == CardSpec => []IInv
<1>1. CardsInv => IInv
  BY DEF CardsInv
<1> QED BY <1>1, CardsInvariant, PTL

\* The variables keep their types, and a card request holds the lock exactly
\* while it has something to commit.
THEOREM CardTypesCorrect == CardSpec => []CardTypeOK
<1>1. CardsInv => CardTypeOK
  BY DEF CardsInv
<1> QED BY <1>1, CardsInvariant, PTL

\* The audit trail tells the state of every card, though rows of cards have no
\* version and requests record what they read before others committed.
THEOREM CardsTrailIsTrue == CardSpec => []AuditTellsCards
<1>1. CardsInv => AuditTellsCards
  BY DEF CardsInv
<1> QED BY <1>1, CardsInvariant, PTL

\* Whoever is told that a status was set, it was the status at some instant of
\* the request.
THEOREM ToldStatusIsTrue == CardSpec => []ToldStatusWasSet
<1>1. CardsInv => ToldStatusWasSet
  BY DEF CardsInv
<1> QED BY <1>1, CardsInvariant, PTL

\* The old status of an audit row is never older than the request that writes it.
THEOREM OldStatusIsRecent == CardSpec => []OldStatusWasShown
<1>1. ASSUME CardsInv, NEW q \in CardRequests,
             step[q] = "commit", want[q].kind = "status"
      PROVE  cdraft.trail[Len(cdraft.trail)].old \in shown[q]
  <2>1. cdraft = WriteCards(cdb, want[q], held[q]) /\ held[q].status \in shown[q]
    BY <1>1 DEF CardsInv, CardTestsHold, ShownSoFar
  <2>2. cdb \in CardDatabase
    BY <1>1 DEF CardsInv, CardTypeOK
  <2>3. cdb.trail \in Seq(CardAudit)
    BY <2>2 DEF CardDatabase
  <2>4. cdraft.trail = Append(cdb.trail, CardAuditOf(want[q], held[q]))
    BY <2>1 DEF WriteCards
  <2>5. cdraft.trail[Len(cdraft.trail)] = CardAuditOf(want[q], held[q])
    <3> HIDE DEF CardAuditOf
    <3> DEFINE new == CardAuditOf(want[q], held[q])
    <3>1. cdraft.trail = Append(cdb.trail, new)
      BY <2>4
    <3> HIDE DEF new
    <3>2. cdraft.trail[Len(cdraft.trail)] = new
      BY <2>3, <3>1
    <3> QED BY <3>2 DEF new
  <2>6. CardAuditOf(want[q], held[q]).old = held[q].status
    BY <1>1 DEF CardAuditOf
  <2> QED BY <2>1, <2>5, <2>6
<1>2. CardsInv => OldStatusWasShown
  BY <1>1 DEF OldStatusWasShown
<1> QED BY <1>2, CardsInvariant, PTL

LEMMA OnlyCommitsChangeCards ==
    ASSUME [CardNext]_cvars
    PROVE  cdb' = cdb \/ \E q \in CardRequests : CommitCard(q)
<1> SUFFICES ASSUME \A q \in CardRequests : ~ CommitCard(q)
             PROVE  cdb' = cdb
  OBVIOUS
<1> QED BY ZenonT(20) DEF CardNext, ArriveCard, ArriveCardWith, HandleCard, ReadCardAccount,
    ReadCard, ReadOwner, WriteCard, CardBusyTimeout, CardReject, CardGoesOn, LedgerStep,
    CardCrash, CardRest, cvars

\* A deleted card never comes back, and no card moves to another account,
\* whatever the requests that have read it earlier write to its row.
THEOREM DeletedCardsRest == CardSpec => DeletedStaysDeleted
<1>1. ASSUME CardsInv, [CardNext]_cvars
      PROVE  CardsStay
  <2>1. CASE cdb' = cdb
    BY <2>1 DEF CardsStay
  <2>2. ASSUME NEW q \in CardRequests, CommitCard(q)
        PROVE  CardsStay
    <3> DEFINE c == want[q]
    <3>1. /\ c \in CardCalls /\ c.card \in CardIds /\ held[q] \in CardRow
          /\ cdb \in CardDatabase /\ cdb' = WriteCards(cdb, c, held[q])
          /\ c.kind = "issue" <=> cdb.cards[c.card].life = "absent"
      BY <1>1, <2>2, CommitWritesCards
    <3>2. /\ \A k \in CardIds : k # c.card => cdb'.cards[k] = cdb.cards[k]
          /\ cdb'.cards[c.card].life # "absent"
          /\ c.kind # "issue" =>
                /\ cdb'.cards[c.card].account = cdb.cards[c.card].account
                /\ cdb.cards[c.card].life = "deleted" =>
                      cdb'.cards[c.card].life = "deleted"
      BY <3>1, WrittenRow
    <3> QED BY <3>1, <3>2 DEF CardsStay
  <2> QED BY <1>1, <2>1, <2>2, OnlyCommitsChangeCards
<1> QED BY <1>1, CardsInvariant, PTL DEF CardSpec, DeletedStaysDeleted

-----------------------------------------------------------------------------
(* The promises of the money routes hold beside the card routes.           *)

\* What a step of the whole server is for the money routes: one of their own
\* steps, the loss of all of their requests at once, or nothing but a change of
\* the lock that they share with the card routes.
LEMMA CardStepsForLedger ==
    ASSUME [CardNext]_cvars
    PROVE  \/ [Next]_vars
           \/ Restart
           \/ UNCHANGED <<db, draft, pc, call, copy, answer>>
<1>1. ASSUME NEW q \in CardRequests, ArriveCard(q)
      PROVE  UNCHANGED vars
  BY <1>1 DEF ArriveCard, ArriveCardWith
<1>2. ASSUME NEW q \in CardRequests, HandleCard(q)
      PROVE  UNCHANGED <<db, draft, pc, call, copy, answer>>
  <2>1. CASE ReadCardAccount(q) \/ ReadCard(q) \/ ReadOwner(q) \/ CardBusyTimeout(q)
    BY <2>1 DEF ReadCardAccount, ReadCard, ReadOwner, CardBusyTimeout, CardReject,
                CardGoesOn, vars
  <2>2. CASE WriteCard(q) \/ CommitCard(q)
    BY <2>2 DEF WriteCard, CommitCard
  <2> QED BY <1>2, <2>1, <2>2 DEF HandleCard
<1>3. ASSUME NEW r \in Requests, LedgerStep(r)
      PROVE  Next
  BY <1>3 DEF LedgerStep, Next
<1>4. CASE CardCrash
  BY <1>4 DEF CardCrash
<1>5. CASE UNCHANGED cvars
  BY <1>5 DEF cvars
<1> QED BY <1>1, <1>2, <1>3, <1>4, <1>5 DEF CardNext, CardRest

\* What the promises rest on.
LedgerSide == CardsInv /\ TablesAgree /\ AnswerSuitsStep

LEMMA CardInitLedgerSide == CardInit => LedgerSide
BY CardInitKeeps, InitTablesAgree, InitAnswers DEF CardInit, LedgerSide

LEMMA CardNextLedgerSide == LedgerSide /\ [CardNext]_cvars => LedgerSide'
<1> SUFFICES ASSUME LedgerSide, [CardNext]_cvars PROVE LedgerSide'
  OBVIOUS
<1>1. CardsInv' /\ IInv
  BY CardNextKeeps DEF LedgerSide, CardsInv
<1>2. CASE [Next]_vars
  BY <1>1, <1>2, StepTablesAgree, StepAnswers DEF LedgerSide
<1>3. CASE Restart
  <2>1. UNCHANGED db
    BY <1>3 DEF Restart
  <2> QED BY <1>1, <1>3, <2>1, TablesStillAgree, RestartAnswers DEF LedgerSide
<1>4. CASE UNCHANGED <<db, draft, pc, call, copy, answer>>
  <2>1. AnswerSuitsStep'
    BY <1>4 DEF LedgerSide, AnswerSuitsStep
  <2> QED BY <1>1, <1>4, <2>1, TablesStillAgree DEF LedgerSide
<1> QED BY <1>2, <1>3, <1>4, CardStepsForLedger

LEMMA LedgerSideAlways == CardSpec => []LedgerSide
BY CardInitLedgerSide, CardNextLedgerSide, PTL DEF CardSpec

\* Beside the card routes, too, every transfer is whole, no idempotency key moves
\* money twice, and the audit trail holds exactly what was opened, closed and
\* transferred: a card request that holds the lock, and a restart that takes
\* away the requests of all routes, leave no half of a transfer behind.
THEOREM TablesAgreeBesideCards ==
    CardSpec => [](TransfersPaired /\ OneTransferPerKey /\ AuditTellsEffects)
<1>1. LedgerSide => TransfersPaired /\ OneTransferPerKey /\ AuditTellsEffects
  BY DEF LedgerSide, TablesAgree
<1> QED BY <1>1, LedgerSideAlways, PTL

\* Beside the card routes, too, every committed balance is explained by the
\* transactions of the account, and a closed account is empty.
THEOREM BalancesBesideCards == CardSpec => [](LedgerChain /\ ClosedIsEmpty)
<1>1. IInv => LedgerChain /\ ClosedIsEmpty
  BY DEF IInv
<1> QED BY <1>1, LedgerBesideCards, PTL

LEMMA CardStepAppends == LedgerSide /\ [CardNext]_cvars => AppendsOnly /\ ClosedStay
<1> SUFFICES ASSUME LedgerSide, [CardNext]_cvars PROVE AppendsOnly /\ ClosedStay
  OBVIOUS
<1>1. IInv
  BY DEF LedgerSide, CardsInv
<1>2. CASE [Next]_vars
  BY <1>1, <1>2, StepAppends
<1>3. CASE Restart \/ UNCHANGED <<db, draft, pc, call, copy, answer>>
  <2>1. UNCHANGED db
    BY <1>3 DEF Restart
  <2> QED BY <1>1, <2>1, NothingCommitted
<1> QED BY <1>2, <1>3, CardStepsForLedger

\* No step of the whole server rewrites or removes a committed transaction,
\* transfer or audit row of the money routes.
THEOREM NothingIsRewrittenBesideCards == CardSpec => LedgerOnlyGrows
<1>1. LedgerSide /\ [CardNext]_cvars => [AppendsOnly]_vars
  BY CardStepAppends
<1> QED BY <1>1, LedgerSideAlways, PTL DEF CardSpec, LedgerOnlyGrows

\* No request of any route changes an account, or its ledger, after it is closed.
THEOREM ClosedAccountsRestBesideCards == CardSpec => ClosedIsFinal
<1>1. LedgerSide /\ [CardNext]_cvars => [ClosedStay]_vars
  BY CardStepAppends
<1> QED BY <1>1, LedgerSideAlways, PTL DEF CardSpec, ClosedIsFinal

LEMMA CardStepImplements ==
    LedgerSide /\ [CardNext]_cvars => [Promise!Next]_(Promise!bankVars)
<1> SUFFICES ASSUME LedgerSide, [CardNext]_cvars
             PROVE  [Promise!Next]_(Promise!bankVars)
  OBVIOUS
<1>1. IInv /\ TablesAgree /\ AnswerSuitsStep
  BY DEF LedgerSide, CardsInv
<1>2. CASE [Next]_vars
  BY <1>1, <1>2, StepImplements
<1>3. CASE Restart
  BY <1>1, <1>3, RestartRefuses
<1>4. CASE UNCHANGED <<db, draft, pc, call, copy, answer>>
  <2>1. \A r \in Requests : OutcomeOf(r)' = OutcomeOf(r)
    BY <1>4 DEF OutcomeOf
  <2> QED BY <1>4, <2>1, OutcomesUnchanged
<1> QED BY <1>2, <1>3, <1>4, CardStepsForLedger

\* The money routes keep the promise of Bank although the card routes share their
\* database, their write lock and their crashes: what the card routes do is a
\* stutter for Bank, and a restart refuses whatever is pending.
THEOREM BankBesideCards == CardSpec => KeepsPromise
<1>1. CardInit => Promise!Init
  BY InitImplements DEF CardInit
<1> QED BY <1>1, LedgerSideAlways, CardStepImplements, PTL
        DEF CardSpec, KeepsPromise, Promise!Spec
=============================================================================
