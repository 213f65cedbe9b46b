---------------------------- MODULE LedgerPromises ---------------------------
(***************************************************************************)
(* What the routes of Ledger promise, proved for every value of the        *)
(* constants from IInv: the tables of transfers and of the audit trail     *)
(* agree with the ledger, nothing committed is changed later, and Ledger   *)
(* implements Bank.                                                        *)
(*                                                                         *)
(* The committed database changes in one step only, the commit, and there  *)
(* by a call that passes its tests on the rows as they are (CommitIsResult *)
(* of LedgerProofs).  So the first part is about Result alone.             *)
(***************************************************************************)
EXTENDS LedgerProofs

\* The transaction that call c adds to the ledger of account a.
EntryOf(d, c, a) == NewEntry(RowsWritten(d, c), c, a)

TransferOf(d, c) ==
    [key |-> c.key, amount |-> c.amount,
     from |-> PlaceIn(d, c.account), to |-> PlaceIn(d, c.to)]

LEMMA LedgerOfResult ==
    ASSUME NEW d \in Database, NEW c \in Calls, Passes(d.accounts, c),
           NEW a \in Accounts
    PROVE  /\ d.ledger[a] \in Seq(Entry)
           /\ Result(d, c).ledger[a] =
                 IF a \in Touched(c) /\ c.kind \notin {"open", "close"}
                 THEN Append(d.ledger[a], EntryOf(d, c, a))
                 ELSE d.ledger[a]
<1>1. d.ledger[a] \in Seq(Entry)
  BY DEF Database
<1>2. RowsWritten(d, c) \in Database /\ RowsWritten(d, c).ledger = d.ledger
  BY ResultType DEF RowsWritten, WriteRows, Database
<1>3. EntriesWritten(d, c).ledger =
         [b \in Accounts |-> IF b \in Touched(c)
                             THEN Append(d.ledger[b], EntryOf(d, c, b))
                             ELSE d.ledger[b]]
  BY <1>2 DEF EntriesWritten, WriteEntries, EntryOf, Database
<1> QED BY <1>1, <1>3, TablesOfResult

\* What a transaction of a transfer says.
LEMMA EntryOfTransfer ==
    ASSUME NEW d \in Database, NEW c \in Calls, Passes(d.accounts, c),
           NEW a \in Touched(c)
    PROVE  /\ EntryOf(d, c, a).amount = c.amount
           /\ c.kind \in {"deposit", "withdraw"} =>
                 EntryOf(d, c, a).kind \notin {"out", "in"}
           /\ c.kind = "transfer" =>
                 /\ EntryOf(d, c, a).kind = IF a = c.account THEN "out" ELSE "in"
                 /\ EntryOf(d, c, a).key = c.key
                 /\ EntryOf(d, c, a).peer =
                       PlaceIn(d, IF a = c.account THEN c.to ELSE c.account)
<1>1. RowsWritten(d, c).ledger = d.ledger
  BY DEF RowsWritten, WriteRows, Database
<1> QED BY <1>1 DEF EntryOf, NewEntry, KindOf, PlaceIn

LEMMA TransfersOfResult ==
    ASSUME NEW d \in Database, NEW c \in Calls, Passes(d.accounts, c)
    PROVE  Result(d, c).transfers =
              IF c.kind = "transfer" THEN d.transfers \union {TransferOf(d, c)}
                                     ELSE d.transfers
<1>1. /\ RowsWritten(d, c) \in Database
      /\ RowsWritten(d, c).transfers = d.transfers
      /\ RowsWritten(d, c).ledger = d.ledger
  BY ResultType DEF RowsWritten, WriteRows, Database
<1>2. CASE c.kind \in {"deposit", "withdraw"}
  BY <1>1, <1>2 DEF Result, EntriesWritten, WriteEntries, Database
<1>3. CASE c.kind \in {"open", "close"}
  BY <1>1, <1>3 DEF Result, BeforeAudit, WriteAudit, Database
<1>4. CASE c.kind = "transfer"
  <2> DEFINE e == EntriesWritten(d, c)
  <2>1. e \in Database /\ e.transfers = d.transfers
    BY <1>1, <1>4, ResultType DEF EntriesWritten, WriteEntries, Database
  <2>2. \A a \in Touched(c) : Len(e.ledger[a]) = Len(d.ledger[a]) + 1
    <3> SUFFICES ASSUME NEW a \in Touched(c)
                 PROVE  Len(e.ledger[a]) = Len(d.ledger[a]) + 1
      OBVIOUS
    <3>1. a \in Accounts /\ e.ledger = Result(d, c).ledger
      BY <1>4, TablesOfResult, CallFields
    <3>2. e.ledger[a] = Append(d.ledger[a], EntryOf(d, c, a))
      BY <1>4, <3>1, LedgerOfResult
    <3> QED BY <3>1, <3>2 DEF Database
  <2>3. /\ TransferWritten(d, c) \in Database
        /\ TransferWritten(d, c) = WriteTransfer(e, c)
    BY <1>4, <2>1, WriteTransferType DEF TransferWritten
  <2>4. WriteTransfer(e, c).transfers = d.transfers \union {TransferOf(d, c)}
    BY <1>4, <2>1, <2>2 DEF WriteTransfer, TransferOf, PlaceIn, Touched, Database
  <2> QED BY <1>4, <2>3, <2>4 DEF Result, BeforeAudit, WriteAudit, Database
<1> QED BY <1>2, <1>3, <1>4, CallFields

LEMMA AuditOfResult ==
    ASSUME NEW d \in Database, NEW c \in Calls, Passes(d.accounts, c)
    PROVE  Result(d, c).audit =
              IF c.kind \in {"deposit", "withdraw"} THEN d.audit
                                                    ELSE d.audit \union {AuditRowOf(c)}
<1>1. RowsWritten(d, c) \in Database /\ RowsWritten(d, c).audit = d.audit
  BY ResultType DEF RowsWritten, WriteRows, Database
<1>2. CASE c.kind \in {"deposit", "withdraw"}
  BY <1>1, <1>2 DEF Result, EntriesWritten, WriteEntries, Database
<1>3. CASE c.kind \in {"open", "close"}
  BY <1>1, <1>3 DEF Result, BeforeAudit, WriteAudit, Database
<1>4. CASE c.kind = "transfer"
  <2>1. EntriesWritten(d, c) \in Database /\ EntriesWritten(d, c).audit = d.audit
    BY <1>1, <1>4, ResultType DEF EntriesWritten, WriteEntries, Database
  <2>2. /\ TransferWritten(d, c) \in Database
        /\ TransferWritten(d, c).audit = d.audit
    BY <1>4, <2>1, WriteTransferType DEF TransferWritten, WriteTransfer, Database
  <2> QED BY <1>4, <2>2 DEF Result, BeforeAudit, WriteAudit, Database
<1> QED BY <1>2, <1>3, <1>4, CallFields

-----------------------------------------------------------------------------
(* The tables of transfers and of transactions agree.                      *)

\* Where a ledger keeps its transactions, Result keeps them.
LEMMA EntriesStay ==
    ASSUME NEW d \in Database, NEW c \in Calls, Passes(d.accounts, c),
           NEW a \in Accounts, NEW i \in DOMAIN d.ledger[a]
    PROVE  /\ i \in DOMAIN Result(d, c).ledger[a]
           /\ Result(d, c).ledger[a][i] = d.ledger[a][i]
<1>1. d.ledger[a] \in Seq(Entry)
  BY DEF Database
<1>2. CASE Result(d, c).ledger[a] = d.ledger[a]
  BY <1>2
<1>3. CASE Result(d, c).ledger[a] = Append(d.ledger[a], EntryOf(d, c, a))
  BY <1>1, <1>3
<1> QED BY <1>2, <1>3, LedgerOfResult

\* The transaction that a call adds comes last, and there is no other new one.
LEMMA EntryAdded ==
    ASSUME NEW d \in Database, NEW c \in Calls, Passes(d.accounts, c),
           NEW a \in Accounts
    PROVE  /\ a \in Touched(c) /\ c.kind \notin {"open", "close"} =>
                 /\ Len(d.ledger[a]) + 1 \in DOMAIN Result(d, c).ledger[a]
                 /\ Result(d, c).ledger[a][Len(d.ledger[a]) + 1] = EntryOf(d, c, a)
           /\ \A i \in DOMAIN Result(d, c).ledger[a] \ DOMAIN d.ledger[a] :
                 /\ a \in Touched(c) /\ c.kind \notin {"open", "close"}
                 /\ i = Len(d.ledger[a]) + 1
<1>1. d.ledger[a] \in Seq(Entry)
  BY DEF Database
<1>2. CASE a \in Touched(c) /\ c.kind \notin {"open", "close"}
  <2>1. Result(d, c).ledger[a] = Append(d.ledger[a], EntryOf(d, c, a))
    BY <1>2, LedgerOfResult
  <2> QED BY <1>1, <1>2, <2>1
<1>3. CASE ~ (a \in Touched(c) /\ c.kind \notin {"open", "close"})
  <2>1. Result(d, c).ledger[a] = d.ledger[a]
    BY <1>3, LedgerOfResult
  <2> QED BY <1>3, <2>1
<1> QED BY <1>2, <1>3

\* Both halves of the new transfer are there, and refer to each other.
LEMMA NewTransferIsPaired ==
    ASSUME NEW d \in Database, NEW c \in Calls, Passes(d.accounts, c),
           c.kind = "transfer"
    PROVE  LET e == Result(d, c)  t == TransferOf(d, c) IN
           /\ EntryExists(e, t.from) /\ EntryExists(e, t.to)
           /\ EntryAt(e, t.from).kind = "out" /\ EntryAt(e, t.to).kind = "in"
           /\ EntryAt(e, t.from).amount = t.amount /\ EntryAt(e, t.to).amount = t.amount
           /\ EntryAt(e, t.from).key = t.key /\ EntryAt(e, t.to).key = t.key
           /\ EntryAt(e, t.from).peer = t.to /\ EntryAt(e, t.to).peer = t.from
<1> DEFINE e == Result(d, c)
           t == TransferOf(d, c)
<1>1. /\ c.account \in Accounts /\ c.to \in Accounts /\ c.to # c.account
      /\ c.account \in Touched(c) /\ c.to \in Touched(c)
  BY CallFields DEF Touched
<1>2. /\ t.key = c.key /\ t.amount = c.amount
      /\ t.from = PlaceIn(d, c.account) /\ t.to = PlaceIn(d, c.to)
      /\ t.from.account = c.account /\ t.from.place = Len(d.ledger[c.account]) + 1
      /\ t.to.account = c.to /\ t.to.place = Len(d.ledger[c.to]) + 1
  BY DEF TransferOf, PlaceIn
<1>3. EntryExists(e, t.from) /\ EntryAt(e, t.from) = EntryOf(d, c, c.account)
  BY <1>1, <1>2, EntryAdded DEF EntryExists, EntryAt
<1>4. EntryExists(e, t.to) /\ EntryAt(e, t.to) = EntryOf(d, c, c.to)
  BY <1>1, <1>2, EntryAdded DEF EntryExists, EntryAt
<1>5. /\ EntryOf(d, c, c.account).kind = "out" /\ EntryOf(d, c, c.to).kind = "in"
      /\ EntryOf(d, c, c.account).amount = c.amount
      /\ EntryOf(d, c, c.to).amount = c.amount
      /\ EntryOf(d, c, c.account).key = c.key /\ EntryOf(d, c, c.to).key = c.key
      /\ EntryOf(d, c, c.account).peer = PlaceIn(d, c.to)
      /\ EntryOf(d, c, c.to).peer = PlaceIn(d, c.account)
  BY <1>1, EntryOfTransfer
<1> QED BY <1>2, <1>3, <1>4, <1>5

LEMMA ResultPaired ==
    ASSUME NEW d \in Database, NEW c \in Calls, Passes(d.accounts, c), Paired(d)
    PROVE  Paired(Result(d, c))
<1> DEFINE e == Result(d, c)
<1>1. ASSUME NEW t \in e.transfers
      PROVE  /\ EntryExists(e, t.from) /\ EntryExists(e, t.to)
             /\ EntryAt(e, t.from).kind = "out" /\ EntryAt(e, t.to).kind = "in"
             /\ EntryAt(e, t.from).amount = t.amount /\ EntryAt(e, t.to).amount = t.amount
             /\ EntryAt(e, t.from).key = t.key /\ EntryAt(e, t.to).key = t.key
             /\ EntryAt(e, t.from).peer = t.to /\ EntryAt(e, t.to).peer = t.from
  <2>1. CASE t \in d.transfers
    <3>1. EntryExists(d, t.from) /\ EntryExists(d, t.to)
      BY <2>1 DEF Paired
    <3>2. /\ EntryExists(e, t.from) /\ EntryExists(e, t.to)
          /\ EntryAt(e, t.from) = EntryAt(d, t.from)
          /\ EntryAt(e, t.to) = EntryAt(d, t.to)
      BY <3>1, EntriesStay DEF EntryExists, EntryAt
    <3> QED BY <2>1, <3>2 DEF Paired
  <2>2. CASE t \notin d.transfers
    <3>1. c.kind = "transfer" /\ t = TransferOf(d, c)
      BY <2>2, TransfersOfResult
    <3> QED BY <3>1, NewTransferIsPaired
  <2> QED BY <2>1, <2>2
<1>2. ASSUME NEW a \in Accounts, NEW i \in DOMAIN e.ledger[a],
             e.ledger[a][i].kind \in {"out", "in"}
      PROVE  \E t \in e.transfers : [account |-> a, place |-> i] \in {t.from, t.to}
  <2>1. CASE i \in DOMAIN d.ledger[a]
    <3>1. PICK t \in d.transfers : [account |-> a, place |-> i] \in {t.from, t.to}
      BY <1>2, <2>1, EntriesStay DEF Paired
    <3> QED BY <3>1, TransfersOfResult
  <2>2. CASE i \notin DOMAIN d.ledger[a]
    <3>1. a \in Touched(c) /\ i = Len(d.ledger[a]) + 1 /\ c.kind \notin {"open", "close"}
      BY <2>2, EntryAdded
    <3>2. e.ledger[a][i] = EntryOf(d, c, a)
      BY <3>1, EntryAdded
    <3>3. c.kind = "transfer"
      BY <1>2, <3>1, <3>2, EntryOfTransfer, CallFields
    <3>4. [account |-> a, place |-> i] \in {TransferOf(d, c).from, TransferOf(d, c).to}
      BY <3>1, <3>3 DEF TransferOf, PlaceIn, Touched
    <3> QED BY <3>3, <3>4, TransfersOfResult
  <2> QED BY <2>1, <2>2
<1> QED BY <1>1, <1>2 DEF Paired

\* The key of a transfer is the key of its debit.
LEMMA UnusedKeyIsNew ==
    ASSUME NEW d \in Database, Paired(d), NEW k, ~ DebitKeyTaken(d, k)
    PROVE  \A t \in d.transfers : t.key # k
<1>1. ASSUME NEW t \in d.transfers
      PROVE  t.key # k
  <2> DEFINE debit == d.ledger[t.from.account][t.from.place]
  <2>1. debit.kind = "out" /\ debit.key = t.key
    BY DEF Paired, EntryAt
  <2>2. t.from.account \in Accounts /\ t.from.place \in DOMAIN d.ledger[t.from.account]
    BY DEF Paired, EntryExists
  <2> QED BY <2>1, <2>2 DEF DebitKeyTaken
<1> QED BY <1>1

LEMMA ResultKeys ==
    ASSUME NEW d \in Database, NEW c \in Calls, Passes(d.accounts, c),
           Paired(d), KeysAreUnique(d),
           c.kind = "transfer" => ~ DebitKeyTaken(d, c.key)
    PROVE  KeysAreUnique(Result(d, c))
<1>1. CASE c.kind # "transfer"
  BY <1>1, TransfersOfResult DEF KeysAreUnique
<1>2. CASE c.kind = "transfer"
  <2>1. \A t \in d.transfers : t.key # TransferOf(d, c).key
    BY <1>2, UnusedKeyIsNew DEF TransferOf
  <2>2. Result(d, c).transfers = d.transfers \union {TransferOf(d, c)}
    BY <1>2, TransfersOfResult
  <2> QED BY <2>1, <2>2 DEF KeysAreUnique
<1> QED BY <1>1, <1>2

-----------------------------------------------------------------------------
(* The audit trail tells who owns, closed and moved what.                  *)

\* An account that was never opened has no transactions.
UnopenedIsEmpty(d) ==
    \A a \in Accounts : d.accounts[a].status = "absent" => d.ledger[a] = <<>>

LEMMA ResultUnopened ==
    ASSUME NEW d \in Database, NEW c \in Calls, Passes(d.accounts, c),
           UnopenedIsEmpty(d)
    PROVE  UnopenedIsEmpty(Result(d, c))
<1> SUFFICES ASSUME NEW a \in Accounts, Result(d, c).accounts[a].status = "absent"
             PROVE  Result(d, c).ledger[a] = <<>>
  BY DEF UnopenedIsEmpty
<1>1. a \notin Touched(c)
  BY RowsOfResult
<1>2. Result(d, c).accounts[a] = d.accounts[a] /\ Result(d, c).ledger[a] = d.ledger[a]
  BY <1>1, RowsOfResult, LedgerOfResult
<1> QED BY <1>2 DEF UnopenedIsEmpty

\* An owner never changes, and a status only where a call opens or closes.
LEMMA OwnersOfResult ==
    ASSUME NEW d \in Database, NEW c \in Calls, Passes(d.accounts, c),
           NEW a \in Accounts
    PROVE  /\ c.kind = "open" /\ a = c.account =>
                 /\ d.accounts[a].status = "absent"
                 /\ Result(d, c).accounts[a].owner = c.user
                 /\ Result(d, c).accounts[a].status = "open"
           /\ c.kind = "close" /\ a = c.account =>
                 /\ d.accounts[a].status = "open"
                 /\ d.accounts[a].owner = c.user
                 /\ Result(d, c).accounts[a].owner = c.user
                 /\ Result(d, c).accounts[a].status = "closed"
           /\ ~ (c.kind \in {"open", "close"} /\ a = c.account) =>
                 /\ Result(d, c).accounts[a].owner = d.accounts[a].owner
                 /\ Result(d, c).accounts[a].status = d.accounts[a].status
<1>1. Result(d, c).accounts[a] =
         IF a \in Touched(c) THEN NewRow(c, a, d.accounts[a]) ELSE d.accounts[a]
  BY TablesOfResult
<1>2. c.account \in Touched(c) /\ (c.kind # "transfer" => Touched(c) = {c.account})
  BY CallFields DEF Touched
<1>3. CASE c.kind = "open" /\ a = c.account
  BY <1>1, <1>2, <1>3 DEF NewRow, Passes, AbsentRow
<1>4. CASE c.kind = "close" /\ a = c.account
  BY <1>1, <1>2, <1>4 DEF NewRow, Passes
<1>5. CASE ~ (c.kind \in {"open", "close"} /\ a = c.account)
  <2>1. CASE a \notin Touched(c)
    BY <1>1, <1>5, <2>1
  <2>2. CASE a \in Touched(c)
    BY <1>1, <1>2, <1>5, <2>2 DEF NewRow
  <2> QED BY <2>1, <2>2
<1> QED BY <1>3, <1>4, <1>5

LEMMA OpeningRowsOfResult ==
    ASSUME NEW d \in Database, NEW c \in Calls, Passes(d.accounts, c),
           c.kind = "open" => c.account \notin DOMAIN Seed
    PROVE  OpeningRows(Result(d, c)) =
              IF c.kind = "open" THEN OpeningRows(d) \union {AuditRowOf(c)}
                                 ELSE OpeningRows(d)
<1> DEFINE e == Result(d, c)
           row(f, a) == [action |-> "account.created", user |-> f.accounts[a].owner,
                         resource |-> a]
           opened(f) == {b \in Accounts \ DOMAIN Seed : f.accounts[b].status # "absent"}
<1>1. \A a \in Accounts :
         /\ c.kind = "open" /\ a = c.account => row(e, a) = AuditRowOf(c)
         /\ ~ (c.kind = "open" /\ a = c.account) => row(e, a) = row(d, a)
  BY OwnersOfResult DEF AuditRowOf
<1>2. opened(e) = IF c.kind = "open" THEN opened(d) \union {c.account} ELSE opened(d)
  BY OwnersOfResult, CallFields
<1>3. c.kind = "open" => c.account \notin opened(d)
  BY OwnersOfResult, CallFields
<1>4. /\ OpeningRows(e) = {row(e, a) : a \in opened(e)}
      /\ OpeningRows(d) = {row(d, a) : a \in opened(d)}
  BY DEF OpeningRows
<1> HIDE DEF e, row
<1> QED BY <1>1, <1>2, <1>3, <1>4 DEF e

LEMMA ClosingRowsOfResult ==
    ASSUME NEW d \in Database, NEW c \in Calls, Passes(d.accounts, c)
    PROVE  ClosingRows(Result(d, c)) =
              IF c.kind = "close" THEN ClosingRows(d) \union {AuditRowOf(c)}
                                  ELSE ClosingRows(d)
<1> DEFINE e == Result(d, c)
           row(f, a) == [action |-> "account.deleted", user |-> f.accounts[a].owner,
                         resource |-> a]
           closed(f) == {b \in Accounts : f.accounts[b].status = "closed"}
<1>1. /\ c.kind = "close" => row(e, c.account) = AuditRowOf(c)
      /\ \A a \in closed(d) : row(e, a) = row(d, a)
  BY OwnersOfResult, CallFields DEF AuditRowOf
<1>2. closed(e) = IF c.kind = "close" THEN closed(d) \union {c.account} ELSE closed(d)
  BY OwnersOfResult, CallFields
<1>3. /\ ClosingRows(e) = {row(e, a) : a \in closed(e)}
      /\ ClosingRows(d) = {row(d, a) : a \in closed(d)}
  BY DEF ClosingRows
<1> HIDE DEF e, row, closed
<1> QED BY <1>1, <1>2, <1>3 DEF e

\* The account that a transfer leaves was open, so that its owner stays.
LEMMA TransferRowsOfResult ==
    ASSUME NEW d \in Database, NEW c \in Calls, Passes(d.accounts, c), Paired(d),
           UnopenedIsEmpty(d)
    PROVE  TransferRows(Result(d, c)) =
              IF c.kind = "transfer" THEN TransferRows(d) \union {AuditRowOf(c)}
                                     ELSE TransferRows(d)
<1> DEFINE e == Result(d, c)
           row(f, t) == [action |-> "transfer.completed", resource |-> t.key,
                         user |-> f.accounts[t.from.account].owner]
<1>1. ASSUME NEW t \in d.transfers
      PROVE  row(e, t) = row(d, t)
  <2>1. t.from.account \in Accounts /\ d.ledger[t.from.account] # <<>>
    BY DEF Paired, EntryExists
  <2>2. d.accounts[t.from.account].status # "absent"
    BY <2>1 DEF UnopenedIsEmpty
  <2>3. e.accounts[t.from.account].owner = d.accounts[t.from.account].owner
    BY <2>1, <2>2, OwnersOfResult
  <2> QED BY <2>3
<1>2. c.kind = "transfer" => row(e, TransferOf(d, c)) = AuditRowOf(c)
  <2> SUFFICES ASSUME c.kind = "transfer"
               PROVE  row(e, TransferOf(d, c)) = AuditRowOf(c)
    OBVIOUS
  <2>1. e.accounts[c.account].owner = c.user
    BY OwnersOfResult, CallFields DEF Passes
  <2> QED BY <2>1 DEF TransferOf, PlaceIn, AuditRowOf
<1>3. e.transfers = IF c.kind = "transfer" THEN d.transfers \union {TransferOf(d, c)}
                                           ELSE d.transfers
  BY TransfersOfResult
<1>4. /\ TransferRows(e) = {row(e, t) : t \in e.transfers}
      /\ TransferRows(d) = {row(d, t) : t \in d.transfers}
  BY DEF TransferRows
<1> HIDE DEF e, row
<1> QED BY <1>1, <1>2, <1>3, <1>4 DEF e

LEMMA ResultAudited ==
    ASSUME NEW d \in Database, NEW c \in Calls, Passes(d.accounts, c),
           c.kind = "open" => c.account \notin DOMAIN Seed,
           Paired(d), UnopenedIsEmpty(d), Audited(d)
    PROVE  Audited(Result(d, c))
<1> DEFINE e == Result(d, c)
<1>1. c.kind \in {"open", "close", "deposit", "withdraw", "transfer"}
  BY CallFields
<1>2. e.audit = IF c.kind \in {"deposit", "withdraw"} THEN d.audit
                                                      ELSE d.audit \union {AuditRowOf(c)}
  BY AuditOfResult
<1>3. OpeningRows(e) = IF c.kind = "open" THEN OpeningRows(d) \union {AuditRowOf(c)}
                                          ELSE OpeningRows(d)
  BY OpeningRowsOfResult
<1>4. ClosingRows(e) = IF c.kind = "close" THEN ClosingRows(d) \union {AuditRowOf(c)}
                                           ELSE ClosingRows(d)
  BY ClosingRowsOfResult
<1>5. TransferRows(e) = IF c.kind = "transfer" THEN TransferRows(d) \union {AuditRowOf(c)}
                                               ELSE TransferRows(d)
  BY TransferRowsOfResult
<1>6. d.audit = OpeningRows(d) \union ClosingRows(d) \union TransferRows(d)
  BY DEF Audited
<1> HIDE DEF e
<1> QED BY <1>1, <1>2, <1>3, <1>4, <1>5, <1>6 DEF Audited, e

-----------------------------------------------------------------------------
(* From the result of a call to the steps of Ledger.                       *)

LEMMA OnlyCommitsChange ==
    ASSUME [Next]_vars
    PROVE  UNCHANGED db \/ \E r \in Requests : Commit(r)
BY DEF Next, Handle, Arrive, ArriveWith, ReadAccount, CheckKey, ReadFrom, ReadTo,
       FlushRows, FlushIsStale, BusyTimeout, InsertEntries, DuplicateEntry,
       InsertTransferRow, InsertAudit, Reply, Crash, Restart, Rest, Reject, Keep,
       vars

\* What IInv needs in addition: the tables agree with each other.
TablesAgree ==
    /\ TransfersPaired
    /\ OneTransferPerKey
    /\ AuditTellsEffects
    /\ UnopenedIsEmpty(db)

LEMMA InitTablesAgree == Init => TablesAgree
<1> SUFFICES ASSUME Init PROVE TablesAgree
  OBVIOUS
<1>1. db.transfers = {} /\ db.audit = {}
  BY DEF Init, SeedDatabase
<1>2. \A a \in Accounts :
         /\ a \in DOMAIN Seed => /\ db.accounts[a].status = "open"
                                 /\ db.ledger[a] = SeedLedger(a)
         /\ a \notin DOMAIN Seed => /\ db.accounts[a].status = "absent"
                                    /\ db.ledger[a] = <<>>
  BY DEF Init, SeedDatabase, SeedRow, AbsentRow
<1>3. UnopenedIsEmpty(db)
  BY <1>2 DEF UnopenedIsEmpty
<1>4. ASSUME NEW a \in Accounts, NEW i \in DOMAIN db.ledger[a]
      PROVE  db.ledger[a][i].kind \notin {"out", "in"}
  <2>1. CASE a \notin DOMAIN Seed
    BY <1>2, <2>1
  <2>2. CASE a \in DOMAIN Seed
    <3>1. db.ledger[a] = SeedLedger(a) /\ Seed[a].balance \in Nat
      BY <1>2, <2>2, SeedIsOfAccounts
    <3>2. Seed[a].balance # 0 /\ i = 1
      BY <3>1 DEF SeedLedger
    <3>3. db.ledger[a][1].kind = "deposit"
      BY <3>1, <3>2 DEF SeedLedger
    <3> QED BY <3>2, <3>3
  <2> QED BY <2>1, <2>2
<1>5. TransfersPaired
  BY <1>1, <1>4 DEF TransfersPaired, Paired
<1>6. OneTransferPerKey
  BY <1>1 DEF OneTransferPerKey, KeysAreUnique
<1>7. AuditTellsEffects
  <2>1. OpeningRows(db) = {} /\ ClosingRows(db) = {} /\ TransferRows(db) = {}
    BY <1>1, <1>2 DEF OpeningRows, ClosingRows, TransferRows
  <2> QED BY <1>1, <2>1 DEF AuditTellsEffects, Audited
<1> QED BY <1>3, <1>5, <1>6, <1>7 DEF TablesAgree

\* They do as long as nothing is committed.
LEMMA TablesStillAgree ==
    ASSUME TablesAgree, UNCHANGED db
    PROVE  TablesAgree'
<1>1. TransfersPaired'
  BY DEF TablesAgree, TransfersPaired, Paired, EntryExists, EntryAt
<1>2. OneTransferPerKey'
  BY DEF TablesAgree, OneTransferPerKey, KeysAreUnique
<1>3. AuditTellsEffects'
  BY DEF TablesAgree, AuditTellsEffects, Audited, OpeningRows, ClosingRows, TransferRows
<1>4. UnopenedIsEmpty(db)'
  BY DEF TablesAgree, UnopenedIsEmpty
<1> QED BY <1>1, <1>2, <1>3, <1>4 DEF TablesAgree

LEMMA StepTablesAgree == IInv /\ TablesAgree /\ [Next]_vars => TablesAgree'
<1> SUFFICES ASSUME IInv, TablesAgree, [Next]_vars
             PROVE  TablesAgree'
  OBVIOUS
<1>1. CASE UNCHANGED db
  BY <1>1, TablesStillAgree
<1>2. ASSUME NEW r \in Requests, Commit(r)
      PROVE  TablesAgree'
  <2> DEFINE c == call[r]
  <2>1. /\ pc[r] = "commit" /\ c \in Calls /\ Passes(db.accounts, c)
        /\ db \in Database /\ db' = Result(db, c)
        /\ c.kind = "transfer" => ~ DebitKeyTaken(db, c.key)
    BY <1>2, CommitIsResult
  <2>2. c.kind = "open" => c.account \notin DOMAIN Seed
    BY DEF IInv, IdentifiersAreFresh
  <2>3. Paired(db) /\ KeysAreUnique(db) /\ Audited(db) /\ UnopenedIsEmpty(db)
    BY DEF TablesAgree, TransfersPaired, OneTransferPerKey, AuditTellsEffects
  <2>4. /\ Paired(Result(db, c)) /\ KeysAreUnique(Result(db, c))
        /\ Audited(Result(db, c)) /\ UnopenedIsEmpty(Result(db, c))
    BY <2>1, <2>2, <2>3, ResultPaired, ResultKeys, ResultAudited, ResultUnopened
  <2>5. Paired(db') /\ KeysAreUnique(db') /\ Audited(db') /\ UnopenedIsEmpty(db')
    BY <2>1, <2>4
  <2> QED BY <2>5 DEF TablesAgree, TransfersPaired, OneTransferPerKey,
                      AuditTellsEffects, Paired, KeysAreUnique, Audited,
                      UnopenedIsEmpty, EntryExists, EntryAt, OpeningRows,
                      ClosingRows, TransferRows
<1> QED BY <1>1, <1>2, OnlyCommitsChange

LEMMA TablesAlwaysAgree == Spec => [](IInv /\ TablesAgree)
<1>1. Init => IInv /\ TablesAgree
  BY InitInvariant, InitTablesAgree
<1>2. IInv /\ TablesAgree /\ [Next]_vars => (IInv /\ TablesAgree)'
  BY NextKeeps, StepTablesAgree
<1> QED BY <1>1, <1>2, PTL DEF Spec

\* Every committed transfer has both of its halves, which refer to each other,
\* and there is no half without its transfer.
THEOREM TransfersAreWhole == Spec => []TransfersPaired
<1>1. TablesAgree => TransfersPaired
  BY DEF TablesAgree
<1> QED BY <1>1, TablesAlwaysAgree, PTL

\* No idempotency key moves money twice, for any number of concurrent retries.
THEOREM KeysPayOnce == Spec => []OneTransferPerKey
<1>1. TablesAgree => OneTransferPerKey
  BY DEF TablesAgree
<1> QED BY <1>1, TablesAlwaysAgree, PTL

\* The audit trail holds exactly what was opened, closed and transferred, and by
\* whom.
THEOREM AuditIsComplete == Spec => []AuditTellsEffects
<1>1. TablesAgree => AuditTellsEffects
  BY DEF TablesAgree
<1> QED BY <1>1, TablesAlwaysAgree, PTL

LEMMA AppendIsPrefix ==
    ASSUME NEW l \in Seq(Entry), NEW e
    PROVE  IsPrefix(l, l) /\ IsPrefix(l, Append(l, e))
<1>1. /\ Len(l) \in Nat /\ Len(Append(l, e)) = Len(l) + 1
      /\ \A i \in 1..Len(l) : Append(l, e)[i] = l[i]
  OBVIOUS
<1>2. SubSeq(l, 1, Len(l)) = SubSeq(Append(l, e), 1, Len(l))
  BY <1>1
<1> QED BY <1>1, <1>2 DEF IsPrefix

\* What a step that commits nothing, and a commit, do to what was committed before.
LEMMA NothingCommitted ==
    ASSUME IInv, UNCHANGED db
    PROVE  AppendsOnly /\ ClosedStay
<1>1. \A a \in Accounts : db.ledger[a] \in Seq(Entry)
  BY DEF IInv, TypeOK, Database
<1> QED BY <1>1, AppendIsPrefix DEF AppendsOnly, ClosedStay

LEMMA CommitAppends ==
    ASSUME IInv, NEW r \in Requests, Commit(r)
    PROVE  AppendsOnly /\ ClosedStay
<1>1. /\ call[r] \in Calls /\ Passes(db.accounts, call[r])
      /\ db \in Database /\ db' = Result(db, call[r])
  BY CommitIsResult
<1>2. AppendsOnly
  <2>1. ASSUME NEW a \in Accounts
        PROVE  IsPrefix(db.ledger[a], db'.ledger[a])
    BY <1>1, LedgerOfResult, AppendIsPrefix
  <2>2. db.transfers \subseteq db'.transfers /\ db.audit \subseteq db'.audit
    BY <1>1, TransfersOfResult, AuditOfResult
  <2> QED BY <2>1, <2>2 DEF AppendsOnly
<1>3. ClosedStay
  <2>1. ASSUME NEW a \in Accounts, db.accounts[a].status = "closed"
        PROVE  db'.accounts[a] = db.accounts[a] /\ db'.ledger[a] = db.ledger[a]
    <3>1. a \notin Touched(call[r])
      BY <1>1, <2>1, RowsOfResult DEF AbsentRow
    <3> QED BY <1>1, <3>1, RowsOfResult, LedgerOfResult
  <2> QED BY <2>1 DEF ClosedStay
<1> QED BY <1>2, <1>3

LEMMA StepAppends == IInv /\ [Next]_vars => AppendsOnly /\ ClosedStay
BY NothingCommitted, CommitAppends, OnlyCommitsChange

\* No step rewrites or removes a committed transaction, transfer or audit row.
THEOREM NothingIsRewritten == Spec => LedgerOnlyGrows
<1> QED BY StepAppends, InductiveInvariant, PTL DEF Spec, LedgerOnlyGrows

\* No request changes an account, or adds to its ledger, after it is closed.
THEOREM ClosedAccountsRest == Spec => ClosedIsFinal
<1> QED BY StepAppends, InductiveInvariant, PTL DEF Spec, ClosedIsFinal

-----------------------------------------------------------------------------
(* Ledger implements Bank.                                                 *)

\* The steps at which a request is pending, for Bank.
Undecided == {"readAccount", "checkKey", "readFrom", "readTo", "flush"} \union Writing

\* A request has an answer once it is decided, and not before.
AnswerSuitsStep ==
    \A r \in Requests :
        /\ pc[r] \in {"unsent"} \union Undecided => answer[r] = "none"
        /\ pc[r] \in {"reply", "answered"} => answer[r] # "none"

\* The steps between the arrival and the commit.
HandlesOn(r) ==
    \/ CheckKey(r) \/ ReadAccount(r) \/ ReadFrom(r) \/ ReadTo(r)
    \/ FlushRows(r) \/ FlushIsStale(r) \/ BusyTimeout(r)
    \/ InsertEntries(r) \/ DuplicateEntry(r) \/ InsertTransferRow(r)
    \/ InsertAudit(r)

\* Such a step goes on, or refuses the request.
LEMMA HandlesOnOutcome ==
    ASSUME IInv, NEW r \in Requests, HandlesOn(r)
    PROVE  /\ UNCHANGED <<db, call>> /\ pc[r] \in Undecided
           /\ \/ /\ answer' = answer
                 /\ \E next \in Undecided : pc' = [pc EXCEPT ![r] = next]
              \/ /\ \E code \in Codes \ {"none", "ok"} :
                       answer' = [answer EXCEPT ![r] = code]
                 /\ pc' = [pc EXCEPT ![r] = "reply"]
<1>1. ASSUME CheckKey(r) \/ ReadAccount(r) \/ ReadFrom(r) \/ ReadTo(r)
      PROVE  /\ UNCHANGED <<db, call>> /\ pc[r] \in Undecided
             /\ \/ /\ answer' = answer
                   /\ \E next \in Undecided : pc' = [pc EXCEPT ![r] = next]
                \/ /\ \E code \in Codes \ {"none", "ok"} :
                         answer' = [answer EXCEPT ![r] = code]
                   /\ pc' = [pc EXCEPT ![r] = "reply"]
  BY <1>1 DEF CheckKey, ReadAccount, ReadFrom, ReadTo, Reject, Answer, Keep,
              Undecided, Codes
<1>2. ASSUME FlushIsStale(r) \/ BusyTimeout(r) \/ DuplicateEntry(r)
      PROVE  /\ UNCHANGED <<db, call>> /\ pc[r] \in Undecided
             /\ \E code \in Codes \ {"none", "ok"} :
                   answer' = [answer EXCEPT ![r] = code]
             /\ pc' = [pc EXCEPT ![r] = "reply"]
  BY <1>2 DEF FlushIsStale, BusyTimeout, DuplicateEntry, Reject, Answer,
              Undecided, Codes, Writing
<1>3. ASSUME FlushRows(r)
      PROVE  /\ UNCHANGED <<db, call, answer>> /\ pc[r] \in Undecided
             /\ \E next \in Undecided : pc' = [pc EXCEPT ![r] = next]
  BY <1>3 DEF FlushRows, AfterFlush, Undecided, Writing
<1>4. ASSUME InsertEntries(r) \/ InsertTransferRow(r) \/ InsertAudit(r)
      PROVE  /\ UNCHANGED <<db, call, answer>> /\ pc[r] \in Undecided
             /\ \E next \in Undecided : pc' = [pc EXCEPT ![r] = next]
  BY <1>4 DEF InsertEntries, InsertTransferRow, InsertAudit, Undecided, Writing
<1> QED BY <1>1, <1>2, <1>3, <1>4 DEF HandlesOn

LEMMA RestartAnswers ==
    ASSUME AnswerSuitsStep, Restart
    PROVE  AnswerSuitsStep'
BY DEF Restart, InFlight, AnswerSuitsStep, Undecided, Writing

LEMMA StepAnswers == IInv /\ AnswerSuitsStep /\ [Next]_vars => AnswerSuitsStep'
<1> SUFFICES ASSUME IInv, AnswerSuitsStep, [Next]_vars
             PROVE  AnswerSuitsStep'
  OBVIOUS
<1> USE DEF Undecided, Writing
<1>1. pc \in [Requests -> Steps] /\ answer \in [Requests -> Codes]
  BY DEF IInv, TypeOK
<1>2. ASSUME NEW r \in Requests, Arrive(r)
      PROVE  AnswerSuitsStep'
  BY <1>1, <1>2 DEF Arrive, ArriveWith, FirstStep, AnswerSuitsStep
<1>3. ASSUME NEW r \in Requests, HandlesOn(r)
      PROVE  AnswerSuitsStep'
  BY <1>1, <1>3, HandlesOnOutcome DEF AnswerSuitsStep
<1>4. ASSUME NEW r \in Requests, Commit(r) \/ Reply(r)
      PROVE  AnswerSuitsStep'
  BY <1>1, <1>4 DEF Commit, Reply, Answer, AnswerSuitsStep
<1>5. CASE Crash
  BY <1>5, RestartAnswers DEF Crash
<1>6. CASE UNCHANGED vars
  BY <1>6 DEF vars, AnswerSuitsStep
<1> QED BY <1>2, <1>3, <1>4, <1>5, <1>6 DEF Next, Handle, HandlesOn, Rest

\* What a step may do, seen by Bank.
LEMMA OutcomesUnchanged ==
    ASSUME UNCHANGED <<db, call>>, \A r \in Requests : OutcomeOf(r)' = OutcomeOf(r)
    PROVE  UNCHANGED Promise!bankVars
BY DEF Promise!bankVars

LEMMA SomeRefused ==
    ASSUME UNCHANGED <<db, call>>, NEW R \in SUBSET Requests,
           \A r \in R : OutcomeOf(r) = "pending" /\ OutcomeOf(r)' = "refused",
           \A r \in Requests \ R : OutcomeOf(r)' = OutcomeOf(r)
    PROVE  Promise!Next
<1>1. Promise!Refuse(R)
  BY DEF Promise!Refuse
<1> QED BY <1>1 DEF Promise!Next

LEMMA ArriveSubmits ==
    ASSUME IInv, AnswerSuitsStep, NEW r \in Requests, Arrive(r)
    PROVE  Promise!Next
<1>1. PICK c \in Menu : ArriveWith(r, c)
  BY DEF Arrive
<1>2. /\ pc[r] = "unsent" /\ answer[r] = "none"
      /\ pc' = [pc EXCEPT ![r] = FirstStep(c)] /\ answer' = answer
      /\ call' = [call EXCEPT ![r] = c] /\ db' = db
      /\ FirstStep(c) \in Undecided
  BY <1>1 DEF ArriveWith, FirstStep, Undecided, AnswerSuitsStep
<1>3. pc \in [Requests -> Steps]
  BY DEF IInv, TypeOK
<1>4. OutcomeOf(r) = "idle" /\ OutcomeOf(r)' = "pending"
  BY <1>2, <1>3 DEF OutcomeOf, Undecided, Writing
<1>5. \A q \in Requests \ {r} : OutcomeOf(q)' = OutcomeOf(q)
  BY <1>2, <1>3 DEF OutcomeOf
<1>6. Promise!Submit(r)
  BY <1>2, <1>4, <1>5 DEF Promise!Submit
<1> QED BY <1>6 DEF Promise!Next

LEMMA HandlingRefusesOrStutters ==
    ASSUME IInv, AnswerSuitsStep, NEW r \in Requests, HandlesOn(r)
    PROVE  [Promise!Next]_(Promise!bankVars)
<1>1. pc \in [Requests -> Steps] /\ answer \in [Requests -> Codes]
  BY DEF IInv, TypeOK
<1>2. UNCHANGED <<db, call>> /\ pc[r] \in Undecided /\ answer[r] = "none"
  BY HandlesOnOutcome DEF AnswerSuitsStep
<1>3. OutcomeOf(r) = "pending"
  BY <1>2 DEF OutcomeOf, Undecided, Writing
<1>4. CASE /\ answer' = answer
           /\ \E next \in Undecided : pc' = [pc EXCEPT ![r] = next]
  <2>1. OutcomeOf(r)' = "pending"
    BY <1>1, <1>2, <1>4 DEF OutcomeOf, Undecided, Writing
  <2>2. \A q \in Requests \ {r} : OutcomeOf(q)' = OutcomeOf(q)
    BY <1>1, <1>4 DEF OutcomeOf
  <2> QED BY <1>2, <1>3, <2>1, <2>2, OutcomesUnchanged
<1>5. CASE /\ \E code \in Codes \ {"none", "ok"} :
                 answer' = [answer EXCEPT ![r] = code]
           /\ pc' = [pc EXCEPT ![r] = "reply"]
  <2>1. OutcomeOf(r)' = "refused"
    BY <1>1, <1>5 DEF OutcomeOf
  <2>2. \A q \in Requests \ {r} : OutcomeOf(q)' = OutcomeOf(q)
    BY <1>1, <1>5 DEF OutcomeOf
  <2>3. \A q \in {r} : OutcomeOf(q) = "pending" /\ OutcomeOf(q)' = "refused"
    BY <1>3, <2>1
  <2> QED BY <1>2, <2>2, <2>3, SomeRefused
<1> QED BY <1>4, <1>5, HandlesOnOutcome

LEMMA RestartRefuses ==
    ASSUME IInv, AnswerSuitsStep, Restart
    PROVE  Promise!Next
<1> DEFINE R == {r \in Requests : OutcomeOf(r) = "pending"}
<1>1. /\ pc \in [Requests -> Steps] /\ UNCHANGED <<db, call, answer>>
      /\ pc' = [r \in Requests |-> IF InFlight(r) THEN "lost" ELSE pc[r]]
  BY DEF IInv, TypeOK, Restart
<1>2. \A r \in R : OutcomeOf(r)' = "refused"
  BY <1>1 DEF OutcomeOf, InFlight, AnswerSuitsStep, Steps
<1>3. \A r \in Requests \ R : OutcomeOf(r)' = OutcomeOf(r)
  BY <1>1 DEF OutcomeOf, InFlight, AnswerSuitsStep, Steps
<1> QED BY <1>1, <1>2, <1>3, SomeRefused

LEMMA ReplyStutters ==
    ASSUME IInv, AnswerSuitsStep, NEW r \in Requests, Reply(r)
    PROVE  UNCHANGED Promise!bankVars
<1>1. /\ pc \in [Requests -> Steps] /\ UNCHANGED <<db, call, answer>>
      /\ pc[r] = "reply" /\ pc' = [pc EXCEPT ![r] = "answered"] /\ answer[r] # "none"
  BY DEF IInv, TypeOK, Reply, AnswerSuitsStep
<1>2. \A q \in Requests : OutcomeOf(q)' = OutcomeOf(q)
  BY <1>1 DEF OutcomeOf
<1> QED BY <1>1, <1>2, OutcomesUnchanged

\* The commit is the instant at which Bank applies the call.
LEMMA CommitApplies ==
    ASSUME IInv, TablesAgree, AnswerSuitsStep, NEW r \in Requests, Commit(r)
    PROVE  Promise!Next
<1> DEFINE c == call[r]
           holds(d, a) == [status |-> d.accounts[a].status, owner |-> d.accounts[a].owner,
                           balance |-> d.accounts[a].balance]
<1>1. /\ pc[r] = "commit" /\ c \in Calls /\ Passes(db.accounts, c)
      /\ db \in Database /\ db' = Result(db, c)
      /\ c.kind = "transfer" => ~ DebitKeyTaken(db, c.key)
      /\ pc' = [pc EXCEPT ![r] = "reply"]
      /\ answer' = [answer EXCEPT ![r] = "ok"] /\ call' = call
  BY CommitIsResult
<1>2. pc \in [Requests -> Steps] /\ answer \in [Requests -> Codes]
  BY DEF IInv, TypeOK
<1>3. OutcomeOf(r) = "pending" /\ OutcomeOf(r)' = "applied"
  <2>1. answer[r] = "none"
    BY <1>1 DEF AnswerSuitsStep, Undecided, Writing
  <2>2. pc'[r] = "reply" /\ answer'[r] = "ok"
    BY <1>1, <1>2
  <2>3. pc[r] = "commit"
    BY <1>1
  <2>4. OutcomeOf(r) = "pending"
    BY <2>1, <2>3 DEF OutcomeOf
  <2>5. OutcomeOf(r)' = "applied"
    BY <2>2 DEF OutcomeOf
  <2> QED BY <2>4, <2>5
<1>4. \A q \in Requests \ {r} : OutcomeOf(q)' = OutcomeOf(q)
  BY <1>1, <1>2 DEF OutcomeOf
<1>5. Touched(c) \subseteq Accounts /\ c.account \in Touched(c)
  BY <1>1, CallFields
<1>6. c.kind = "transfer" => \A t \in db.transfers : t.key # c.key
  BY <1>1, UnusedKeyIsNew DEF TablesAgree, TransfersPaired
<1>7. Promise!Allowed(c)
  <2>1. /\ Promise!Touched(c) = Touched(c) /\ Promise!Needs(c) = Needs(c)
        /\ c.account \in Accounts
    BY <1>5 DEF Promise!Touched, Touched, Promise!Needs, Needs
  <2>2. CASE c.kind = "open"
    BY <1>1, <2>1, <2>2 DEF Passes, AbsentRow, Promise!Allowed
  <2>3. CASE c.kind = "close"
    BY <1>1, <1>5, <2>1, <2>3 DEF Passes, Promise!Allowed
  <2>4. CASE c.kind = "transfer"
    <3>1. /\ \A a \in Touched(c) : db.accounts[a].status = "open"
          /\ db.accounts[c.account].owner = c.user
          /\ db.accounts[c.account].balance >= Needs(c)
      BY <1>1, <2>4 DEF Passes
    <3> QED BY <1>5, <1>6, <2>1, <2>4, <3>1 DEF Promise!Allowed
  <2>5. CASE c.kind \in {"deposit", "withdraw"}
    BY <1>1, <1>5, <2>1, <2>5 DEF Passes, Promise!Allowed
  <2> QED BY <1>1, <2>2, <2>3, <2>4, <2>5, CallFields
<1>8. {t.key : t \in db'.transfers} =
         IF c.kind = "transfer" THEN {t.key : t \in db.transfers} \union {c.key}
                                ELSE {t.key : t \in db.transfers}
  <2>1. db'.transfers = IF c.kind = "transfer"
                        THEN db.transfers \union {TransferOf(db, c)}
                        ELSE db.transfers
    BY <1>1, TransfersOfResult
  <2>2. TransferOf(db, c).key = c.key
    BY DEF TransferOf
  <2> HIDE DEF c
  <2> QED BY <2>1, <2>2
<1>9. ASSUME NEW a \in Accounts
      PROVE  holds(db', a) = IF a \in Touched(c) THEN Promise!Effect(c, a)
                                                 ELSE holds(db, a)
  <2>1. db'.accounts[a] = IF a \in Touched(c) THEN NewRow(c, a, db.accounts[a])
                                              ELSE db.accounts[a]
    <3>1. Result(db, c).accounts = [b \in Accounts |-> IF b \in Touched(c)
                                                       THEN NewRow(c, b, db.accounts[b])
                                                       ELSE db.accounts[b]]
      BY <1>1, TablesOfResult
    <3>2. db'.accounts = Result(db, c).accounts
      BY <1>1
    <3> HIDE DEF c
    <3> QED BY <3>1, <3>2
  <2>2. CASE a \notin Touched(c)
    BY <2>1, <2>2
  <2>3. CASE a \in Touched(c)
    BY <2>1, <2>3 DEF NewRow, Promise!Effect, Promise!BalanceAfter, BalanceAfter,
       Promise!Needs, Needs
  <2> QED BY <2>2, <2>3
<1>10. Promise!Apply(r)
  BY <1>1, <1>3, <1>4, <1>7, <1>8, <1>9 DEF Promise!Apply, Promise!Touched, Touched
<1> QED BY <1>10 DEF Promise!Next

LEMMA StepImplements ==
    IInv /\ TablesAgree /\ AnswerSuitsStep /\ [Next]_vars
        => [Promise!Next]_(Promise!bankVars)
<1> SUFFICES ASSUME IInv, TablesAgree, AnswerSuitsStep, [Next]_vars
             PROVE  [Promise!Next]_(Promise!bankVars)
  OBVIOUS
<1>1. ASSUME NEW r \in Requests, Arrive(r)
      PROVE  Promise!Next
  BY <1>1, ArriveSubmits
<1>2. ASSUME NEW r \in Requests, HandlesOn(r)
      PROVE  [Promise!Next]_(Promise!bankVars)
  BY <1>2, HandlingRefusesOrStutters
<1>3. ASSUME NEW r \in Requests, Commit(r)
      PROVE  Promise!Next
  BY <1>3, CommitApplies
<1>4. ASSUME NEW r \in Requests, Reply(r)
      PROVE  UNCHANGED Promise!bankVars
  BY <1>4, ReplyStutters
<1>5. CASE Crash
  BY <1>5, RestartRefuses DEF Crash
<1>6. CASE UNCHANGED vars
  BY <1>6, OutcomesUnchanged DEF vars, OutcomeOf
<1> QED BY <1>1, <1>2, <1>3, <1>4, <1>5, <1>6 DEF Next, Handle, HandlesOn, Rest

LEMMA InitAnswers == Init => AnswerSuitsStep
BY DEF Init, AnswerSuitsStep

LEMMA InitImplements == Init => Promise!Init
BY DEF Init, SeedDatabase, SeedRow, AbsentRow, OutcomeOf, Promise!Init,
       Promise!Unopened, Promise!NoCall, NoCall

\* The handlers implement Bank: every request takes effect in full at its commit,
\* when all that it tested earlier holds, or has no effect at all.
THEOREM LedgerImplementsBank == Spec => KeepsPromise
<1>1. Spec => [](IInv /\ TablesAgree /\ AnswerSuitsStep)
  BY InitAnswers, StepAnswers, TablesAlwaysAgree, PTL DEF Spec
<1> QED BY <1>1, InitImplements, StepImplements, PTL
        DEF Spec, KeepsPromise, Promise!Spec
=============================================================================
