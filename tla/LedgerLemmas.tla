----------------------------- MODULE LedgerLemmas ----------------------------
(***************************************************************************)
(* Lemmas about the data of Ledger: what the statements of a call write,   *)
(* and that a call applied to a database keeps its ledger a chain.         *)
(***************************************************************************)
EXTENDS LedgerInductive, TLAPS

-----------------------------------------------------------------------------
(* Lemmas about calls.                                                     *)

\* The calls are records with the fields that their kind says.
LEMMA CallFields ==
    ASSUME NEW c \in Calls
    PROVE  /\ c.kind \in {"open", "close", "deposit", "withdraw", "transfer"}
           /\ c.user \in Users /\ c.account \in Accounts
           /\ c.kind \in {"deposit", "withdraw", "transfer"} =>
                 c.amount \in Nat \ {0}
           /\ c.kind = "transfer" =>
                 c.to \in Accounts /\ c.to # c.account /\ c.key \in Keys
           /\ c.account \in Touched(c) /\ Touched(c) \subseteq Accounts
           /\ Needs(c) \in Nat
BY AmountsArePositive
   DEF Calls, OpenCall, CloseCall, CashCall, TransferCall, Touched, Needs

LEMMA CallKinds == NoCall \notin Calls /\ NoCall.kind = "none"
BY CallFields DEF NoCall

\* A call that passes its tests leaves every account it touches with a balance.
LEMMA BalanceAfterType ==
    ASSUME NEW c \in Calls, NEW rows \in [Accounts -> Row], Passes(rows, c),
           NEW a \in Touched(c), c.kind \in {"deposit", "withdraw", "transfer"}
    PROVE  BalanceAfter(c, a, rows[a].balance) \in Nat
<1>1. /\ c.amount \in Nat /\ a \in Accounts
      /\ c.kind = "transfer" => c.to # c.account
  BY CallFields
<1>2. rows[a].balance \in Nat
  BY <1>1 DEF Row
<1>3. CASE c.kind = "deposit" \/ (c.kind = "transfer" /\ a = c.to)
  BY <1>1, <1>2, <1>3 DEF BalanceAfter
<1>4. CASE ~ (c.kind = "deposit" \/ (c.kind = "transfer" /\ a = c.to))
  <2>1. a = c.account
    BY <1>4 DEF Touched
  <2>2. rows[a].balance >= c.amount
    BY <1>4, <2>1 DEF Passes, Needs
  <2> QED BY <1>1, <1>2, <1>4, <2>2 DEF BalanceAfter, Needs
<1> QED BY <1>3, <1>4

-----------------------------------------------------------------------------
(* Lemmas about the tables: the type of what each statement writes.        *)

LEMMA NewRowType ==
    ASSUME NEW c \in Calls, NEW rows \in [Accounts -> Row], Passes(rows, c),
           NEW a \in Touched(c)
    PROVE  NewRow(c, a, rows[a]) \in Row
<1>1. a \in Accounts /\ rows[a] \in Row
  BY CallFields
<1>2. CASE c.kind = "open"
  BY <1>2, CallFields DEF NewRow, Row
<1>3. CASE c.kind = "close"
  BY <1>1, <1>3 DEF NewRow, Row
<1>4. CASE c.kind \in {"deposit", "withdraw", "transfer"}
  <2>1. BalanceAfter(c, a, rows[a].balance) \in Nat
    BY <1>4, BalanceAfterType
  <2> QED BY <1>1, <1>4, <2>1 DEF NewRow, Row
<1> QED BY <1>2, <1>3, <1>4, CallFields

LEMMA WriteRowsType ==
    ASSUME NEW d \in Database, NEW c \in Calls, NEW rows \in [Accounts -> Row],
           Passes(rows, c)
    PROVE  WriteRows(d, c, rows) \in Database
BY NewRowType DEF WriteRows, Database

LEMMA PlaceInType ==
    ASSUME NEW d \in Database, NEW a \in Accounts
    PROVE  PlaceIn(d, a) \in Peer
BY DEF PlaceIn, Peer, Database

LEMMA NewEntryType ==
    ASSUME NEW d \in Database, NEW c \in Calls, NEW a \in Touched(c),
           c.kind \in {"deposit", "withdraw", "transfer"}
    PROVE  NewEntry(d, c, a) \in Entry
<1>1. /\ a \in Accounts
      /\ c.amount \in Nat \ {0}
      /\ c.kind = "transfer" => c.key \in Keys /\ {c.account, c.to} \subseteq Accounts
  BY CallFields
<1>2. KindOf(c, a) \in {"deposit", "withdraw", "out", "in"}
  BY DEF KindOf
<1>3. d.accounts[a].balance \in Nat
  BY <1>1 DEF Database, Row
<1>4. CASE c.kind = "transfer"
  <2>1. PlaceIn(d, IF a = c.account THEN c.to ELSE c.account) \in Peer
    BY <1>1, <1>4, PlaceInType
  <2> QED BY <1>1, <1>2, <1>3, <1>4, <2>1 DEF NewEntry, Entry
<1>5. CASE c.kind # "transfer"
  BY <1>1, <1>2, <1>3, <1>5 DEF NewEntry, Entry
<1> QED BY <1>4, <1>5

LEMMA WriteEntriesType ==
    ASSUME NEW d \in Database, NEW c \in Calls,
           c.kind \in {"deposit", "withdraw", "transfer"}
    PROVE  WriteEntries(d, c) \in Database
<1>1. \A a \in Touched(c) : NewEntry(d, c, a) \in Entry
  BY NewEntryType
<1>2. \A a \in Accounts : d.ledger[a] \in Seq(Entry)
  BY DEF Database
<1>3. \A a \in Touched(c) : Append(d.ledger[a], NewEntry(d, c, a)) \in Seq(Entry)
  BY <1>1, <1>2, CallFields
<1> QED BY <1>2, <1>3 DEF WriteEntries, Database

LEMMA WriteTransferType ==
    ASSUME NEW d \in Database, NEW c \in Calls, c.kind = "transfer"
    PROVE  WriteTransfer(d, c) \in Database
<1>1. /\ c.key \in Keys /\ c.amount \in Nat \ {0}
      /\ c.account \in Accounts /\ c.to \in Accounts
  BY CallFields
<1>2. Len(d.ledger[c.account]) \in Nat /\ Len(d.ledger[c.to]) \in Nat
  BY <1>1 DEF Database
<1>3. [key |-> c.key, amount |-> c.amount,
       from |-> [account |-> c.account, place |-> Len(d.ledger[c.account])],
       to   |-> [account |-> c.to, place |-> Len(d.ledger[c.to])]] \in Transfer
  BY <1>1, <1>2 DEF Transfer, Peer
<1> QED BY <1>3 DEF WriteTransfer, Database

LEMMA WriteAuditType ==
    ASSUME NEW d \in Database, NEW c \in Calls,
           c.kind \in {"open", "close", "transfer"}
    PROVE  WriteAudit(d, c) \in Database
<1>1. AuditRowOf(c) \in AuditRow
  BY CallFields DEF AuditRowOf, AuditRow
<1> QED BY <1>1 DEF WriteAudit, Database

LEMMA ResultType ==
    ASSUME NEW d \in Database, NEW c \in Calls, Passes(d.accounts, c)
    PROVE  /\ RowsWritten(d, c) \in Database
           /\ c.kind \in {"deposit", "withdraw", "transfer"} =>
                 EntriesWritten(d, c) \in Database
           /\ c.kind \in {"open", "close", "transfer"} =>
                 BeforeAudit(d, c) \in Database
           /\ Result(d, c) \in Database
<1>1. d.accounts \in [Accounts -> Row]
  BY DEF Database
<1>2. RowsWritten(d, c) \in Database
  BY <1>1, WriteRowsType DEF RowsWritten
<1>3. c.kind \in {"deposit", "withdraw", "transfer"} =>
         EntriesWritten(d, c) \in Database
  BY <1>2, WriteEntriesType DEF EntriesWritten
<1>4. c.kind \in {"open", "close", "transfer"} => BeforeAudit(d, c) \in Database
  BY <1>2, <1>3, WriteTransferType DEF BeforeAudit, TransferWritten
<1>5. Result(d, c) \in Database
  BY <1>3, <1>4, WriteAuditType, CallFields DEF Result
<1> QED BY <1>2, <1>3, <1>4, <1>5

-----------------------------------------------------------------------------
(* Lemmas about the ledger: it stays a chain that explains the balances.   *)

\* A transaction that starts from the balance of a chain extends the chain.
LEMMA ChainExtends ==
    ASSUME NEW l \in Seq(Entry), Chained(l), NEW e \in Entry,
           IF Credits(e) THEN e.after = BalanceOf(l) + e.amount
                         ELSE e.after + e.amount = BalanceOf(l)
    PROVE  Chained(Append(l, e)) /\ BalanceOf(Append(l, e)) = e.after
<1> DEFINE m == Append(l, e)
<1>1. /\ Len(m) = Len(l) + 1 /\ Len(l) \in Nat
      /\ DOMAIN l = 1..Len(l) /\ DOMAIN m = 1..(Len(l) + 1)
      /\ m[Len(m)] = e /\ m # <<>>
      /\ \A i \in 1..Len(l) : m[i] = l[i]
  OBVIOUS
<1>2. BalanceOf(m) = e.after
  BY <1>1 DEF BalanceOf
<1>3. Before(m, Len(m)) = BalanceOf(l)
  <2>1. CASE l = <<>>
    BY <1>1, <2>1 DEF Before, BalanceOf
  <2>2. CASE l # <<>>
    <3>1. Len(l) \in 1..Len(l) /\ Len(m) # 1 /\ Len(m) - 1 = Len(l)
      BY <1>1, <2>2
    <3>2. m[Len(m) - 1] = l[Len(l)]
      BY <1>1, <3>1
    <3> QED BY <2>2, <3>1, <3>2 DEF Before, BalanceOf
  <2> QED BY <2>1, <2>2
<1>4. ASSUME NEW i \in DOMAIN m
      PROVE  IF Credits(m[i]) THEN m[i].after = Before(m, i) + m[i].amount
                              ELSE m[i].after + m[i].amount = Before(m, i)
  <2>1. CASE i = Len(m)
    BY <1>1, <1>3, <2>1
  <2>2. CASE i # Len(m)
    <3>1. i \in DOMAIN l /\ m[i] = l[i]
      BY <1>1, <2>2
    <3>2. Before(m, i) = Before(l, i)
      BY <1>1, <3>1 DEF Before
    <3> QED BY <3>1, <3>2 DEF Chained
  <2> QED BY <2>1, <2>2
<1> QED BY <1>2, <1>4 DEF Chained

\* A deposit, withdrawal or transfer extends the ledger of each account that
\* it touches by exactly what it adds to the balance.
LEMMA EntriesExplain ==
    ASSUME NEW d \in Database, NEW c \in Calls, Passes(d.accounts, c),
           c.kind \in {"deposit", "withdraw", "transfer"}, Explained(d)
    PROVE  Explained(EntriesWritten(d, c))
<1> DEFINE w == RowsWritten(d, c)
           e(a) == NewEntry(w, c, a)
<1>1. /\ w \in Database /\ EntriesWritten(d, c) = WriteEntries(w, c)
      /\ d.accounts \in [Accounts -> Row]
  BY ResultType DEF EntriesWritten, Database
<1>2. /\ \A a \in Touched(c) : w.accounts[a] = NewRow(c, a, d.accounts[a])
      /\ \A a \in Accounts \ Touched(c) : w.accounts[a] = d.accounts[a]
      /\ w.ledger = d.ledger
  BY CallFields DEF RowsWritten, WriteRows, Database
<1>3. /\ WriteEntries(w, c).accounts = w.accounts
      /\ \A a \in Touched(c) : WriteEntries(w, c).ledger[a] = Append(d.ledger[a], e(a))
      /\ \A a \in Accounts \ Touched(c) : WriteEntries(w, c).ledger[a] = d.ledger[a]
  BY <1>1, <1>2, CallFields DEF WriteEntries, Database
<1>4. ASSUME NEW a \in Touched(c)
      PROVE  /\ Chained(Append(d.ledger[a], e(a)))
             /\ BalanceOf(Append(d.ledger[a], e(a))) = w.accounts[a].balance
  <2>1. /\ a \in Accounts /\ c.amount \in Nat /\ d.accounts[a].balance \in Nat
        /\ c.kind = "transfer" => c.to # c.account
    BY <1>1, CallFields DEF Row
  <2>2. /\ e(a) \in Entry /\ e(a).amount = c.amount
        /\ e(a).kind = KindOf(c, a) /\ e(a).after = w.accounts[a].balance
    BY <1>1, NewEntryType DEF NewEntry
  <2>3. e(a).after = BalanceAfter(c, a, d.accounts[a].balance)
    <3>1. c.kind # "open" /\ c.kind # "close"
      OBVIOUS
    <3>2. NewRow(c, a, d.accounts[a]).balance =
             BalanceAfter(c, a, d.accounts[a].balance)
      BY <3>1 DEF NewRow
    <3> QED BY <1>2, <2>2, <3>2
  <2>4. /\ d.ledger[a] \in Seq(Entry) /\ Chained(d.ledger[a])
        /\ BalanceOf(d.ledger[a]) = d.accounts[a].balance
    BY <2>1 DEF Explained, Database
  <2>5. CASE c.kind = "deposit" \/ (c.kind = "transfer" /\ a = c.to)
    <3>1. Credits(e(a))
      BY <2>1, <2>2, <2>5 DEF Credits, KindOf
    <3>2. e(a).after = BalanceOf(d.ledger[a]) + e(a).amount
      BY <2>2, <2>3, <2>4, <2>5 DEF BalanceAfter
    <3> QED BY <2>2, <2>4, <3>1, <3>2, ChainExtends
  <2>6. CASE ~ (c.kind = "deposit" \/ (c.kind = "transfer" /\ a = c.to))
    <3>1. ~ Credits(e(a)) /\ a = c.account
      BY <2>1, <2>2, <2>6 DEF Credits, KindOf, Touched
    <3>2. d.accounts[a].balance >= c.amount
      BY <2>6, <3>1 DEF Passes, Needs
    <3>3. e(a).after + e(a).amount = BalanceOf(d.ledger[a])
      BY <2>1, <2>2, <2>3, <2>4, <2>6, <3>2 DEF BalanceAfter, Needs
    <3> QED BY <2>2, <2>4, <3>1, <3>3, ChainExtends
  <2> QED BY <2>5, <2>6
<1> DEFINE f == WriteEntries(w, c)
<1>5. ASSUME NEW a \in Accounts
      PROVE  Chained(f.ledger[a]) /\ f.accounts[a].balance = BalanceOf(f.ledger[a])
  <2>1. CASE a \in Touched(c)
    BY <1>3, <1>4, <2>1
  <2>2. CASE a \notin Touched(c)
    <3>1. f.ledger[a] = d.ledger[a] /\ f.accounts[a] = d.accounts[a]
      BY <1>2, <1>3, <2>2
    <3> QED BY <3>1 DEF Explained
  <2> QED BY <2>1, <2>2
<1> QED BY <1>1, <1>5 DEF Explained

\* What a call leaves in the tables of accounts and of transactions.
LEMMA TablesOfResult ==
    ASSUME NEW d \in Database, NEW c \in Calls, Passes(d.accounts, c)
    PROVE  /\ Result(d, c).accounts = RowsWritten(d, c).accounts
           /\ Result(d, c).accounts =
                 [a \in Accounts |-> IF a \in Touched(c)
                                     THEN NewRow(c, a, d.accounts[a])
                                     ELSE d.accounts[a]]
           /\ Result(d, c).ledger =
                 IF c.kind \in {"open", "close"} THEN d.ledger
                                                 ELSE EntriesWritten(d, c).ledger
<1>1. /\ RowsWritten(d, c) \in Database
      /\ RowsWritten(d, c).ledger = d.ledger
      /\ RowsWritten(d, c).accounts =
            [a \in Accounts |-> IF a \in Touched(c)
                                THEN NewRow(c, a, d.accounts[a])
                                ELSE d.accounts[a]]
  BY ResultType DEF RowsWritten, WriteRows, Database
<1>2. CASE c.kind \in {"deposit", "withdraw"}
  BY <1>1, <1>2 DEF Result, EntriesWritten, WriteEntries, Database
<1>3. CASE c.kind = "transfer"
  <2>1. /\ EntriesWritten(d, c) \in Database
        /\ EntriesWritten(d, c).accounts = RowsWritten(d, c).accounts
    <3>1. EntriesWritten(d, c) \in Database
      BY <1>3, ResultType
    <3>2. EntriesWritten(d, c).accounts = RowsWritten(d, c).accounts
      BY <1>1 DEF EntriesWritten, WriteEntries, Database
    <3> QED BY <3>1, <3>2
  <2>2. /\ TransferWritten(d, c) \in Database
        /\ TransferWritten(d, c).accounts = RowsWritten(d, c).accounts
        /\ TransferWritten(d, c).ledger = EntriesWritten(d, c).ledger
    BY <1>3, <2>1, WriteTransferType DEF TransferWritten, WriteTransfer, Database
  <2> QED BY <1>1, <1>3, <2>2 DEF Result, BeforeAudit, WriteAudit, Database
<1>4. CASE c.kind \in {"open", "close"}
  BY <1>1, <1>4 DEF Result, BeforeAudit, WriteAudit, Database
<1> QED BY <1>2, <1>3, <1>4, CallFields

LEMMA ResultExplained ==
    ASSUME NEW d \in Database, NEW c \in Calls, Passes(d.accounts, c), Explained(d)
    PROVE  Explained(Result(d, c))
<1>1. CASE c.kind \in {"open", "close"}
  <2>1. \A a \in Touched(c) : NewRow(c, a, d.accounts[a]).balance = d.accounts[a].balance
    BY <1>1, CallFields DEF NewRow, Passes, Touched, AbsentRow
  <2>2. Result(d, c).ledger = d.ledger
    BY <1>1, TablesOfResult
  <2>3. ASSUME NEW a \in Accounts
        PROVE  Result(d, c).accounts[a].balance = d.accounts[a].balance
    <3>1. Result(d, c).accounts[a] = IF a \in Touched(c)
                                     THEN NewRow(c, a, d.accounts[a])
                                     ELSE d.accounts[a]
      BY TablesOfResult
    <3> QED BY <2>1, <3>1
  <2> QED BY <2>2, <2>3 DEF Explained
<1>2. CASE c.kind \in {"deposit", "withdraw", "transfer"}
  <2>1. /\ Result(d, c).ledger = EntriesWritten(d, c).ledger
        /\ Result(d, c).accounts = EntriesWritten(d, c).accounts
    <3>1. EntriesWritten(d, c).accounts = RowsWritten(d, c).accounts
      BY ResultType DEF EntriesWritten, WriteEntries, Database
    <3> QED BY <1>2, <3>1, TablesOfResult
  <2> QED BY <1>2, <2>1, EntriesExplain DEF Explained
<1> QED BY <1>1, <1>2, CallFields

\* A call that passes its tests closes only an account that is empty.
LEMMA ResultClosesEmpty ==
    ASSUME NEW d \in Database, NEW c \in Calls, Passes(d.accounts, c),
           NEW a \in Accounts,
           d.accounts[a].status = "closed" => d.accounts[a].balance = 0,
           Result(d, c).accounts[a].status = "closed"
    PROVE  Result(d, c).accounts[a].balance = 0
<1>1. CASE a \notin Touched(c)
  <2>1. Result(d, c).accounts[a] = d.accounts[a]
    BY <1>1, TablesOfResult
  <2> QED BY <2>1
<1>2. CASE a \in Touched(c)
  <2>1. Result(d, c).accounts[a] = NewRow(c, a, d.accounts[a])
    BY <1>2, TablesOfResult
  <2>2. c.kind = "close"
    BY <1>2, <2>1 DEF NewRow, Passes
  <2> QED BY <1>2, <2>1, <2>2 DEF NewRow, Passes, Touched
<1> QED BY <1>1, <1>2
=============================================================================
