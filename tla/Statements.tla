------------------------------- MODULE Statements ------------------------------
(***************************************************************************)
(* The statement of an account: its page (frontend/src/pages/StatementPage)*)
(* and the service behind it (statements/service), among the transactions  *)
(* that are committed meanwhile.                                           *)
(*                                                                         *)
(* Day d has two instants: 2 * d, up to 23:59:59, and 2 * d + 1, the last  *)
(* fraction of a second, which the end of a period leaves out.  A          *)
(* transaction is stamped when it is inserted, under the write lock, so the*)
(* stamps of an account follow the order of commits.  Types, descriptions  *)
(* and the layout of the page are left out.                                *)
(***************************************************************************)
EXTENDS PageCalls, Sequences, Integers

CONSTANTS
    StatementDays,  \* the days that the user enters
    LastMonth,      \* the period in the fields at first
    Past,           \* the transactions at first: their stamps and balances
    NewStamps,      \* the stamps of the transactions made while the page is open
    Amounts,        \* and their amounts
    MaxEntries,     \* bound: so many transactions are ever made
    NoStatement     \* the null of a statement

Instants == {2 * d : d \in StatementDays} \union {2 * d + 1 : d \in StatementDays}

ASSUME StatementConstants ==
    /\ LastMonth \in [from : StatementDays, to : StatementDays] /\ LastMonth.from <= LastMonth.to
    /\ StatementDays \subseteq Nat /\ NewStamps \subseteq Instants
    /\ Past \in Seq([stamp : Instants, after : Nat]) /\ Amounts \subseteq Int
    /\ \A i, j \in DOMAIN Past : i <= j => Past[i].stamp <= Past[j].stamp

VARIABLES
    entries,    \* server: the transactions of the account, with the balance after each
    fields,     \* the states startDate and endDate
    loadingAcct,\* the whole page is a spinner
    statement,  \* the state statement
    pending,    \* the state loading
    failed,     \* the state error is set
    lastAsked   \* history: the period of the last submission

stmtVars == <<entries, fields, loadingAcct, statement, pending, failed, lastAsked>>

statementVars == <<net, stmtVars>>

StartOf(d) == 2 * d

\* Deviation: the period ends where its last day begins.
EndOfAtMidnight(d) == 2 * d - 1

\* 23:59:59 of the day.
EndOf(d) == 2 * d

Before(s) == {i \in DOMAIN entries : entries[i].stamp < s}

Last(S) == CHOOSE i \in S : \A j \in S : j <= i

\* Deviation: the opening balance includes the first instant of the period.
OpeningIncluding(p) ==
    LET S == {i \in DOMAIN entries : entries[i].stamp <= StartOf(p.from)}
    IN  IF S = {} THEN 0 ELSE entries[Last(S)].after

\* The balance after the last transaction before the period.
OpeningOf(p) ==
    LET S == Before(StartOf(p.from))
    IN  IF S = {} THEN 0 ELSE entries[Last(S)].after

\* The transactions of the period.
Lines(p) ==
    {i \in DOMAIN entries : StartOf(p.from) <= entries[i].stamp /\ entries[i].stamp <= EndOf(p.to)}

\* The balance after the last of them, or the opening balance.
ClosingOf(p, first) ==
    IF Lines(p) = {} THEN first ELSE entries[Last(Lines(p))].after

AmountOf(i) == entries[i].after - (IF i = 1 THEN 0 ELSE entries[i - 1].after)

\* Credits less debits of the transactions in S.
Total(S) ==
    LET upTo[n \in 0 .. Len(entries)] ==
            IF n = 0 THEN 0 ELSE upTo[n - 1] + (IF n \in S THEN AmountOf(n) ELSE 0)
    IN  upTo[Len(entries)]

AccountLoad == [kind |-> "load", what |-> "account"]

StatementLoad(p) == [kind |-> "load", what |-> "statement", period |-> p]

StatementInit ==
    /\ entries = Past
    /\ fields = LastMonth
    /\ loadingAcct = TRUE /\ pending = FALSE /\ failed = FALSE
    /\ statement = NoStatement /\ lastAsked = fields

StatementPageInit == StatementInit /\ Mount(AccountLoad, Calls)

-----------------------------------------------------------------------------
(* The user.                                                               *)

\* The fields are not disabled while the page waits for a statement.
EnterDates ==
    /\ ~loadingAcct
    /\ \E p \in [from : StatementDays, to : StatementDays] :
          /\ p # fields /\ (p.from = fields.from \/ p.to = fields.to)
          /\ fields' = p
    /\ UNCHANGED <<net, entries, loadingAcct, statement, pending, failed, lastAsked>>

\* handleFetch up to its await; the button is disabled while the page waits.
Fetch(c) ==
    /\ ~loadingAcct /\ ~pending /\ fields.from <= fields.to
    /\ Ask(c, StatementLoad(fields))
    /\ pending' = TRUE /\ failed' = FALSE /\ statement' = NoStatement
    /\ lastAsked' = fields
    /\ UNCHANGED <<entries, fields, loadingAcct>>

\* handleFetch with dates that are missing or in the wrong order: the old statement
\* stays, without the error of the last submission.
FetchNothing ==
    /\ ~loadingAcct /\ ~pending /\ fields.to < fields.from
    /\ failed' = FALSE
    /\ UNCHANGED <<net, entries, fields, loadingAcct, statement, pending, lastAsked>>

StatementUser == EnterDates \/ FetchNothing \/ \E c \in Calls : Fetch(c)

-----------------------------------------------------------------------------
(* The server.                                                             *)

TellAccount(c) == asked[c] = AccountLoad /\ stage[c] = "sent" /\ Answer(c, [code |-> "ok"])

\* The opening balance is read.
ReadOpening(c) ==
    /\ asked[c].kind = "load" /\ asked[c].what = "statement"
    /\ ReadHalf(c, [code |-> "half", opening |-> OpeningOf(asked[c].period),
                    before |-> Before(StartOf(asked[c].period.from))])

\* The transactions are read: others may have been committed since.
ReadLines(c) ==
    LET p == asked[c].period IN
    /\ stage[c] = "half"
    /\ Answer(c, [code |-> "ok",
          data |-> [period |-> p, opening |-> reply[c].opening, total |-> Total(Lines(p)),
                    closing |-> ClosingOf(p, reply[c].opening),
                    steady |-> reply[c].before = Before(StartOf(p.from))]])

RefuseRead(c) == asked[c].kind = "load" /\ Answer(c, Refused)

ServeStatements(c) ==
    /\ TellAccount(c) \/ ReadOpening(c) \/ ReadLines(c) \/ RefuseRead(c)
    /\ UNCHANGED stmtVars

Balance == IF entries = <<>> THEN 0 ELSE entries[Len(entries)].after

\* Another request moves money in the account, or out of it.
CommitEntry ==
    /\ Len(entries) < MaxEntries
    /\ \E s \in NewStamps : \E a \in Amounts :
          /\ \A i \in DOMAIN entries : entries[i].stamp <= s
          /\ Balance + a >= 0
          /\ entries' = Append(entries, [stamp |-> s, after |-> Balance + a])
    /\ UNCHANGED <<net, fields, loadingAcct, statement, pending, failed, lastAsked>>

-----------------------------------------------------------------------------
(* The callbacks.                                                          *)

\* The account of the heading; a failure is told.
AccountKnown(c, r) ==
    /\ asked[c] = AccountLoad
    /\ loadingAcct' = FALSE
    /\ failed' = (r.code # "ok")
    /\ UNCHANGED <<statement, pending>>

\* handleFetch, after its await.
Fetched(c, r) ==
    /\ asked[c].kind = "load" /\ asked[c] # AccountLoad
    /\ pending' = FALSE
    /\ statement' = IF r.code = "ok" THEN r.data ELSE statement
    /\ failed' = (r.code # "ok")
    /\ UNCHANGED loadingAcct

StatementCallback(c) ==
    /\ \E r \in {reply[c], Lost} :
          Outcome(c, r) /\ (AccountKnown(c, r) \/ Fetched(c, r)) /\ Finish(c, r)
    /\ UNCHANGED <<entries, fields, lastAsked>>

StatementRest == AtRest /\ UNCHANGED statementVars

StatementNext ==
    \/ StatementUser \/ CommitEntry
    \/ \E c \in Calls : ServeStatements(c) \/ StatementCallback(c)
    \/ StatementRest

StatementSpec == StatementPageInit /\ [][StatementNext]_statementVars

-----------------------------------------------------------------------------
(* Properties.                                                             *)

\* The statement that is shown adds up: opening balance and transactions make the
\* closing balance.  The two reads see different states of the account; only a
\* transaction stamped before the period and committed between them can spoil the
\* sum, not one that is stamped in it.
StatementAddsUp ==
    statement # NoStatement /\ statement.steady =>
        statement.opening + statement.total = statement.closing

\* The transactions of a day that neither its statement nor the next one's lists.
LeftOut(d) == {i \in DOMAIN entries : entries[i].stamp = 2 * d + 1}

\* Of two statements, the second for a day and the first up to the day before, the
\* second begins with the balance with which the first one ends and with what was moved
\* in the last fraction of a second between them.  Nothing else can be lost between
\* them, nor be in both, in whatever order the transactions came.
StatementsJoin ==
    \A f, d, g \in StatementDays :
        f <= d /\ g = d + 1 =>
            LET earlier == [from |-> f, to |-> d] IN
            ClosingOf(earlier, OpeningOf(earlier)) + Total(LeftOut(d))
                = OpeningOf([from |-> g, to |-> g])

\* The page waits only for calls that are under way.
StatementWaitsForCalls ==
    /\ loadingAcct => \E c \in UnderWay : asked[c] = AccountLoad
    /\ pending => \E c \in UnderWay : asked[c] = StatementLoad(lastAsked)
=============================================================================
