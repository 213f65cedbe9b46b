----------------------------- MODULE TransactionsTab ---------------------------
(***************************************************************************)
(* The transactions of an account on its page (TransactionsTab of          *)
(* frontend/src/pages/AccountDetail), with the listing of the server       *)
(* (transactions/service list_transactions) behind it.                     *)
(*                                                                         *)
(* A change of a date loads the first page at once, without waiting for an *)
(* earlier load; the buttons that turn pages are hidden while the spinner  *)
(* is shown, but not while an earlier load is still under way.  The server *)
(* counts the transactions and then reads a page of them.                  *)
(*                                                                         *)
(* A transaction is its number in the order of commits, and its stamp.  Day*)
(* d has two instants: 2 * d, up to 23:59:59, and 2 * d + 1, the last      *)
(* fraction of a second, which the end of a period leaves out.             *)
(***************************************************************************)
EXTENDS PageCalls, Sequences

CONSTANTS
    PageSize,   \* the LIMIT of the tab
    Today,      \* the last day, and the end of the filter at first
    WeekAgo,    \* the start of the filter at first
    NoDate,     \* a date that has been cleared
    Periods,    \* bound: the periods that the user puts into the fields
    History,    \* the stamps of the transactions that exist at first
    MaxHistory  \* bound: so many transactions are ever made

Days == 1 .. Today

Dates == Days \union {NoDate}

Always == [from |-> WeekAgo, to |-> Today]

Stamps == 2 .. 2 * Today + 1

ASSUME TransactionsTabConstants ==
    /\ PageSize \in Nat \ {0} /\ Today \in Nat /\ WeekAgo \in Days /\ NoDate \notin Days
    /\ Periods \subseteq [from : Dates, to : Dates] /\ Always \in Periods
    /\ History \in Seq(Stamps) /\ MaxHistory \in Nat
    /\ \A i, j \in DOMAIN History : i <= j => History[i] <= History[j]

VARIABLES
    stamps,     \* server: when each transaction was made
    owed,       \* a deposit or withdrawal of the page will set a new refreshKey
    filter,     \* the states startDate and endDate
    table,      \* the states txns, total and page; history: of which period, and of what
    turning,    \* the state loading: the spinner is shown
    seen,       \* history: the rows shown since the first page was shown
    whole,      \* history: what the first page was a page of
    inOrder     \* history: since then each page was next to the one before, of the same
                \* period, not listed before it, and nothing was committed within its listing

txnVars == <<stamps, owed, filter, table, turning, seen, whole, inOrder>>

transactionsTabVars == <<net, txnVars>>

\* The transactions of a period, which runs from midnight to 23:59:59; a date that
\* is not given bounds nothing.
Matching(f) ==
    {i \in DOMAIN stamps :
        /\ f.from # NoDate => 2 * f.from <= stamps[i]
        /\ f.to # NoDate => stamps[i] <= 2 * f.to}

\* Both the page and the server let a period pass that has only one date.
MakesSense(f) == NoDate \notin {f.from, f.to} => f.from <= f.to

\* Deviation: the offset takes the first page to be page 0.
RowsAfterPage(f, p) ==
    {i \in Matching(f) :
        LET newer == Cardinality({j \in Matching(f) : j > i})
        IN  p * PageSize <= newer /\ newer < (p + 1) * PageSize}

\* A page of them, the newest first.
Rows(f, p) ==
    {i \in Matching(f) :
        LET newer == Cardinality({j \in Matching(f) : j > i})
        IN  (p - 1) * PageSize <= newer /\ newer < p * PageSize}

LoadPage(f, p) == [kind |-> "load", filter |-> f, page |-> p]

HistoryInit ==
    /\ stamps = History /\ owed = FALSE
    /\ filter = Always
    /\ table = [rows |-> {}, of |-> {}, total |-> 0, page |-> 1, filter |-> Always]
    /\ turning = TRUE
    /\ seen = {} /\ whole = {} /\ inOrder = FALSE

TransactionsTabInit == HistoryInit /\ Mount(LoadPage(Always, 1), Calls)

-----------------------------------------------------------------------------
(* The user.                                                               *)

\* load: the spinner is shown, and a page is asked for.  Bound: the user does not
\* make a third load at once.
AskPage(c, f, p) ==
    /\ Cardinality(UnderWay) < 2
    /\ Ask(c, LoadPage(f, p))
    /\ turning' = TRUE
    /\ UNCHANGED <<stamps, owed, table, seen, whole, inOrder>>

\* The fields, which can be cleared, and "Reset" change the state, and the effect of
\* the state loads the first page of the new period, which is not checked.
ChangeDates(c) ==
    \E f \in Periods :
        /\ f # filter /\ (f.from = filter.from \/ f.to = filter.to \/ f = Always)
        /\ filter' = f
        /\ AskPage(c, f, 1)

\* "Filter" loads the first page again, of a period that makes sense.
Filter(c) ==
    /\ MakesSense(filter)
    /\ AskPage(c, filter, 1)
    /\ UNCHANGED filter

TotalPages == (table.total + PageSize - 1) \div PageSize

\* The arrows are shown with the rows of the table, and load their page with the
\* filter of now.
TurnPage(c) ==
    /\ ~turning /\ table.rows # {} /\ TotalPages > 1
    /\ \/ table.page > 1 /\ AskPage(c, filter, table.page - 1)
       \/ table.page < TotalPages /\ AskPage(c, filter, table.page + 1)
    /\ UNCHANGED filter

\* The head of the page has had its answer, and sets a new refreshKey.
Refresh(c) ==
    /\ owed /\ owed' = FALSE
    /\ Ask(c, LoadPage(filter, 1))
    /\ turning' = TRUE
    /\ UNCHANGED <<stamps, filter, table, seen, whole, inOrder>>

TransactionsUser == \E c \in Calls : ChangeDates(c) \/ Filter(c) \/ TurnPage(c) \/ Refresh(c)

-----------------------------------------------------------------------------
(* The server.                                                             *)

\* The period is checked, and the transactions are counted.
CountTransactions(c) ==
    LET f == asked[c].filter IN
    /\ asked[c].kind = "load"
    /\ IF MakesSense(f)
       THEN ReadHalf(c, [code |-> "half", total |-> Cardinality(Matching(f))])
       ELSE stage[c] = "sent" /\ Answer(c, Refused)
    /\ UNCHANGED stamps

\* The page is read: another transaction may have been committed since.
ReadPage(c) ==
    LET f == asked[c].filter IN
    /\ stage[c] = "half"
    /\ Answer(c, [code |-> "ok", total |-> reply[c].total, rows |-> Rows(f, asked[c].page),
                  of |-> Matching(f)])
    /\ UNCHANGED stamps

RefuseList(c) == asked[c].kind = "load" /\ Answer(c, Refused) /\ UNCHANGED stamps

ServeTransactions(c) ==
    /\ CountTransactions(c) \/ ReadPage(c) \/ RefuseList(c)
    /\ UNCHANGED <<owed, filter, table, turning, seen, whole, inOrder>>

\* A transaction is committed: the deposit or withdrawal of this page's dialog,
\* or somebody else's transfer.  It is stamped under the write lock, so the stamps
\* follow the order of commits.
Commit ==
    /\ Len(stamps) < MaxHistory
    /\ \E s \in {2 * Today, 2 * Today + 1} :
          /\ \A i \in DOMAIN stamps : stamps[i] <= s
          /\ stamps' = Append(stamps, s)
    /\ \/ ~owed /\ owed' = TRUE /\ UNCHANGED net
       \/ Meddled /\ UNCHANGED owed
    /\ UNCHANGED <<filter, table, turning, seen, whole, inOrder>>

-----------------------------------------------------------------------------
(* The callbacks.                                                          *)

\* A page of the table replaces the one that is shown, whichever load it answers.
PageShown(c, r) ==
    /\ table' = [rows |-> r.rows, of |-> r.of, total |-> r.total,
                 page |-> asked[c].page, filter |-> asked[c].filter]
    /\ IF asked[c].page = 1
       THEN seen' = r.rows /\ whole' = r.of
       ELSE seen' = seen \union r.rows /\ UNCHANGED whole
    /\ inOrder' = /\ r.total = Cardinality(r.of)
                  /\ asked[c].page # 1 =>
                        /\ inOrder /\ asked[c].filter = table.filter /\ table.of \subseteq r.of
                        /\ asked[c].page \in {table.page - 1, table.page, table.page + 1}

\* load, after its await: a failure leaves the old rows.
PageLoaded(c, r) ==
    /\ asked[c].kind = "load"
    /\ turning' = FALSE
    /\ IF r.code = "ok" THEN PageShown(c, r) ELSE UNCHANGED <<table, seen, whole, inOrder>>
    /\ Finish(c, r)
    /\ UNCHANGED <<stamps, owed, filter>>

TransactionsCallback(c) == \E r \in {reply[c], Lost} : Outcome(c, r) /\ PageLoaded(c, r)

TransactionsTabRest == AtRest /\ UNCHANGED transactionsTabVars

TransactionsTabNext ==
    \/ TransactionsUser \/ Commit
    \/ \E c \in Calls : ServeTransactions(c) \/ TransactionsCallback(c)
    \/ TransactionsTabRest

TransactionsTabSpec == TransactionsTabInit /\ [][TransactionsTabNext]_transactionsTabVars

-----------------------------------------------------------------------------
(* Properties.                                                             *)

\* When nothing is under way and the page has no refresh to make, the table is a
\* page of the period in the fields, counted right, unless an answer was lost or
\* refused, a load overtook an earlier one, or somebody else made a transaction.
\* EmptyMeansEmpty has the case of an earlier load that ends after a change of the
\* period, and what the user can do before the later one ends.
TableIsCurrent ==
    Quiet /\ calm /\ ~owed =>
        /\ table.rows = Rows(filter, table.page)
        /\ table.total = Cardinality(Matching(filter))

\* Who turns the pages to the last has seen every transaction that the period had
\* when the first page was read, however many were made on the way, unless one was
\* made between the count and the rows of a listing: then the page that seems to be
\* the last one is not.  Nor if a late answer shows a page that was listed before the
\* one shown last: what a commit has moved from one to the other is on neither.
PagingMissesNothing ==
    inOrder /\ table.page >= TotalPages => whole \subseteq seen

\* "No transactions found for this period" is only said of a period that has none,
\* as the server has counted them, when nothing is under way any more and no call
\* has failed in the network.
EmptyMeansEmpty == Quiet /\ ~blind /\ table.rows = {} /\ table.filter = filter => table.total = 0

\* The tab waits only for loads that are under way.
TransactionsTabWaitsForCalls == turning => Loads # {}
=============================================================================
