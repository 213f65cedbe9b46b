---------------------------------- MODULE Pages --------------------------------
(***************************************************************************)
(* The pages of the web client that a user who has signed in can open (the *)
(* routes of frontend/src/App).  Of the transfer page this module has the  *)
(* fields; TransferForm has its idempotency key.                           *)
(*                                                                         *)
(* One page is open, and stays open: a page that is left is unmounted with *)
(* its state, and its callbacks then change nothing that is shown.  The two*)
(* tabs of the account's page and its head share only the refresh that the *)
(* head asks of the tab; each of them is a screen of its own here.         *)
(***************************************************************************)
EXTENDS CardsTab, AccountPage, TransactionsTab, Dashboard, Statements, TransferFields

CONSTANTS
    Screens,    \* the screens that may be open
    CallsOf     \* bound: the calls that each screen makes

ASSUME ScreensAreKnown ==
    Screens \subseteq {"cards", "account", "transactions", "dashboard", "statement", "transfer"}

\* Every screen makes a call when it is opened, and that one is the first.
ASSUME ScreensLoad ==
    \A s \in Screens :
        /\ CallsOf[s] \subseteq Calls
        /\ \E c \in CallsOf[s] : \A d \in CallsOf[s] : c <= d

VARIABLE open   \* the screen that is open

pagesVars == <<net, tabVars, headVars, txnVars, dashboardVars, stmtVars, fieldVars, open>>

FirstCall ==
    CASE open = "cards"        -> Load
      [] open = "account"      -> LoadAccount
      [] open = "transactions" -> LoadPage(Always, 1)
      [] open = "dashboard"    -> LoadAccounts
      [] open = "statement"    -> AccountLoad
      [] open = "transfer"     -> LoadEligible

PagesInit ==
    /\ open \in Screens
    /\ TabInit /\ HeadInit /\ HistoryInit /\ ListInit /\ StatementInit /\ FieldsInit
    /\ Mount(FirstCall, CallsOf[open])

CardsScreen ==
    /\ open = "cards" /\ CardsTabNext
    /\ UNCHANGED <<headVars, txnVars, dashboardVars, stmtVars, fieldVars, open>>

AccountScreen ==
    /\ open = "account" /\ AccountPageNext
    /\ UNCHANGED <<tabVars, txnVars, dashboardVars, stmtVars, fieldVars, open>>

TransactionsScreen ==
    /\ open = "transactions" /\ TransactionsTabNext
    /\ UNCHANGED <<tabVars, headVars, dashboardVars, stmtVars, fieldVars, open>>

DashboardScreen ==
    /\ open = "dashboard" /\ DashboardNext
    /\ UNCHANGED <<tabVars, headVars, txnVars, stmtVars, fieldVars, open>>

StatementScreen ==
    /\ open = "statement" /\ StatementNext
    /\ UNCHANGED <<tabVars, headVars, txnVars, dashboardVars, fieldVars, open>>

TransferScreen ==
    /\ open = "transfer" /\ TransferFieldsNext
    /\ UNCHANGED <<tabVars, headVars, txnVars, dashboardVars, stmtVars, open>>

PagesNext ==
    \/ CardsScreen \/ AccountScreen \/ TransactionsScreen
    \/ DashboardScreen \/ StatementScreen \/ TransferScreen

PagesSpec == PagesInit /\ [][PagesNext]_pagesVars

-----------------------------------------------------------------------------
(* Properties of every page.                                               *)

\* When nothing is under way, each page shows what the server has, as long as no
\* call failed, no load overtook an earlier one and nobody else changed anything:
\* every outcome of a change is followed by the load that it calls for, also when
\* other changes and loads are under way.
ShownIsCurrent ==
    /\ open = "cards" => ListIsCurrent
    /\ open = "account" => BalanceIsCurrent
    /\ open = "transactions" => TableIsCurrent
    /\ open = "dashboard" => AccountListIsCurrent

\* No page and no dialog waits for a call that is over, or that is about something
\* else: whichever way its calls end, it can be used again.
WaitsOnlyForCalls ==
    /\ open = "cards" => CardsTabWaitsForCalls
    /\ open = "account" => AccountPageWaitsForCalls
    /\ open = "transactions" => TransactionsTabWaitsForCalls
    /\ open = "dashboard" => DashboardWaitsForCalls
    /\ open = "statement" => StatementWaitsForCalls
    /\ open = "transfer" => TransferFieldsWaitForCalls
=============================================================================
