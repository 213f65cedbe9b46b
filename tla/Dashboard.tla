-------------------------------- MODULE Dashboard ------------------------------
(***************************************************************************)
(* The page that lists the user's accounts (frontend/src/pages/Dashboard), *)
(* opens new ones with a dialog and closes empty ones, with the accounts of*)
(* the server behind it.                                                   *)
(*                                                                         *)
(* The dialog can be closed at any time, also while its call is under way; *)
(* the callback of the call closes whatever dialog is open then.  Type and *)
(* currency of an account are left out.                                    *)
(***************************************************************************)
EXTENDS PageCalls

CONSTANTS
    AccountIds, \* numbers of accounts, in the order in which they are opened
    Held,       \* the accounts that the user has at first, without money
    Modals,     \* the numbers of the dialogs, in the order they are opened
    NoModal,    \* the null of a dialog
    NoAccount   \* the null of an account

ASSUME DashboardConstants ==
    /\ AccountIds \subseteq Nat /\ Held \subseteq AccountIds /\ NoAccount \notin AccountIds
    /\ Modals \subseteq Nat /\ NoModal \notin Modals

VARIABLES
    account,        \* server: how each account is
    accounts,       \* the state accounts: how each account is listed
    fetching,       \* the state loading: the spinner is shown
    modal,          \* the dialog that is open
    used,           \* the dialogs that have been opened
    opening,        \* the state loading of the open dialog
    confirmDeleteId,\* the account whose closing the user is asked to confirm
    opened          \* history: how many accounts each dialog has opened

dashboardVars == <<account, accounts, fetching, modal, used, opening, confirmDeleteId, opened>>

dashboardPageVars == <<net, dashboardVars>>

LoadAccounts == [kind |-> "load"]

\* What list_accounts tells: closed accounts are left out.
AccountListing ==
    [a \in AccountIds |-> IF account[a] = "closed" THEN "absent" ELSE account[a]]

ListInit ==
    /\ account = [a \in AccountIds |-> IF a \in Held THEN "empty" ELSE "absent"]
    /\ accounts = [a \in AccountIds |-> "absent"] /\ fetching = TRUE
    /\ modal = NoModal /\ used = {} /\ opening = FALSE
    /\ confirmDeleteId = NoAccount
    /\ opened = [t \in Modals |-> 0]

DashboardInit == ListInit /\ Mount(LoadAccounts, Calls)

-----------------------------------------------------------------------------
(* The user.                                                               *)

\* "+ New Account", also before the list is there.
OpenModal(t) ==
    /\ modal = NoModal /\ t \notin used /\ \A s \in Modals : s < t => s \in used
    /\ modal' = t /\ used' = used \union {t}
    /\ UNCHANGED <<net, account, accounts, fetching, opening, confirmDeleteId, opened>>

\* The cross, Cancel and Escape, none of which is ever disabled.
CloseModal ==
    /\ modal # NoModal
    /\ modal' = NoModal /\ opening' = FALSE
    /\ UNCHANGED <<net, account, accounts, fetching, used, confirmDeleteId, opened>>

\* Deviation: the button is not disabled while the dialog waits.
MayOpenAlways == modal # NoModal

\* The button that submits.
MayOpen == modal # NoModal /\ ~opening

\* Bound: there is an account left to open.
AccountLeft ==
    Cardinality({a \in AccountIds : account[a] = "absent"})
        > Cardinality({c \in Calls : asked[c].kind = "create"})

SubmitNew(c) ==
    /\ MayOpen /\ Room /\ AccountLeft
    /\ Ask(c, [kind |-> "create", modal |-> modal])
    /\ opening' = TRUE
    /\ UNCHANGED <<account, accounts, fetching, modal, used, confirmDeleteId, opened>>

\* "Close" of a listed account without money, and "Cancel" of the question.
AskToClose(a) ==
    /\ ~fetching /\ modal = NoModal
    /\ \/ confirmDeleteId # a /\ accounts[a] = "empty" /\ confirmDeleteId' = a
       \/ confirmDeleteId = a /\ accounts[a] # "absent" /\ confirmDeleteId' = NoAccount
    /\ UNCHANGED <<net, account, accounts, fetching, modal, used, opening, opened>>

\* "Yes, close": the question stays while the list is loaded again.
ConfirmClose(c, a) ==
    /\ ~fetching /\ modal = NoModal /\ Room
    /\ confirmDeleteId = a /\ accounts[a] # "absent"
    /\ Ask(c, [kind |-> "close", account |-> a])
    /\ confirmDeleteId' = NoAccount
    /\ UNCHANGED <<account, accounts, fetching, modal, used, opening, opened>>

DashboardUser ==
    \/ \E t \in Modals : OpenModal(t)
    \/ CloseModal
    \/ \E c \in Calls : SubmitNew(c) \/ \E a \in AccountIds : ConfirmClose(c, a)
    \/ \E a \in AccountIds : AskToClose(a)

-----------------------------------------------------------------------------
(* The server.                                                             *)

ServeAccounts(c) ==
    /\ asked[c].kind = "load"
    /\ Answer(c, [code |-> "ok", data |-> AccountListing])
    /\ UNCHANGED <<account, opened>>

ServeCreate(c) ==
    /\ asked[c].kind = "create"
    /\ \E a \in AccountIds :
          /\ account[a] = "absent" /\ \A b \in AccountIds : b < a => account[b] # "absent"
          /\ account' = [account EXCEPT ![a] = "empty"]
    /\ opened' = [opened EXCEPT ![asked[c].modal] = @ + 1]
    /\ Answer(c, [code |-> "ok"])

ServeClose(c) ==
    /\ asked[c].kind = "close"
    /\ account[asked[c].account] = "empty"
    /\ account' = [account EXCEPT ![asked[c].account] = "closed"]
    /\ Answer(c, [code |-> "ok"])
    /\ UNCHANGED opened

\* There is money in the account, it is closed already, or the server fails.
RefuseDashboard(c) == Answer(c, Refused) /\ UNCHANGED <<account, opened>>

ServeDashboard(c) ==
    /\ ServeAccounts(c) \/ ServeCreate(c) \/ ServeClose(c) \/ RefuseDashboard(c)
    /\ UNCHANGED <<accounts, fetching, modal, used, opening, confirmDeleteId>>

\* Money comes into an account or leaves it, or another window closes it.
\* Bound: once.
AccountsChange ==
    /\ calm /\ Meddled
    /\ \E a \in AccountIds :
          /\ account[a] \in {"empty", "funded"}
          /\ \E s \in {"empty", "funded", "closed"} :
                /\ s # account[a] /\ (s = "closed" => account[a] = "empty")
                /\ account' = [account EXCEPT ![a] = s]
    /\ UNCHANGED <<accounts, fetching, modal, used, opening, confirmDeleteId, opened>>

-----------------------------------------------------------------------------
(* The callbacks.                                                          *)

\* load: a failure leaves the old list.
AccountsLoaded(c, r) ==
    /\ asked[c].kind = "load"
    /\ accounts' = IF r.code = "ok" THEN r.data ELSE accounts
    /\ fetching' = FALSE
    /\ Finish(c, r)
    /\ UNCHANGED <<modal, opening>>

\* onCreated closes any dialog.
Created(c) ==
    /\ modal' = NoModal /\ opening' = FALSE
    /\ FinishAndAsk(c, LoadAccounts)

\* The dialog of the call, if it is still open, shows the error.
NotCreated(c, r) ==
    /\ opening' = (opening /\ modal # asked[c].modal)
    /\ Finish(c, r)
    /\ UNCHANGED modal

\* handleSubmit, after its await.
CreateEnds(c, r) ==
    /\ asked[c].kind = "create"
    /\ IF r.code = "ok" THEN Created(c) ELSE NotCreated(c, r)
    /\ UNCHANGED <<accounts, fetching>>

\* handleConfirmDelete, after its await: a refusal does not load the list again.
CloseEnds(c, r) ==
    /\ asked[c].kind = "close"
    /\ IF r.code = "ok" THEN FinishAndAsk(c, LoadAccounts) ELSE Finish(c, r)
    /\ UNCHANGED <<accounts, fetching, modal, opening>>

DashboardCallback(c) ==
    /\ \E r \in {reply[c], Lost} :
          Outcome(c, r) /\ (AccountsLoaded(c, r) \/ CreateEnds(c, r) \/ CloseEnds(c, r))
    /\ UNCHANGED <<account, used, confirmDeleteId, opened>>

DashboardRest == AtRest /\ UNCHANGED dashboardPageVars

DashboardNext ==
    \/ DashboardUser \/ AccountsChange
    \/ \E c \in Calls : ServeDashboard(c) \/ DashboardCallback(c)
    \/ DashboardRest

DashboardSpec == DashboardInit /\ [][DashboardNext]_dashboardPageVars

-----------------------------------------------------------------------------
(* Properties.                                                             *)

\* However often it is submitted, closed and answered, a dialog opens at most one
\* account, as long as no call fails in the network: only a refusal leaves it open
\* for another submission.
OneAccountPerDialog == ~blind => \A t \in Modals : opened[t] <= 1

\* When nothing is under way, the list is what the server has, unless an answer
\* was lost, a load overtook an earlier one, or the accounts changed elsewhere.
AccountListIsCurrent == Quiet /\ calm => accounts = AccountListing

\* The page and its dialog wait only for calls that are under way.
DashboardWaitsForCalls ==
    /\ fetching => Loads # {}
    /\ opening => \E c \in UnderWay : asked[c].kind = "create" /\ asked[c].modal = modal
=============================================================================
