------------------------------- MODULE AccountPage -----------------------------
(***************************************************************************)
(* The head of the page of an account (AccountDetail, DepositModal and     *)
(* WithdrawalModal of frontend/src/pages/AccountDetail): the balance, and  *)
(* the dialogs that deposit and withdraw, with the account behind them.    *)
(*                                                                         *)
(* A dialog covers the page.  It can be closed with the cross or Escape    *)
(* while its call is under way, and opened again; the callback of the call *)
(* still runs, and closes whatever dialog of its kind is open.  There is no*)
(* idempotency key.  Notes and the texts of errors are left out.           *)
(***************************************************************************)
EXTENDS PageCalls

CONSTANTS
    Sums,       \* the amounts the user enters
    Opening,    \* the balance of the account at first
    Dialogs,    \* the numbers of the dialogs, in the order they are opened
    NoDialog,   \* the null of a dialog
    Unknown     \* the null of a balance

ASSUME AccountPageConstants ==
    /\ Sums \subseteq Nat \ {0} /\ Opening \in Nat /\ Unknown \notin Nat
    /\ Dialogs \subseteq Nat /\ NoDialog \notin Dialogs

VARIABLES
    balance,    \* server: the balance of the account
    isOpen,     \* server: the account is not closed
    shown,      \* the state account of the page: the balance it shows
    spinning,   \* the state loading of the page
    dialog,     \* the dialog that is open
    dialogKind, \* the kind of each dialog that was opened
    busy,       \* the state loading of the open dialog
    told,       \* history: what each dialog has said of its last submission
    moved       \* history: how often the submissions of each dialog moved money

headVars == <<balance, isOpen, shown, spinning, dialog, dialogKind, busy, told, moved>>

accountPageVars == <<net, headVars>>

LoadAccount == [kind |-> "load"]

HeadInit ==
    /\ balance = Opening /\ isOpen = TRUE
    /\ shown = Unknown /\ spinning = TRUE
    /\ dialog = NoDialog /\ busy = FALSE
    /\ dialogKind = [t \in Dialogs |-> "none"]
    /\ told = [t \in Dialogs |-> "nothing"]
    /\ moved = [t \in Dialogs |-> 0]

AccountPageInit == HeadInit /\ Mount(LoadAccount, Calls)

-----------------------------------------------------------------------------
(* The user.                                                               *)

\* The buttons of the head, which a dialog covers.
CanOpen(kind) ==
    /\ ~spinning /\ shown # Unknown /\ dialog = NoDialog
    /\ kind = "withdraw" => shown > 0

OpenDialog(t, kind) ==
    /\ CanOpen(kind)
    /\ dialogKind[t] = "none" /\ \A s \in Dialogs : s < t => dialogKind[s] # "none"
    /\ dialog' = t
    /\ dialogKind' = [dialogKind EXCEPT ![t] = kind]
    /\ UNCHANGED <<net, balance, isOpen, shown, spinning, busy, told, moved>>

\* The cross and Escape at any time; Cancel only while the dialog does not wait.
CloseDialog ==
    /\ dialog # NoDialog
    /\ dialog' = NoDialog /\ busy' = FALSE
    /\ UNCHANGED <<net, balance, isOpen, shown, spinning, dialogKind, told, moved>>

\* Deviation: the button is not disabled while the dialog waits.
MaySubmitAlways(a) ==
    dialog # NoDialog /\ (dialogKind[dialog] = "withdraw" => a <= shown)

\* What handleSubmit and the disabled button let through.
MaySubmit(a) ==
    /\ dialog # NoDialog /\ ~busy
    /\ dialogKind[dialog] = "withdraw" => a <= shown

Submit(c, a) ==
    /\ MaySubmit(a) /\ Room
    /\ Ask(c, [kind |-> dialogKind[dialog], dialog |-> dialog, amount |-> a])
    /\ busy' = TRUE
    /\ told' = [told EXCEPT ![dialog] = "nothing"]
    /\ UNCHANGED <<balance, isOpen, shown, spinning, dialog, dialogKind, moved>>

AccountUser ==
    \/ \E t \in Dialogs : \E kind \in {"deposit", "withdraw"} : OpenDialog(t, kind)
    \/ CloseDialog
    \/ \E c \in Calls : \E a \in Sums : Submit(c, a)

-----------------------------------------------------------------------------
(* The server.                                                             *)

ServeAccount(c) ==
    /\ asked[c].kind = "load"
    /\ Answer(c, IF isOpen THEN [code |-> "ok", data |-> balance] ELSE [code |-> "notFound"])
    /\ UNCHANGED <<balance, moved>>

\* The balance after call c.
Moved(c) ==
    IF asked[c].kind = "deposit" THEN balance + asked[c].amount ELSE balance - asked[c].amount

ServeMoney(c) ==
    /\ asked[c].kind \in {"deposit", "withdraw"}
    /\ isOpen
    /\ asked[c].kind = "withdraw" => asked[c].amount <= balance
    /\ balance' = Moved(c)
    /\ moved' = [moved EXCEPT ![asked[c].dialog] = @ + 1]
    /\ Answer(c, [code |-> "ok"])

\* A closed account, missing funds, a concurrent modification, a locked database.
RefuseMoney(c) == Answer(c, Refused) /\ UNCHANGED <<balance, moved>>

ServeHead(c) ==
    /\ ServeAccount(c) \/ ServeMoney(c) \/ RefuseMoney(c)
    /\ UNCHANGED <<isOpen, shown, spinning, dialog, dialogKind, busy, told>>

\* Money comes in, or leaves, or an empty account is closed.  Bound: once.
Elsewhere ==
    /\ calm /\ Meddled
    /\ \/ \E n \in {balance + 1, balance - 1} \intersect Nat : isOpen /\ balance' = n /\ UNCHANGED isOpen
       \/ balance = 0 /\ isOpen' = FALSE /\ UNCHANGED balance
    /\ UNCHANGED <<shown, spinning, dialog, dialogKind, busy, told, moved>>

-----------------------------------------------------------------------------
(* The callbacks.                                                          *)

\* loadAccount: a failure leaves the old balance.
AccountLoaded(c, r) ==
    /\ asked[c].kind = "load"
    /\ shown' = IF r.code = "ok" THEN r.data ELSE shown
    /\ spinning' = FALSE
    /\ Finish(c, r)
    /\ UNCHANGED <<balance, isOpen, dialog, dialogKind, busy, told, moved>>

\* onSuccess closes the dialog of its kind, whichever it is.
StaysOpen(c) == dialog = NoDialog \/ dialogKind[dialog] # asked[c].kind

MoneyMoved(c) ==
    /\ told' = [told EXCEPT ![asked[c].dialog] = "done"]
    /\ dialog' = IF StaysOpen(c) THEN dialog ELSE NoDialog
    /\ busy' = (busy /\ StaysOpen(c) /\ dialog # asked[c].dialog)
    /\ FinishAndAsk(c, LoadAccount)
    /\ UNCHANGED shown

\* A failed deposit is told by a toast too; a failed withdrawal only in its
\* dialog, if it is still open.
MoneyNotMoved(c, r) ==
    /\ told' = IF asked[c].kind = "deposit" \/ dialog = asked[c].dialog
               THEN [told EXCEPT ![asked[c].dialog] = "failed"] ELSE told
    /\ busy' = (busy /\ dialog # asked[c].dialog)
    /\ Finish(c, r)
    /\ UNCHANGED <<shown, dialog>>

\* handleSubmit of both dialogs, after its await.
Submitted(c, r) ==
    /\ asked[c].kind \in {"deposit", "withdraw"}
    /\ IF r.code = "ok" THEN MoneyMoved(c) ELSE MoneyNotMoved(c, r)
    /\ UNCHANGED <<balance, isOpen, spinning, dialogKind, moved>>

HeadCallback(c) ==
    \E r \in {reply[c], Lost} : Outcome(c, r) /\ (AccountLoaded(c, r) \/ Submitted(c, r))

AccountPageRest == AtRest /\ UNCHANGED accountPageVars

AccountPageNext ==
    \/ AccountUser \/ Elsewhere
    \/ \E c \in Calls : ServeHead(c) \/ HeadCallback(c)
    \/ AccountPageRest

AccountPageSpec == AccountPageInit /\ [][AccountPageNext]_accountPageVars

-----------------------------------------------------------------------------
(* Properties.                                                             *)

\* What a dialog says is true.  "Done" is only said when money has moved.  As long
\* as no call fails in the network, a dialog moves money at most once however
\* often it is submitted, since only a refused call leaves it open; and it does not
\* say "failed" when money has moved.
DialogTellsTruth ==
    \A t \in Dialogs :
        /\ told[t] = "done" => moved[t] > 0
        /\ ~blind => moved[t] <= 1 /\ (told[t] = "failed" => moved[t] = 0)

\* When nothing is under way, the balance shown is the balance of the account,
\* unless a call failed, a load overtook an earlier one, or money moved elsewhere:
\* the last load was sent after the last deposit or withdrawal was carried out.
BalanceIsCurrent == Quiet /\ calm => shown = balance

\* The page and its dialog wait only for calls that are under way.
AccountPageWaitsForCalls ==
    /\ spinning => Loads # {}
    /\ busy => \E c \in UnderWay : asked[c].kind # "load" /\ asked[c].dialog = dialog
=============================================================================
