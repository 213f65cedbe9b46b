-------------------------------- MODULE CardsTab -------------------------------
(***************************************************************************)
(* The cards of an account on its page (CardsTab, CardItem and RevealModal *)
(* of frontend/src/pages/AccountDetail), with the server's cards behind it.*)
(*                                                                         *)
(* The page acts on a list it has read earlier.  The dialog that asks for  *)
(* the password covers the page, and can be closed while its call is under *)
(* way; the callback of that call then still runs, with the variables it   *)
(* was created with.  Copying the number to the clipboard is left out.     *)
(***************************************************************************)
EXTENDS PageCalls

CONSTANTS
    CardIds,    \* numbers of cards, in the order in which they are issued
    NoCard,     \* the null of a card
    NoCall,     \* the null of a call
    Issued      \* the kind of each card that exists at first

Kinds == {"DEBIT", "VIRTUAL"}

ASSUME CardsTabConstants ==
    /\ CardIds \subseteq Nat /\ NoCard \notin CardIds /\ NoCall \notin Calls
    /\ DOMAIN Issued \subseteq CardIds /\ Issued \in [DOMAIN Issued -> Kinds]

\* The limit of one card of a kind holds of the cards that exist at first.
ASSUME IssuedDiffer == \A j, k \in DOMAIN Issued : Issued[j] = Issued[k] => j = k

VARIABLES
    kindOf,     \* server: the kind of each card
    status,     \* server: the status of each card
    list,       \* the state cards of the tab: the status it lists for each card
    listing,    \* the state loading of the tab: the spinner is shown
    confirming, \* the card whose removal the user is asked to confirm
    prompt,     \* the card for which the password is asked
    waiting,    \* the call that the dialog of the password waits for
    revealed,   \* whose details are shown on each card
    hasty       \* history: a card was asked for while some call was under way

tabVars == <<kindOf, status, list, listing, confirming, prompt, waiting, revealed, hasty>>

cardTabVars == <<net, tabVars>>

Live == {"ACTIVE", "INACTIVE", "BLOCKED"}

Listing == [k \in CardIds |-> IF status[k] \in Live THEN status[k] ELSE "absent"]

Load == [kind |-> "load"]

TabInit ==
    /\ kindOf = [k \in CardIds |-> IF k \in DOMAIN Issued THEN Issued[k] ELSE "none"]
    /\ status = [k \in CardIds |-> IF k \in DOMAIN Issued THEN "ACTIVE" ELSE "absent"]
    /\ list = [k \in CardIds |-> "absent"] /\ listing = TRUE
    /\ confirming = NoCard /\ prompt = NoCard /\ waiting = NoCall
    /\ revealed = [k \in CardIds |-> NoCard]
    /\ hasty = FALSE

CardsTabInit == TabInit /\ Mount(Load, Calls)

-----------------------------------------------------------------------------
(* The user.                                                               *)

\* Nothing covers the tab.
Open == prompt = NoCard /\ Room

\* Deviation: only an active card counts for the limit.
HasActive(kind) == \E k \in CardIds : list[k] = "ACTIVE" /\ kindOf[k] = kind

\* hasDebit and hasVirtual.
Has(kind) == \E k \in CardIds : list[k] # "absent" /\ kindOf[k] = kind

\* Bound: there is a card left to issue.
CardLeft ==
    Cardinality({k \in CardIds : status[k] = "absent"})
        > Cardinality({c \in Calls : asked[c].kind = "issue"})

\* The button of a kind is disabled while the list has a card of the kind.
Generate(c, kind) ==
    /\ Open /\ CardLeft
    /\ ~Has(kind)
    /\ Ask(c, [kind |-> "issue", type |-> kind])
    /\ hasty' = (hasty \/ ~Quiet)
    /\ UNCHANGED <<kindOf, status, list, listing, confirming, prompt, waiting, revealed>>

\* What the buttons of a listed card offer: blocking or unblocking it.
Offered(k) ==
    {s \in {"ACTIVE", "BLOCKED"} :
        confirming # k /\ {s, list[k]} = {"ACTIVE", "BLOCKED"}}

ChangeStatus(c, k) ==
    /\ Open
    /\ \E s \in Offered(k) : Ask(c, [kind |-> "status", card |-> k, status |-> s])
    /\ UNCHANGED tabVars

\* "Remove", and "Cancel" of the question that it asks.
AskToConfirm(k) ==
    /\ prompt = NoCard /\ list[k] # "absent"
    /\ confirming' = IF confirming = k THEN NoCard ELSE k
    /\ UNCHANGED <<net, kindOf, status, list, listing, prompt, waiting, revealed, hasty>>

\* "Yes, remove".
ConfirmDelete(c, k) ==
    /\ Open
    /\ confirming = k /\ list[k] # "absent"
    /\ Ask(c, [kind |-> "delete", card |-> k])
    /\ confirming' = NoCard
    /\ UNCHANGED <<kindOf, status, list, listing, prompt, waiting, revealed, hasty>>

\* "Click to view card details": not offered on a blocked card, nor while its
\* details are shown.
AskForPassword(k) ==
    /\ prompt = NoCard
    /\ list[k] \in {"ACTIVE", "INACTIVE"} /\ revealed[k] = NoCard
    /\ prompt' = k
    /\ UNCHANGED <<net, kindOf, status, list, listing, confirming, waiting, revealed, hasty>>

\* The button and the field are disabled while the dialog waits for a call.
SubmitPassword(c, right) ==
    /\ prompt # NoCard /\ waiting = NoCall /\ Room
    /\ Ask(c, [kind |-> "reveal", card |-> prompt, right |-> right])
    /\ waiting' = c
    /\ UNCHANGED <<kindOf, status, list, listing, confirming, prompt, revealed, hasty>>

\* The cross and the Escape key are not disabled.
ClosePrompt ==
    /\ prompt # NoCard
    /\ prompt' = NoCard /\ waiting' = NoCall
    /\ UNCHANGED <<net, kindOf, status, list, listing, confirming, revealed, hasty>>

HideDetails(k) ==
    /\ prompt = NoCard
    /\ list[k] # "absent" /\ revealed[k] # NoCard
    /\ revealed' = [revealed EXCEPT ![k] = NoCard]
    /\ UNCHANGED <<net, kindOf, status, list, listing, confirming, prompt, waiting, hasty>>

User ==
    \/ \E c \in Calls : \/ \E kind \in Kinds : Generate(c, kind)
                        \/ \E k \in CardIds : ChangeStatus(c, k) \/ ConfirmDelete(c, k)
                        \/ \E right \in BOOLEAN : SubmitPassword(c, right)
    \/ \E k \in CardIds : AskToConfirm(k) \/ AskForPassword(k) \/ HideDetails(k)
    \/ ClosePrompt

-----------------------------------------------------------------------------
(* The server.                                                             *)

ServeLoad(c) ==
    /\ asked[c].kind = "load"
    /\ Answer(c, [code |-> "ok", data |-> Listing])
    /\ UNCHANGED <<kindOf, status>>

\* The server knows no limit.
ServeIssue(c) ==
    /\ asked[c].kind = "issue"
    /\ \E k \in CardIds :
          /\ status[k] = "absent" /\ \A j \in CardIds : j < k => status[j] # "absent"
          /\ kindOf' = [kindOf EXCEPT ![k] = asked[c].type]
          /\ status' = [status EXCEPT ![k] = "ACTIVE"]
    /\ Answer(c, [code |-> "ok"])

\* Status and deletion: the card is not found once it is deleted.
ServeChange(c) ==
    LET k == asked[c].card IN
    /\ asked[c].kind \in {"status", "delete"}
    /\ IF status[k] \in Live
       THEN /\ status' = [status EXCEPT ![k] = IF asked[c].kind = "delete" THEN "deleted"
                                               ELSE asked[c].status]
            /\ Answer(c, [code |-> "ok"])
       ELSE Answer(c, [code |-> "notFound"]) /\ UNCHANGED status
    /\ UNCHANGED kindOf

\* The details of a card, named by the card.
ServeReveal(c) ==
    LET k == asked[c].card IN
    /\ asked[c].kind = "reveal"
    /\ Answer(c, IF status[k] \notin Live THEN [code |-> "notFound"]
                 ELSE IF asked[c].right THEN [code |-> "ok", data |-> k]
                 ELSE [code |-> "wrongPassword"])
    /\ UNCHANGED <<kindOf, status>>

Refuse(c) == Answer(c, Refused) /\ UNCHANGED <<kindOf, status>>

ServeTab(c) ==
    /\ ServeLoad(c) \/ ServeIssue(c) \/ ServeChange(c) \/ ServeReveal(c) \/ Refuse(c)
    /\ UNCHANGED <<list, listing, confirming, prompt, waiting, revealed, hasty>>

\* The user blocks or deletes a card in another window.  Bound: once.
OtherWindow ==
    /\ calm /\ Meddled
    /\ \E k \in CardIds : \E s \in {"BLOCKED", "deleted"} :
          status[k] \in Live /\ status' = [status EXCEPT ![k] = s]
    /\ UNCHANGED <<kindOf, list, listing, confirming, prompt, waiting, revealed, hasty>>

-----------------------------------------------------------------------------
(* The callbacks.                                                          *)

\* loadCards: a failure leaves the old list.
ListLoaded(c, r) ==
    /\ asked[c].kind = "load"
    /\ list' = IF r.code = "ok" THEN r.data ELSE list
    /\ listing' = FALSE
    /\ Finish(c, r)
    /\ UNCHANGED <<kindOf, status, confirming, prompt, waiting, revealed, hasty>>

\* Deviation: a change of status does not load the list again.
IsReloadedWithoutStatus(c, r) ==
    asked[c].kind # "status" /\ (r.code = "ok" \/ (asked[c].kind # "issue" /\ r.code = "notFound"))

\* Success, and for a card that is gone also the failure, loads the list again.
IsReloaded(c, r) == r.code = "ok" \/ (asked[c].kind # "issue" /\ r.code = "notFound")

\* The details of a removed card are forgotten.
RevealedAfter(c, r) ==
    IF asked[c].kind = "delete" /\ r.code = "ok"
    THEN [revealed EXCEPT ![asked[c].card] = NoCard] ELSE revealed

\* handleGenerate, handleStatusChange and handleConfirmDelete.
Changed(c, r) ==
    /\ asked[c].kind \in {"issue", "status", "delete"}
    /\ revealed' = RevealedAfter(c, r)
    /\ IF IsReloaded(c, r) THEN FinishAndAsk(c, Load) ELSE Finish(c, r)
    /\ UNCHANGED <<kindOf, status, list, listing, confirming, prompt, waiting, hasty>>

\* Deviation: the details go to the card that the dialog is for now.
RevealSucceedsForPrompt(c, r) ==
    /\ revealed' = IF prompt = NoCard THEN revealed ELSE [revealed EXCEPT ![prompt] = r.data]
    /\ prompt' = NoCard /\ waiting' = NoCall
    /\ Finish(c, r)

\* handleRevealSuccess has the card of its own dialog, but closes any dialog.
RevealSucceeds(c, r) ==
    /\ revealed' = [revealed EXCEPT ![asked[c].card] = r.data]
    /\ prompt' = NoCard /\ waiting' = NoCall
    /\ Finish(c, r)

\* onCardGone.
RevealFindsNothing(c, r) ==
    /\ prompt' = NoCard /\ waiting' = NoCall
    /\ FinishAndAsk(c, Load)
    /\ UNCHANGED revealed

\* Deviation: the dialog does not stop loading when the password is wrong.
RevealFailsLoading(c, r) ==
    /\ waiting' = IF waiting = c /\ r.code # "wrongPassword" THEN NoCall ELSE waiting
    /\ Finish(c, r)
    /\ UNCHANGED <<prompt, revealed>>

\* A wrong password, or another failure: the dialog, if it is still there, shows
\* an error.
RevealFails(c, r) ==
    /\ waiting' = IF waiting = c THEN NoCall ELSE waiting
    /\ Finish(c, r)
    /\ UNCHANGED <<prompt, revealed>>

PasswordChecked(c, r) ==
    /\ asked[c].kind = "reveal"
    /\ \/ r.code = "ok" /\ RevealSucceeds(c, r)
       \/ r.code = "notFound" /\ RevealFindsNothing(c, r)
       \/ r.code \notin {"ok", "notFound"} /\ RevealFails(c, r)
    /\ UNCHANGED <<kindOf, status, list, listing, confirming, hasty>>

Callback(c) ==
    \E r \in {reply[c], Lost} :
        /\ Outcome(c, r)
        /\ ListLoaded(c, r) \/ Changed(c, r) \/ PasswordChecked(c, r)

CardsTabRest == AtRest /\ UNCHANGED cardTabVars

CardsTabNext ==
    \/ User \/ OtherWindow
    \/ \E c \in Calls : ServeTab(c) \/ Callback(c)
    \/ CardsTabRest

CardsTabSpec == CardsTabInit /\ [][CardsTabNext]_cardTabVars

-----------------------------------------------------------------------------
(* Properties.                                                             *)

\* Whatever is closed, opened and answered in between, the details shown on a
\* card are its own: the callback uses the card it was sent for, not the one that
\* the dialog is for when it is answered.
RevealedUnderOwnCard == \A k \in CardIds : revealed[k] \in {NoCard, k}

\* When nothing is under way, the list is what the server has, unless a call failed,
\* a load overtook an earlier one or another window was used: whatever a change has
\* done, and in whichever order changes are answered, a load comes after it, however
\* many are under way already.
ListIsCurrent == Quiet /\ calm => list = Listing

\* The tab and its dialog wait only for calls that are under way, the dialog for one
\* about the card that it is for.
CardsTabWaitsForCalls ==
    /\ listing => Loads # {}
    /\ waiting # NoCall =>
          /\ waiting \in UnderWay
          /\ asked[waiting].kind = "reveal" /\ asked[waiting].card = prompt

OneOfAKind ==
    \A j, k \in CardIds :
        status[j] \in Live /\ status[k] \in Live /\ kindOf[j] = kindOf[k] => j = k

\* The limit of one card of a kind, which only the page knows, holds as long as
\* the user waits for the end of every call before she asks for a card, no answer
\* is lost and no other window is used.
OneOfAKindIfPatient == calm /\ ~hasty => OneOfAKind
=============================================================================
