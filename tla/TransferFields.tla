------------------------------ MODULE TransferFields ---------------------------
(***************************************************************************)
(* The fields of the transfer page (frontend/src/pages/TransferForm): which*)
(* accounts the user chooses or types, and which the page then pays from   *)
(* and to.  TransferForm has the other half of the page: the idempotency   *)
(* key and what the page makes of each answer.                             *)
(*                                                                         *)
(* A recipient is chosen from the user's own accounts, or typed: as the    *)
(* number of an account, which the page looks up before it sends the       *)
(* transfer, or as an id, which it sends as it is.  The amount and the     *)
(* description are left out; a form is only submitted with an amount.      *)
(***************************************************************************)
EXTENDS PageCalls

CONSTANTS
    Own,        \* the user's accounts
    Others,     \* other people's accounts
    Nobody      \* the empty string in a field

ASSUME TransferFieldsConstants == Own \intersect Others = {} /\ Nobody \notin Own

Recipients == [written : {"id", "number"}, account : Own \union Others]

ASSUME NobodyIsNoRecipient == Nobody \notin Recipients

VARIABLES
    active,     \* server: the accounts that are not closed
    eligible,   \* the state accounts: the user's accounts, as they were loaded
    source,     \* the field from_account_id
    target,     \* the field to_account_id
    mode,       \* the state recipientMode
    submitting, \* the state submitting
    loadingAccts,   \* the whole page is a spinner
    left        \* the page has navigated away

fieldVars == <<active, eligible, source, target, mode, submitting, loadingAccts, left>>

transferFieldsVars == <<net, fieldVars>>

LoadEligible == [kind |-> "load"]

FieldsInit ==
    /\ active = Own \union Others
    /\ eligible = {} /\ source = Nobody /\ target = Nobody /\ mode = "internal"
    /\ submitting = FALSE /\ loadingAccts = TRUE /\ left = FALSE

TransferFieldsInit == FieldsInit /\ Mount(LoadEligible, Calls)

-----------------------------------------------------------------------------
(* The user.                                                               *)

\* Every field is disabled while the page submits.
Editing == ~loadingAccts /\ ~submitting /\ ~left

\* Deviation: the destination stays when it becomes the source.
ChooseSourceOnly(a) ==
    /\ Editing /\ a \in eligible /\ a # source
    /\ source' = a
    /\ UNCHANGED <<net, active, eligible, target, mode, submitting, loadingAccts, left>>

\* handleChange of the source: among her own accounts, a destination that is now
\* the source is cleared.
ChooseSource(a) ==
    /\ Editing /\ a \in eligible /\ a # source
    /\ source' = a
    /\ target' = IF mode = "internal" /\ target # Nobody /\ target.account = a THEN Nobody ELSE target
    /\ UNCHANGED <<net, active, eligible, mode, submitting, loadingAccts, left>>

\* The list of her own accounts offers all but the source; the other field takes
\* whatever is typed.
ChooseTarget(r) ==
    /\ Editing /\ r # target
    /\ mode = "internal" /\ r # Nobody =>
          r.written = "id" /\ r.account \in eligible \ {source}
    /\ target' = r
    /\ UNCHANGED <<net, active, eligible, source, mode, submitting, loadingAccts, left>>

\* switchMode.
SwitchMode(m) ==
    /\ Editing /\ m # mode
    /\ mode' = m /\ target' = Nobody
    /\ UNCHANGED <<net, active, eligible, source, submitting, loadingAccts, left>>

\* handleSubmit up to its first await.
SubmitTransfer(c) ==
    /\ Editing /\ eligible # {} /\ source # Nobody /\ target # Nobody /\ Room
    /\ IF mode = "external" /\ target.written = "number"
       THEN Ask(c, [kind |-> "lookup", number |-> target.account, from |-> source])
       ELSE Ask(c, [kind |-> "transfer", from |-> source, to |-> target.account])
    /\ submitting' = TRUE
    /\ UNCHANGED <<active, eligible, source, target, mode, loadingAccts, left>>

FieldsUser ==
    \/ \E a \in Own : ChooseSource(a)
    \/ \E r \in Recipients \union {Nobody} : ChooseTarget(r)
    \/ \E m \in {"internal", "external"} : SwitchMode(m)
    \/ \E c \in Calls : SubmitTransfer(c)

-----------------------------------------------------------------------------
(* The server.                                                             *)

TellEligible(c) ==
    asked[c].kind = "load" /\ Answer(c, [code |-> "ok", data |-> Own \intersect active])

TellNumber(c) ==
    /\ asked[c].kind = "lookup"
    /\ Answer(c, IF asked[c].number \in active THEN [code |-> "ok", data |-> asked[c].number]
                 ELSE [code |-> "notFound"])

\* Ledger has the transfer in detail; here it only matters when it cannot succeed.
Transfer(c) ==
    /\ asked[c].kind = "transfer"
    /\ {asked[c].from, asked[c].to} \subseteq active /\ asked[c].from # asked[c].to
    /\ Answer(c, [code |-> "ok"])

RefuseFields(c) == Answer(c, Refused)

ServeFields(c) ==
    /\ TellEligible(c) \/ TellNumber(c) \/ Transfer(c) \/ RefuseFields(c)
    /\ UNCHANGED fieldVars

\* An account is closed elsewhere.  Bound: once.
AccountIsClosed ==
    /\ calm /\ Meddled
    /\ \E a \in active : active' = active \ {a}
    /\ UNCHANGED <<eligible, source, target, mode, submitting, loadingAccts, left>>

-----------------------------------------------------------------------------
(* The callbacks.                                                          *)

\* The first account is chosen, or the one whose page the user came from; who has
\* no second one is asked for somebody else's.
EligibleKnown(c, r) ==
    /\ asked[c].kind = "load"
    /\ eligible' = IF r.code = "ok" THEN r.data ELSE eligible
    /\ source' \in IF eligible' = {} THEN {source} ELSE eligible'
    /\ mode' = IF r.code = "ok" /\ Cardinality(r.data) <= 1 THEN "external" ELSE mode
    /\ loadingAccts' = FALSE
    /\ Finish(c, r)
    /\ UNCHANGED <<target, submitting, left>>

\* The number that was looked up is not told on; the id is.
LookedUp(c, r) ==
    /\ asked[c].kind = "lookup"
    /\ IF r.code = "ok"
       THEN /\ FinishAndAsk(c, [kind |-> "transfer", from |-> asked[c].from, to |-> r.data])
            /\ UNCHANGED submitting
       ELSE Finish(c, r) /\ submitting' = FALSE
    /\ UNCHANGED <<eligible, source, target, mode, loadingAccts, left>>

\* Success leaves the page.  A refusal gives it back or, if it says that the transfer
\* was already processed, leaves it as well: TransferForm tells the refusals apart.
Transferred(c, r) ==
    /\ asked[c].kind = "transfer"
    /\ left' \in BOOLEAN
    /\ r.code = "ok" => left'
    /\ r = Lost => ~left'
    /\ submitting' = FALSE
    /\ Finish(c, r)
    /\ UNCHANGED <<eligible, source, target, mode, loadingAccts>>

FieldsCallback(c) ==
    /\ \E r \in {reply[c], Lost} :
          Outcome(c, r) /\ (EligibleKnown(c, r) \/ LookedUp(c, r) \/ Transferred(c, r))
    /\ UNCHANGED active

TransferFieldsRest == AtRest /\ UNCHANGED transferFieldsVars

TransferFieldsNext ==
    \/ FieldsUser \/ AccountIsClosed
    \/ \E c \in Calls : ServeFields(c) \/ FieldsCallback(c)
    \/ TransferFieldsRest

TransferFieldsSpec == TransferFieldsInit /\ [][TransferFieldsNext]_transferFieldsVars

-----------------------------------------------------------------------------
(* Properties.                                                             *)

\* As long as a transfer is under way, from the lookup to the answer, it is the one
\* that the page shows: from the account in the first field to the one that the
\* second field names.  Among her own accounts it is never from one to itself, and
\* a number is never taken for an id, in whichever order the fields were used.
PaysWhatIsShown ==
    \A c \in UnderWay :
        /\ asked[c].kind = "lookup" =>
              /\ asked[c].from = source /\ mode = "external"
              /\ target = [written |-> "number", account |-> asked[c].number]
        /\ asked[c].kind = "transfer" =>
              /\ asked[c].from = source /\ target # Nobody /\ asked[c].to = target.account
              /\ mode = "internal" => target.written = "id" /\ asked[c].to # source

\* The page waits only for calls that are under way.
TransferFieldsWaitForCalls ==
    /\ loadingAccts => Loads # {}
    /\ submitting => \E c \in UnderWay : asked[c].kind \in {"lookup", "transfer"}
=============================================================================
