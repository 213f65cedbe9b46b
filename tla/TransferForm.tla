----------------------------- MODULE TransferForm ----------------------------
(***************************************************************************)
(* The transfer page of the web client (frontend/src/pages/TransferForm)   *)
(* in front of the server of Ledger.  The page holds an idempotency key;   *)
(* one user makes one payment, and submits again while the page lets her.  *)
(* The server handles the submissions among the requests of others.        *)
(*                                                                         *)
(* An answer can be lost on its way (the handler has finished, the page    *)
(* gets a network error), and a crash of the server loses it as well.      *)
(* Validation of the fields, which sends nothing, is left out.             *)
(***************************************************************************)
EXTENDS Ledger

CONSTANTS
    Payer,      \* the user of the page
    From,       \* the account she pays from
    To,         \* the account she pays to
    Amount,     \* the amount of the payment
    PageKeys,   \* the UUIDs that the page may draw, and nobody else
    Others      \* the calls that everybody else may send

Payment(k) == [kind |-> "transfer", user |-> Payer, account |-> From,
               to |-> To, amount |-> Amount, key |-> k]

ASSUME FormIsOfLedger ==
    /\ PageKeys \subseteq Keys
    /\ \A k \in PageKeys : Payment(k) \in Menu
    /\ Others \subseteq Menu
    /\ \A c \in Others : c.kind = "transfer" => c.key \notin PageKeys

VARIABLES
    page,       \* "editing", "submitting", or "left" once it has navigated away
    key,        \* the state idempotencyKey of the page
    request,    \* the submission that the page waits for
    told,       \* what the page has told the user
    held,       \* history: the keys that the page has held
    blind       \* history: an answer to the page was lost

pageVars == <<page, key, request, told, held, blind>>

formVars == <<vars, pageVars>>

FormInit ==
    /\ Init
    /\ page = "editing" /\ told = "nothing" /\ request = NoRequest /\ blind = FALSE
    /\ \E k \in PageKeys : key = k /\ held = {k}

\* The button is disabled while a submission is under way.
Submit(r) ==
    /\ page = "editing"
    /\ ArriveWith(r, Payment(key))
    /\ page' = "submitting" /\ request' = r /\ told' = "nothing"
    /\ UNCHANGED <<key, held, blind>>

\* uuidv4() gives a key that nobody has held.
NewKey == \E k \in PageKeys \ held : key' = k /\ held' = held \union {k}

\* The page navigates back.
Leave(what) ==
    /\ page' = "left" /\ told' = what
    /\ UNCHANGED <<key, held>>

\* The page shows an error, and takes a new key for the next submission.
ShowError ==
    /\ page' = "editing" /\ told' = "error"
    /\ NewKey

\* Deviation: every 409 is taken for the answer to a duplicate.
React409(code) ==
    CASE code = "ok" -> Leave("completed")
      [] code \in {"duplicateKey", "concurrentModification"} -> Leave("alreadyProcessed")
      [] OTHER -> ShowError

\* Deviation: the page is not left when the transfer is completed.
ReactStaying(code) ==
    CASE code = "duplicateKey" -> Leave("alreadyProcessed")
      [] OTHER -> ShowError

\* What the page does with an answer.
React(code) ==
    CASE code = "ok"           -> Leave("completed")
      [] code = "duplicateKey" -> Leave("alreadyProcessed")
      [] OTHER                 -> ShowError

ReceiveAnswer ==
    /\ page = "submitting"
    /\ Reply(request)
    /\ React(answer[request])
    /\ request' = NoRequest
    /\ UNCHANGED blind

\* The handler has finished, but its answer does not reach the page: a network
\* error, of which the page knows no code.
LoseAnswer ==
    /\ page = "submitting"
    /\ Reply(request)
    /\ ShowError
    /\ request' = NoRequest /\ blind' = TRUE

\* The connection breaks when the server dies.
NoticeCrash ==
    /\ page = "submitting" /\ pc[request] = "lost"
    /\ ShowError
    /\ request' = NoRequest /\ blind' = TRUE
    /\ UNCHANGED vars

\* The server goes on with this request and with those of others.
Serve(r) ==
    /\ r = request => pc[r] # "reply"
    /\ Handle(r)
    /\ UNCHANGED pageVars

OthersArrive(r) ==
    /\ \E c \in Others : ArriveWith(r, c)
    /\ UNCHANGED pageVars

\* The user has first submitted fields that the schema refuses with details (a 422,
\* before any statement): the page marks them, and keeps its key for the payment.
FieldsRefused ==
    /\ page = "editing"
    /\ told' = "error"
    /\ UNCHANGED <<vars, page, key, request, held, blind>>

ServerCrash == Crash /\ UNCHANGED pageVars

FormRest == page # "submitting" /\ Rest /\ UNCHANGED pageVars

FormNext ==
    \/ \E r \in Requests : Submit(r) \/ Serve(r) \/ OthersArrive(r)
    \/ ReceiveAnswer \/ LoseAnswer \/ NoticeCrash \/ FieldsRefused
    \/ ServerCrash
    \/ FormRest

FormSpec == FormInit /\ [][FormNext]_formVars

-----------------------------------------------------------------------------
(* Properties.                                                             *)

\* The transfers that the payment has made.
Paid == {t \in db.transfers : t.key \in held}

\* The page tells the user that the transfer is completed, or was processed
\* already, only if the money has moved.
ToldIsTrue ==
    told \in {"completed", "alreadyProcessed"} => Paid # {}

\* As long as every answer reaches the page, the payment is made at most once,
\* although the page takes a new key after every error it is told of: those
\* errors (a concurrent modification, a locked database, a violated constraint)
\* all leave nothing behind.
PaidOnceIfAnswered == blind \/ Cardinality(Paid) <= 1

\* docs/project-info.md: the idempotency key prevents duplicate processing.  So a
\* payment that its user submits again after an error is made once.
PaidOnce == Cardinality(Paid) <= 1
=============================================================================
