-------------------------- MODULE TransferFormProofs -------------------------
(***************************************************************************)
(* Proofs about TransferForm, for every number of requests, every set of   *)
(* calls that others send meanwhile, and every set of keys: what the page  *)
(* tells of the payment is true, and the payment is made at most once as   *)
(* long as no answer is lost.  The page is in front of Ledger, so every    *)
(* step of it is a step of Ledger or leaves the server alone, and what     *)
(* LedgerPromises proves of the tables holds here as well.                 *)
(***************************************************************************)
EXTENDS TransferForm, LedgerPromises, FiniteSetTheorems

-----------------------------------------------------------------------------
(* The invariant.                                                          *)

FormTypeOK ==
    /\ page \in {"editing", "submitting", "left"}
    /\ key \in held /\ held \subseteq PageKeys
    /\ request \in Requests \union {NoRequest}
    /\ blind \in BOOLEAN

\* The page waits for a payment with the key that it holds, or for nothing.
WaitsForPayment ==
    /\ page = "submitting" =>
          /\ request \in Requests
          /\ call[request] = Payment(key)
          /\ pc[request] \notin {"unsent", "answered"}
    /\ page # "submitting" => request = NoRequest

\* No earlier submission of the page is still under way.
OneSubmission ==
    \A r \in Requests :
        call[r].kind = "transfer" /\ call[r].key \in PageKeys =>
            /\ call[r].key \in held
            /\ InFlight(r) => r = request

\* A transfer with a key of the page is a transfer of the page.
TransfersAreHeld ==
    \A t \in db.transfers : t.key \in PageKeys => t.key \in held

\* Until a submission has succeeded nothing is paid, if the page has seen the
\* answers to all earlier ones.
UnpaidSoFar ==
    ~ blind =>
        /\ page = "editing" => Paid = {}
        /\ page = "submitting" /\ pc[request] # "lost" /\ answer[request] # "ok" =>
              Paid = {}

\* The answers that the page takes for a success.
SuccessIsPaid ==
    page = "submitting" /\ answer[request] \in {"ok", "duplicateKey"} =>
        \E t \in db.transfers : t.key = key

PaidByOne == blind \/ \A t, u \in Paid : t = u

ServerInv == IInv /\ TablesAgree /\ AnswerSuitsStep

FormInv ==
    /\ ServerInv
    /\ FormTypeOK
    /\ WaitsForPayment
    /\ OneSubmission
    /\ TransfersAreHeld
    /\ UnpaidSoFar
    /\ SuccessIsPaid
    /\ PaidByOne
    /\ ToldIsTrue

-----------------------------------------------------------------------------
(* Every step is a step of Ledger.                                         *)

LEMMA PaymentsAreCalls ==
    \A k \in PageKeys : /\ Payment(k) \in Menu /\ Payment(k) \in Calls
                        /\ Payment(k).kind = "transfer" /\ Payment(k).key = k
<1>1. \A k \in PageKeys : Payment(k) \in Menu /\ Payment(k) \in Calls
  BY FormIsOfLedger, MenuIsOfCalls
<1>2. \A k \in PageKeys : Payment(k).kind = "transfer" /\ Payment(k).key = k
  BY DEF Payment
<1> QED BY <1>1, <1>2

LEMMA FormStepsAreLedgerSteps ==
    ASSUME FormInv, [FormNext]_formVars
    PROVE  [Next]_vars
<1>1. ASSUME NEW r \in Requests, Submit(r) PROVE Next
  <2>1. Payment(key) \in Menu
    BY PaymentsAreCalls DEF FormInv, FormTypeOK
  <2> QED BY <1>1, <2>1 DEF Submit, Next, Arrive
<1>2. ASSUME NEW r \in Requests, Serve(r) PROVE Next
  BY <1>2 DEF Serve, Next
<1>3. ASSUME NEW r \in Requests, OthersArrive(r) PROVE Next
  BY <1>3, FormIsOfLedger DEF OthersArrive, Next, Arrive
<1>4. CASE ReceiveAnswer \/ LoseAnswer
  <2>1. request \in Requests /\ Reply(request)
    BY <1>4 DEF ReceiveAnswer, LoseAnswer, FormInv, WaitsForPayment
  <2> QED BY <2>1 DEF Next, Handle
<1>5. CASE NoticeCrash \/ FieldsRefused \/ FormRest \/ UNCHANGED formVars
  BY <1>5 DEF NoticeCrash, FieldsRefused, FormRest, formVars, Next
<1>6. CASE ServerCrash
  BY <1>6 DEF ServerCrash, Next
<1> QED BY <1>1, <1>2, <1>3, <1>4, <1>5, <1>6 DEF FormNext

LEMMA ServerKeeps ==
    ASSUME FormInv, [FormNext]_formVars
    PROVE  ServerInv'
<1>1. [Next]_vars
  BY FormStepsAreLedgerSteps
<1> QED BY <1>1, NextKeeps, StepTablesAgree, StepAnswers DEF FormInv, ServerInv

-----------------------------------------------------------------------------
(* Steps of the server that pay nothing.                                   *)

\* Such a step keeps the invariant if it starts no transfer with a key of the
\* page, does not end the submission, and answers it with a success only if the
\* payment is there.
LEMMA QuietStepKeeps ==
    ASSUME FormInv, ServerInv', UNCHANGED <<db, page, key, request, told, held, blind>>,
           \A r \in Requests :
              \/ call'[r] = call[r] /\ (InFlight(r)' => InFlight(r))
              \/ call'[r].kind = "transfer" => call'[r].key \notin PageKeys,
           page = "submitting" =>
              /\ call'[request] = call[request]
              /\ pc'[request] \notin {"unsent", "answered"}
              /\ pc'[request] # "lost" /\ answer'[request] # "ok" =>
                    pc[request] # "lost" /\ answer[request] # "ok"
              /\ answer'[request] \in {"ok", "duplicateKey"} =>
                    \/ answer'[request] = answer[request]
                    \/ \E t \in db.transfers : t.key = key
    PROVE  FormInv'
<1>1. Paid' = Paid
  BY DEF Paid
<1>2. FormTypeOK' /\ WaitsForPayment' /\ TransfersAreHeld'
  BY DEF FormInv, FormTypeOK, WaitsForPayment, TransfersAreHeld
<1>3. OneSubmission'
  BY DEF FormInv, OneSubmission
<1>4. UnpaidSoFar' /\ SuccessIsPaid'
  BY <1>1 DEF FormInv, UnpaidSoFar, SuccessIsPaid
<1>5. PaidByOne' /\ ToldIsTrue'
  BY <1>1 DEF FormInv, PaidByOne, ToldIsTrue
<1> QED BY <1>2, <1>3, <1>4, <1>5 DEF FormInv

LEMMA OthersArriveKeeps ==
    ASSUME FormInv, NEW r \in Requests, OthersArrive(r), ServerInv'
    PROVE  FormInv'
<1>1. PICK c \in Others : ArriveWith(r, c)
  BY DEF OthersArrive
<1>2. /\ call \in [Requests -> Menu \union {NoCall}] /\ pc \in [Requests -> Steps]
      /\ pc[r] = "unsent"
      /\ call' = [call EXCEPT ![r] = c] /\ pc' = [pc EXCEPT ![r] = FirstStep(c)]
      /\ UNCHANGED <<db, answer>>
      /\ UNCHANGED <<page, key, request, told, held, blind>>
  BY <1>1 DEF ArriveWith, OthersArrive, pageVars, FormInv, ServerInv, IInv, TypeOK
<1>3. \A q \in Requests : q # r => call'[q] = call[q] /\ pc'[q] = pc[q]
  BY <1>2
<1>4. call'[r] = c /\ (c.kind = "transfer" => c.key \notin PageKeys)
  BY <1>2, FormIsOfLedger
<1>5. page = "submitting" => request \in Requests /\ request # r
  BY <1>2 DEF FormInv, WaitsForPayment
<1> QED BY <1>2, <1>3, <1>4, <1>5, QuietStepKeeps
        DEF InFlight, FormInv, WaitsForPayment

\* Only the look into the table of transfers finds a duplicate.
LEMMA DuplicateIsThere ==
    ASSUME IInv, NEW r \in Requests, HandlesOn(r)
    PROVE  \/ answer' = answer
           \/ answer'[r] # "duplicateKey"
           \/ \E t \in db.transfers : t.key = call[r].key
<1>1. answer \in [Requests -> Codes]
  BY DEF IInv, TypeOK
<1>2. CASE CheckKey(r)
  BY <1>2 DEF CheckKey
<1>3. CASE ~ CheckKey(r)
  <2>1. answer' = answer \/ \E code \in Codes \ {"duplicateKey"} :
                               answer' = [answer EXCEPT ![r] = code]
    BY <1>3 DEF HandlesOn, ReadAccount, ReadFrom, ReadTo, FlushRows, FlushIsStale,
       BusyTimeout, InsertEntries, DuplicateEntry, InsertTransferRow, InsertAudit,
       Reject, Answer, Keep, Codes
  <2> QED BY <1>1, <2>1
<1> QED BY <1>2, <1>3

LEMMA HandlesOnKeeps ==
    ASSUME FormInv, NEW r \in Requests, HandlesOn(r), UNCHANGED pageVars, ServerInv'
    PROVE  FormInv'
<1>1. /\ UNCHANGED <<db, call>> /\ pc[r] \in Undecided
      /\ \/ /\ answer' = answer
            /\ \E next \in Undecided : pc' = [pc EXCEPT ![r] = next]
         \/ /\ \E code \in Codes \ {"none", "ok"} :
                  answer' = [answer EXCEPT ![r] = code]
            /\ pc' = [pc EXCEPT ![r] = "reply"]
      /\ UNCHANGED <<page, key, request, told, held, blind>>
  BY HandlesOnOutcome DEF FormInv, ServerInv, pageVars
<1>2. answer \in [Requests -> Codes] /\ pc \in [Requests -> Steps]
  BY DEF FormInv, ServerInv, IInv, TypeOK
<1>3. /\ pc'[r] \in Undecided \union {"reply"}
      /\ \A q \in Requests : q # r => pc'[q] = pc[q] /\ answer'[q] = answer[q]
  BY <1>1, <1>2
<1>4. answer[r] = "none"
  BY <1>1 DEF FormInv, ServerInv, AnswerSuitsStep
<1>5. /\ pc[r] \notin {"unsent", "answered", "lost"}
      /\ pc'[r] \notin {"unsent", "answered", "lost"}
  BY <1>1, <1>3 DEF Undecided, Writing
<1>6. answer'[r] # "ok"
  BY <1>1, <1>2, <1>4
<1>7. \A q \in Requests : InFlight(q)' => InFlight(q)
  BY <1>3, <1>5 DEF InFlight
<1>8. page = "submitting" =>
         /\ request \in Requests /\ call[request] = Payment(key)
         /\ pc[request] \notin {"unsent", "answered"}
         /\ call[request].key = key
  BY PaymentsAreCalls DEF FormInv, FormTypeOK, WaitsForPayment
<1>9. ASSUME page = "submitting"
      PROVE  /\ pc'[request] \notin {"unsent", "answered"}
             /\ pc'[request] # "lost" /\ answer'[request] # "ok" =>
                   pc[request] # "lost" /\ answer[request] # "ok"
             /\ answer'[request] \in {"ok", "duplicateKey"} =>
                   \/ answer'[request] = answer[request]
                   \/ \E t \in db.transfers : t.key = key
  <2>1. CASE request # r
    BY <1>3, <1>8, <1>9, <2>1
  <2>2. CASE request = r
    <3>1. \/ answer' = answer \/ answer'[r] # "duplicateKey"
          \/ \E t \in db.transfers : t.key = key
      BY <1>8, <1>9, <2>2, DuplicateIsThere DEF FormInv, ServerInv
    <3> QED BY <1>4, <1>5, <1>6, <2>2, <3>1
  <2> QED BY <2>1, <2>2
<1> QED BY <1>1, <1>7, <1>9, QuietStepKeeps

LEMMA OtherReplyKeeps ==
    ASSUME FormInv, NEW r \in Requests, Reply(r), r # request, UNCHANGED pageVars,
           ServerInv'
    PROVE  FormInv'
<1>1. /\ pc[r] = "reply" /\ pc' = [pc EXCEPT ![r] = "answered"]
      /\ UNCHANGED <<db, call, answer>>
      /\ UNCHANGED <<page, key, request, told, held, blind>>
      /\ pc \in [Requests -> Steps]
  BY DEF Reply, pageVars, FormInv, ServerInv, IInv, TypeOK
<1>2. pc'[r] = "answered" /\ \A q \in Requests : q # r => pc'[q] = pc[q]
  BY <1>1
<1>3. \A q \in Requests : InFlight(q)' => InFlight(q)
  BY <1>2 DEF InFlight
<1>4. page = "submitting" => request \in Requests /\ pc'[request] = pc[request]
                             /\ pc[request] \notin {"unsent", "answered"}
  BY <1>2 DEF FormInv, WaitsForPayment
<1> QED BY <1>1, <1>3, <1>4, QuietStepKeeps

LEMMA ServerCrashKeeps ==
    ASSUME FormInv, ServerCrash, ServerInv'
    PROVE  FormInv'
<1>1. /\ pc' = [r \in Requests |-> IF InFlight(r) THEN "lost" ELSE pc[r]]
      /\ UNCHANGED <<db, call, answer>>
      /\ UNCHANGED <<page, key, request, told, held, blind>>
  BY DEF ServerCrash, Crash, Restart, pageVars
<1>2. \A r \in Requests : ~ InFlight(r)'
  BY <1>1 DEF InFlight
<1>3. page = "submitting" => request \in Requests /\ pc'[request] = "lost"
  BY <1>1 DEF FormInv, WaitsForPayment, InFlight
<1> QED BY <1>1, <1>2, <1>3, QuietStepKeeps

-----------------------------------------------------------------------------
(* The commit, which pays.                                                 *)

LEMMA FormCommitKeeps ==
    ASSUME FormInv, NEW r \in Requests, Commit(r), UNCHANGED pageVars, ServerInv'
    PROVE  FormInv'
<1> DEFINE c == call[r]
           t == TransferOf(db, c)
<1>1. /\ pc[r] = "commit" /\ c \in Calls /\ Passes(db.accounts, c)
      /\ db \in Database /\ db' = Result(db, c)
      /\ pc' = [pc EXCEPT ![r] = "reply"]
      /\ answer' = [answer EXCEPT ![r] = "ok"]
      /\ UNCHANGED call
  BY CommitIsResult DEF FormInv, ServerInv
<1>2. /\ db'.transfers = IF c.kind = "transfer" THEN db.transfers \union {t}
                                                ELSE db.transfers
      /\ t.key = c.key
  BY <1>1, TransfersOfResult DEF TransferOf
<1>3. UNCHANGED <<page, key, request, told, held, blind>>
  BY DEF pageVars
<1>4. answer \in [Requests -> Codes] /\ pc \in [Requests -> Steps]
  BY DEF FormInv, ServerInv, IInv, TypeOK
<1>5. /\ pc'[r] = "reply" /\ answer'[r] = "ok"
      /\ \A q \in Requests : q # r => pc'[q] = pc[q] /\ answer'[q] = answer[q]
  BY <1>1, <1>4
<1>6. answer[r] = "none"
  BY <1>1 DEF FormInv, ServerInv, AnswerSuitsStep, Undecided, Writing
<1>7. c.kind = "transfer" /\ c.key \in PageKeys =>
         /\ c.key \in held /\ r = request /\ page = "submitting" /\ c.key = key
  <2>1. c.kind = "transfer" /\ c.key \in PageKeys => c.key \in held /\ r = request
    BY <1>1 DEF FormInv, OneSubmission, InFlight
  <2>2. r = request => page = "submitting" /\ call[request] = Payment(key)
    BY NobodyIsARequest DEF FormInv, WaitsForPayment
  <2>3. Payment(key).key = key
    BY DEF Payment
  <2> QED BY <2>1, <2>2, <2>3
<1>8. r = request => c.kind = "transfer" /\ c.key = key /\ key \in held
  <2>1. r = request => c = Payment(key) /\ key \in PageKeys /\ key \in held
    BY NobodyIsARequest DEF FormInv, WaitsForPayment, FormTypeOK
  <2> QED BY <2>1, PaymentsAreCalls
<1> HIDE DEF c, t
<1>9. r # request => Paid' = Paid
  BY <1>2, <1>3, <1>7 DEF Paid, FormInv, FormTypeOK
<1>10. r = request => Paid' = Paid \union {t} /\ page = "submitting"
  BY <1>2, <1>3, <1>7, <1>8 DEF Paid, FormInv, FormTypeOK
<1>11. r = request /\ ~ blind => Paid = {}
  BY <1>1, <1>6, <1>10 DEF FormInv, UnpaidSoFar
<1>12. FormTypeOK' /\ WaitsForPayment'
  BY <1>1, <1>3, <1>5 DEF FormInv, FormTypeOK, WaitsForPayment
<1>13. OneSubmission'
  BY <1>1, <1>3, <1>5 DEF FormInv, OneSubmission, InFlight
<1>14. TransfersAreHeld'
  BY <1>2, <1>3, <1>7 DEF FormInv, TransfersAreHeld
<1>15. UnpaidSoFar'
  BY <1>1, <1>3, <1>5, <1>9, <1>10 DEF FormInv, UnpaidSoFar, WaitsForPayment
<1>16. SuccessIsPaid'
  BY <1>2, <1>3, <1>5, <1>8 DEF FormInv, SuccessIsPaid, WaitsForPayment
<1>17. PaidByOne'
  BY <1>3, <1>9, <1>10, <1>11 DEF FormInv, PaidByOne
<1>18. ToldIsTrue'
  BY <1>3, <1>9, <1>10 DEF FormInv, ToldIsTrue
<1> QED BY <1>12, <1>13, <1>14, <1>15, <1>16, <1>17, <1>18 DEF FormInv

LEMMA ServeKeeps ==
    ASSUME FormInv, NEW r \in Requests, Serve(r), ServerInv'
    PROVE  FormInv'
<1>1. UNCHANGED pageVars /\ (HandlesOn(r) \/ Commit(r) \/ Reply(r))
  BY DEF Serve, Handle, HandlesOn
<1>2. Reply(r) => r # request
  BY DEF Serve, Reply
<1> QED BY <1>1, <1>2, HandlesOnKeeps, FormCommitKeeps, OtherReplyKeeps

-----------------------------------------------------------------------------
(* The steps of the page.                                                  *)

LEMMA SubmitKeeps ==
    ASSUME FormInv, NEW r \in Requests, Submit(r), ServerInv'
    PROVE  FormInv'
<1> DEFINE c == Payment(key)
<1>1. /\ page = "editing" /\ pc[r] = "unsent"
      /\ call' = [call EXCEPT ![r] = c] /\ pc' = [pc EXCEPT ![r] = FirstStep(c)]
      /\ UNCHANGED <<db, answer>>
      /\ page' = "submitting" /\ request' = r /\ told' = "nothing"
      /\ UNCHANGED <<key, held, blind>>
  BY DEF Submit, ArriveWith
<1>2. /\ call \in [Requests -> Menu \union {NoCall}] /\ pc \in [Requests -> Steps]
      /\ key \in held /\ key \in PageKeys /\ held \subseteq PageKeys
      /\ c.kind = "transfer" /\ c.key = key
  BY PaymentsAreCalls DEF FormInv, FormTypeOK, ServerInv, IInv, TypeOK
<1>3. FirstStep(c) = "checkKey"
  BY <1>2 DEF FirstStep
<1>4. answer[r] = "none"
  BY <1>1 DEF FormInv, ServerInv, AnswerSuitsStep
<1> HIDE DEF c
<1>5. /\ call'[r] = c /\ pc'[r] = "checkKey"
      /\ \A q \in Requests : q # r => call'[q] = call[q] /\ pc'[q] = pc[q]
  BY <1>1, <1>2, <1>3
<1>6. Paid' = Paid
  BY <1>1 DEF Paid
<1>7. FormTypeOK' /\ TransfersAreHeld'
  BY <1>1, <1>2 DEF FormInv, FormTypeOK, TransfersAreHeld
<1>8. WaitsForPayment'
  BY <1>1, <1>5 DEF WaitsForPayment, c, Payment
<1>9. OneSubmission'
  <2>1. \A q \in Requests :
           call[q].kind = "transfer" /\ call[q].key \in PageKeys =>
              call[q].key \in held /\ ~ InFlight(q)
    BY <1>1, NobodyIsARequest DEF FormInv, OneSubmission, WaitsForPayment
  <2> QED BY <1>1, <1>2, <1>5, <2>1 DEF OneSubmission, InFlight
<1>10. UnpaidSoFar' /\ SuccessIsPaid'
  BY <1>1, <1>4, <1>6 DEF FormInv, UnpaidSoFar, SuccessIsPaid
<1>11. PaidByOne' /\ ToldIsTrue'
  BY <1>1, <1>6 DEF FormInv, PaidByOne, ToldIsTrue
<1> QED BY <1>7, <1>8, <1>9, <1>10, <1>11 DEF FormInv

\* The page shows an error: it saw an answer that is not a success, or it will
\* never see the answer.
LEMMA ErrorKeeps ==
    ASSUME FormInv, page = "submitting", ShowError, request' = NoRequest,
           UNCHANGED <<db, call>>, blind' \in BOOLEAN, blind => blind',
           \A q \in Requests : pc'[q] = pc[q] \/ pc'[q] = "answered",
           pc'[request] \in {"answered", "lost"},
           blind' \/ (answer[request] # "ok" /\ pc[request] # "lost"),
           ServerInv'
    PROVE  FormInv'
<1>1. PICK k \in PageKeys \ held : key' = k /\ held' = held \union {k}
  BY DEF ShowError, NewKey
<1>2. page' = "editing" /\ told' = "error" /\ request \in Requests
  BY DEF ShowError, FormInv, WaitsForPayment
<1>3. Paid' = Paid
  BY <1>1 DEF FormInv, TransfersAreHeld, Paid
<1>4. FormTypeOK' /\ WaitsForPayment' /\ TransfersAreHeld'
  BY <1>1, <1>2 DEF FormInv, FormTypeOK, WaitsForPayment, TransfersAreHeld
<1>5. OneSubmission'
  BY <1>1, <1>2 DEF FormInv, OneSubmission, InFlight
<1>6. UnpaidSoFar' /\ SuccessIsPaid'
  BY <1>2, <1>3 DEF FormInv, FormTypeOK, UnpaidSoFar, SuccessIsPaid
<1>7. PaidByOne' /\ ToldIsTrue'
  BY <1>2, <1>3 DEF FormInv, FormTypeOK, PaidByOne, ToldIsTrue
<1> QED BY <1>4, <1>5, <1>6, <1>7 DEF FormInv

\* The page learns of a success, and is left.
LEMMA LeaveKeeps ==
    ASSUME FormInv, page = "submitting", answer[request] \in {"ok", "duplicateKey"},
           page' = "left", request' = NoRequest, UNCHANGED <<db, call, key, held, blind>>,
           \A q \in Requests : pc'[q] = pc[q] \/ pc'[q] = "answered",
           pc'[request] \in {"answered", "lost"},
           ServerInv'
    PROVE  FormInv'
<1>1. Paid' = Paid /\ request \in Requests
  BY DEF Paid, FormInv, WaitsForPayment
<1>2. Paid # {}
  BY DEF FormInv, FormTypeOK, SuccessIsPaid, Paid
<1>3. FormTypeOK' /\ WaitsForPayment' /\ TransfersAreHeld'
  BY DEF FormInv, FormTypeOK, WaitsForPayment, TransfersAreHeld
<1>4. OneSubmission'
  BY <1>1 DEF FormInv, OneSubmission, InFlight
<1>5. UnpaidSoFar' /\ SuccessIsPaid' /\ PaidByOne' /\ ToldIsTrue'
  BY <1>1, <1>2 DEF FormInv, UnpaidSoFar, SuccessIsPaid, PaidByOne, ToldIsTrue
<1> QED BY <1>3, <1>4, <1>5 DEF FormInv

LEMMA AnswerKeeps ==
    ASSUME FormInv, ReceiveAnswer \/ LoseAnswer, ServerInv'
    PROVE  FormInv'
<1>1. /\ page = "submitting" /\ request \in Requests /\ request' = NoRequest
      /\ pc[request] = "reply" /\ pc' = [pc EXCEPT ![request] = "answered"]
      /\ UNCHANGED <<db, call>> /\ pc \in [Requests -> Steps] /\ blind \in BOOLEAN
  BY DEF ReceiveAnswer, LoseAnswer, Reply, FormInv, FormTypeOK, WaitsForPayment,
     ServerInv, IInv, TypeOK
<1>2. /\ \A q \in Requests : pc'[q] = pc[q] \/ pc'[q] = "answered"
      /\ pc'[request] = "answered"
  BY <1>1
<1>3. CASE LoseAnswer
  BY <1>1, <1>2, <1>3, ErrorKeeps DEF LoseAnswer, InFlight
<1>4. CASE ReceiveAnswer /\ answer[request] \in {"ok", "duplicateKey"}
  BY <1>1, <1>2, <1>4, LeaveKeeps DEF ReceiveAnswer, React, Leave, InFlight
<1>5. CASE ReceiveAnswer /\ answer[request] \notin {"ok", "duplicateKey"}
  <2>1. ShowError /\ UNCHANGED blind
    BY <1>5 DEF ReceiveAnswer, React
  <2> QED BY <1>1, <1>2, <1>5, <2>1, ErrorKeeps DEF InFlight
<1> QED BY <1>3, <1>4, <1>5

LEMMA NoticeCrashKeeps ==
    ASSUME FormInv, NoticeCrash, ServerInv'
    PROVE  FormInv'
<1>1. /\ page = "submitting" /\ pc[request] = "lost" /\ ShowError
      /\ request' = NoRequest /\ blind' = TRUE /\ UNCHANGED <<db, call, pc>>
      /\ request \in Requests
  BY DEF NoticeCrash, vars, FormInv, WaitsForPayment
<1> QED BY <1>1, ErrorKeeps DEF InFlight

\* Nothing has left the page, and it still holds its key.
LEMMA FieldsRefusedKeeps ==
    ASSUME FormInv, FieldsRefused, ServerInv'
    PROVE  FormInv'
<1>1. /\ page = "editing" /\ told' = "error"
      /\ UNCHANGED <<db, call, pc, answer, page, key, request, held, blind>>
  BY DEF FieldsRefused, vars
<1>2. Paid' = Paid /\ \A r \in Requests : InFlight(r)' = InFlight(r)
  BY <1>1 DEF Paid, InFlight
<1>3. FormTypeOK' /\ WaitsForPayment' /\ TransfersAreHeld' /\ OneSubmission'
  BY <1>1, <1>2 DEF FormInv, FormTypeOK, WaitsForPayment, TransfersAreHeld, OneSubmission
<1>4. UnpaidSoFar' /\ SuccessIsPaid' /\ PaidByOne' /\ ToldIsTrue'
  BY <1>1, <1>2 DEF FormInv, UnpaidSoFar, SuccessIsPaid, PaidByOne, ToldIsTrue
<1> QED BY <1>3, <1>4 DEF FormInv

-----------------------------------------------------------------------------
(* The theorems.                                                           *)

LEMMA FormInitKeeps == FormInit => FormInv
<1> SUFFICES ASSUME FormInit PROVE FormInv
  OBVIOUS
<1>1. PICK k \in PageKeys : key = k /\ held = {k}
  BY DEF FormInit
<1>2. /\ Init /\ page = "editing" /\ told = "nothing" /\ request = NoRequest
      /\ blind = FALSE /\ db.transfers = {}
      /\ call = [r \in Requests |-> NoCall] /\ answer = [r \in Requests |-> "none"]
  BY DEF FormInit, Init, SeedDatabase
<1>3. ServerInv
  BY <1>2, InitInvariant, InitTablesAgree DEF ServerInv, AnswerSuitsStep, Init
<1>4. FormTypeOK /\ WaitsForPayment /\ TransfersAreHeld /\ OneSubmission
  BY <1>1, <1>2, CallKinds
     DEF FormTypeOK, WaitsForPayment, TransfersAreHeld, OneSubmission
<1>5. Paid = {}
  BY <1>2 DEF Paid
<1>6. UnpaidSoFar /\ SuccessIsPaid /\ PaidByOne /\ ToldIsTrue
  BY <1>2, <1>5 DEF UnpaidSoFar, SuccessIsPaid, PaidByOne, ToldIsTrue
<1> QED BY <1>3, <1>4, <1>6 DEF FormInv

LEMMA FormNextKeeps == FormInv /\ [FormNext]_formVars => FormInv'
<1> SUFFICES ASSUME FormInv, [FormNext]_formVars PROVE FormInv'
  OBVIOUS
<1>1. ServerInv'
  BY ServerKeeps
<1>2. ASSUME NEW r \in Requests, Submit(r) \/ Serve(r) \/ OthersArrive(r)
      PROVE  FormInv'
  BY <1>1, <1>2, SubmitKeeps, ServeKeeps, OthersArriveKeeps
<1>3. CASE ReceiveAnswer \/ LoseAnswer \/ NoticeCrash \/ FieldsRefused
  BY <1>1, <1>3, AnswerKeeps, NoticeCrashKeeps, FieldsRefusedKeeps
<1>4. CASE ServerCrash
  BY <1>1, <1>4, ServerCrashKeeps
<1>5. CASE FormRest \/ UNCHANGED formVars
  <2>1. UNCHANGED <<db, pc, call, answer, page, key, request, told, held, blind>>
    BY <1>5 DEF FormRest, Rest, formVars, vars, pageVars
  <2>2. page = "submitting" => pc[request] \notin {"unsent", "answered"}
    BY DEF FormInv, WaitsForPayment
  <2> QED BY <1>1, <2>1, <2>2, QuietStepKeeps DEF InFlight
<1> QED BY <1>2, <1>3, <1>4, <1>5 DEF FormNext

THEOREM FormInvariant == FormSpec => []FormInv
<1> QED BY FormInitKeeps, FormNextKeeps, PTL DEF FormSpec

\* Whenever the page says that the transfer is completed, or was processed
\* already, the payment is in the table of transfers.
THEOREM PageTellsTheTruth == FormSpec => []ToldIsTrue
<1>1. FormInv => ToldIsTrue
  BY DEF FormInv
<1> QED BY <1>1, FormInvariant, PTL

\* Whatever errors the page is told of, and however often the user submits again,
\* the payment is made at most once until an answer is lost.
THEOREM AnsweredPaysOnce == FormSpec => []PaidOnceIfAnswered
<1>1. FormInv => PaidOnceIfAnswered
  <2> SUFFICES ASSUME FormInv, ~ blind PROVE Cardinality(Paid) <= 1
    BY DEF PaidOnceIfAnswered
  <2>1. CASE Paid = {}
    BY <2>1, FS_EmptySet
  <2>2. CASE Paid # {}
    <3>1. PICK t \in Paid : Paid = {t}
      BY <2>2 DEF FormInv, PaidByOne
    <3> QED BY <3>1, FS_Singleton
  <2> QED BY <2>1, <2>2
<1> QED BY <1>1, FormInvariant, PTL

\* The page in front of the server is an environment of Ledger: whatever it does,
\* the server does what it may do for any client.  So all that is proved of
\* Ledger holds behind the page.
THEOREM FormIsALedger == FormSpec => Spec
<1>1. FormInit => Init
  BY DEF FormInit
<1> QED BY <1>1, FormInvariant, FormStepsAreLedgerSteps, PTL DEF FormSpec, Spec

\* Every submission of the page takes effect in full at one instant or has no
\* effect at all, in the sense of Bank.
THEOREM BankBehindForm == FormSpec => KeepsPromise
<1> QED BY FormIsALedger, LedgerImplementsBank, PTL
=============================================================================
