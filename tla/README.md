# A verification project for BankingApp

BankingApp is a small retail bank: a FastAPI service over one SQLite database,
and a React single-page client. This directory holds TLA+ models of its parts,
the TLC configurations that check them on small instances, and TLAPS proofs of
what matters most for every instance. `PROJECT.json` says which definition
models which lines of the source, which run checks which property, and which
hazards of the code the properties are aimed at.

## 1. The system

| Component | State it keeps | Operations |
|---|---|---|
| Accounts (`app/accounts`) | a row per account: owner, balance, `is_active`, `deleted_at`, `version` | open, deposit, withdraw, close, list, look up by number |
| Transfers (`app/transfers`) | a row per transfer, unique idempotency key | create, get |
| Transactions (`app/transactions`) | append-only rows with `balance_after`, unique key, `reference_id` | written by the others; paged listing |
| Statements (`app/statements`) | none | opening balance, transactions and totals of a period |
| Cards (`app/cards`) | a row per card: status, `deleted_at`, no version | issue, change status, reveal, delete |
| Authentication (`app/auth`) | refresh tokens; access tokens are JWTs, kept nowhere | register, login, refresh, logout, the guard of every route |
| Users (`app/users`) | a row per user, no version | update profile, delete |
| Audit (`app/audit`) | append-only rows | written by the routers, in the transaction of the request |
| Database session (`app/database.py`) | one session per request | begin, commit, roll back, map a stale version to 409 |
| Client tokens (`frontend/src/api/client.js`, `context/AuthContext.jsx`) | access token in memory, refresh token in local storage, refresh queue | attach, refresh on 401, retry, login, silent login, logout |
| Account page (`pages/AccountDetail.jsx`) | the balance, the dialogs of deposit and withdrawal; a list of cards and the dialog of the password; a filtered page of transactions | load, submit, close, ask, reveal, filter, turn the page |
| Dashboard (`pages/Dashboard.jsx`) | a list of accounts, the dialog of a new account, a question before a closing | load, create, close |
| Statement page (`pages/StatementPage.jsx`) | two dates, the statement shown | load, fetch |
| Transfer page (`pages/TransferForm.jsx`) | its fields, the user's accounts, the idempotency key | load, edit, look up, submit |

How they interact. Every request runs in one asyncio task with one database
session, shared by the guard, the service and the audit log. The dependency
`get_db` commits after the handler has returned and before the response is
sent, and rolls back on any exception. Handlers interleave at every `await`.
SQLite runs in WAL mode under pysqlite, which begins a transaction only at the
first write: a `SELECT` before it sees the last committed state and keeps no
snapshot; the first write takes the only write lock, after waiting at most the
busy timeout; what was written is invisible to others until the commit. The
only thing that detects a stale read is the `version` column of accounts
(`version_id_col`): an `UPDATE` that finds another version raises
`StaleDataError`, which becomes 409 `CONCURRENT_MODIFICATION`.

A page of the client sends calls from its effects and handlers, and changes its
state when they are answered, in whichever order that is. The state is React's:
a callback has the variables of the render that created it. A dialog covers the
page, but can be closed while its call is under way, and its callback then still
runs.

The hard behaviours, and what makes each component correct:

- **Money routes.** Reads, tests and writes of one request are separate
  statements among those of others; a transfer is five flushes; a crash can
  fall between any two of them, or between the commit and the response. They
  are correct if every committed ledger explains its balance, no account is
  overdrawn, transfers are whole, keys are used once, a closed account is empty
  and stays untouched, and every request ends. In short: if the routes behave
  like a bank with no concurrency at all (`Bank`).
- **Cards.** A card has no version and its issue does not write the account's
  row, so nothing orders it with a closing of the account; its audit rows carry
  an old value that was read earlier.
- **Authentication and users.** Registration tests an email and inserts it
  later; refresh reads the token and its user by two statements; the guard reads
  the user once. They are correct if an email has one owner, what was dead when
  a request arrived is refused, and the audit trail tells all that was done.
- **Client tokens.** Refresh, logout and login race; queued calls must all be
  resumed or rejected, and none be carried out twice.
- **Transfer page.** An answer can be lost. The page is correct if what it says
  is true, if submitting again does not pay again, and if it pays what its
  fields show.
- **The other pages.** They act on lists read earlier, and their calls are
  answered in any order. They are correct if they show what the server has when
  nothing is under way, attribute an answer to what it was asked for, do not
  repeat what was done, and never wait for a call that is over.
- **Statements and listing.** Two statements with commits in between; a period
  that ends at 23:59:59.

All hazards, with the line where each bites and the properties that cover it,
are listed in `PROJECT.json`.

## 2. The modules

| Module | What it is |
|---|---|
| `BankCalls` | the calls of the money routes and what each adds to a balance; the constants that `Bank` and `Ledger` share |
| `Bank` | the promise: each request is applied in full at one instant or refused without a trace |
| `Ledger` | the money handlers, statement by statement, over SQLite and the session |
| `LedgerInductive` | the inductive invariant `IInv` of `Ledger` |
| `LedgerLemmas`, `LedgerProofs`, `LedgerPromises` | the proofs: the data, the invariant, what follows from it |
| `Cards`, `CardsProofs` | the card routes beside `Ledger`, in the same database under the same lock |
| `Auth`, `AuthProofs` | registration, login, refresh, logout, the guard, the profile and its deletion |
| `TokenClient`, `TokenClientProofs` | the tokens of the web client: interceptors, refresh queue, session |
| `TransferForm`, `TransferFormProofs` | the submissions of the transfer page in front of `Ledger` |
| `PageCalls` | the calls that a page makes: under way, answered in any order, refused, lost |
| `AccountPage`, `CardsTab`, `TransactionsTab` | the three parts of the page of an account |
| `Dashboard`, `Statements`, `TransferFields` | the pages of accounts, statements and transfers; `Statements` has the service too |
| `Pages`, `PagesProofs` | one of the six screens is open; the properties that all of them share |
| `MCLedger`, `MCCards`, `MCAuth`, `MCTokenClient`, `MCTransferForm`, `MCPages` | small instances for TLC |

### Ledger

| Variable | In the code |
|---|---|
| `db` | the committed tables `accounts`, `transactions` (a sequence per account), `transfers`, `audit_logs` |
| `draft` | the same tables as the session that holds the write lock sees them |
| `lock` | SQLite's write lock |
| `pc`, `call` | the handler of each request: its next statement and its parameters |
| `copy` | the account rows in the session's identity map, as they were read |
| `answer` | the outcome, by the codes of `app/common/exceptions.py`; `databaseLocked` and `integrityError` are the unhandled exceptions, answered 500 |

A request is one element of `Requests` and is sent once. `Arrive` starts the
handler of any call of `Menu`; `ReadAccount` is `get_account` and the tests that
follow with no `await` in between; `CheckKey`, `ReadFrom` and `ReadTo` are the
three reads of a transfer; `FlushRows` is the first write; `InsertEntries`,
`InsertTransferRow` and `InsertAudit` the later flushes; `Commit` and `Reply` the
end of the dependency and the response. `FlushIsStale`, `BusyTimeout` and
`DuplicateEntry` are the three ways in which a write fails, `Crash` the death and
restart of the process. `Sessions` is everybody who may hold the lock: the
requests of `Ledger`, and those of other routes (`Cards`) that use the database
at the same time.

Abstractions. Amounts and balances are natural numbers of cents, which is all
that the client sends. `is_active` and `deleted_at` are only ever written
together, and are one status. The account number and its random retries,
descriptions, currencies and timestamps are left out: no code on these routes
tests them against each other. The inserts of the two transactions of a
transfer, and the update that links the debit to the credit, are one action: the
lock is held and nobody can see what is between them. The guard that reads the
user is in `Auth`.

### Cards

`Cards` extends `Ledger`: its steps are the steps of `Ledger` and those of the
card requests, which take the same `lock`. `cdb` and `cdraft` are for the tables
of cards and their audit rows what `db` and `draft` are for the others; `step`,
`want`, `held` and `told` are for a card request what `pc`, `call`, `copy` and
`answer` are for a money request. `ReadCardAccount` is `get_account` in
`create_card`; `ReadCard` and `ReadOwner` are the two reads of `get_card`;
`WriteCard` the write of the card and of its audit row, which nobody can tell
apart under the lock; `CommitCard` the end of the dependency. `Updated` is what
SQLAlchemy does: it writes the columns that differ from what was read, so a
status set to the value it was read with is not written. `shown` is a history of
the committed statuses of a request's card. The status `EXPIRED` is left out,
since no code sets it.

### Auth

`users`, `tokens` and `trail` are the tables of users, of refresh tokens, and the
audit rows about users; `expired` has the refresh tokens whose time has passed;
`pc` and `found` are the next statement of a handler and the row it goes on with;
`told` is the answer, `late` a history of requests whose credential was dead when
they arrived. `ReadEmail` and `InsertUser` are `register_user`, with the unique
constraint; `ReadPassword` and `InsertToken` are the login; `FindToken` and
`ReadOwner` are `refresh_access_token`; `Guard` is `get_current_user`;
`FindOwnToken` and `Revoke` are the logout; `UpdateProfile` and `SoftDelete` the
routes of the profile. Reads are steps of their own. The writes of a handler, its
audit row and its commit are one step: `Ledger` has the steps of a session and
shows that nobody sees anything between the first flush and the commit.
`LockTimesOut` is the lock held by others. Hashes and signatures are left out: a
password is as good as the person who knows it, and an access token names its
user until it expires, which it may do at any time.

### TokenClient

| Variable | In the code |
|---|---|
| `ref`, `refreshing`, `queue` | `_accessToken`, `_isRefreshing`, `_refreshQueue` of `client.js` |
| `context`, `stored` | the session of the `accessToken` in `AuthContext`'s state; the refresh token in local storage |
| `state`, `request` | each call of the client, the request it has under way and the server's reply on its way back |
| `silent`, `silentToken` | the refresh that `AuthContext` asks for when the page is loaded |
| `issued`, `lapsed`, `dead` | the server: access tokens given and expired per session, refresh tokens no longer accepted |
| `acted` | history: how often the server has carried out each call |

JavaScript runs one callback at a time, so a callback up to its next wait for the
network is one action. `Send` is the request interceptor. The response
interceptor is `ReceiveAnswer`, `GiveUp` and `LoseAnswer` (lines 45-51),
`JoinQueue` (53-63), `StartRefresh` and `NothingStored` (65-73), `FinishRefresh`
(75-83) and `FailRefresh` (84-88). `Login`, `Logout`, `Conclude` and the three
`Silent` actions are `AuthContext`; a login may be answered while a session is
live, since its page is a public route. The server answers (`Serve`,
`ServeRefresh`, `ServeSilent`), lets tokens expire (`Expire`) and stops accepting
a refresh token (`Die`) at any time. One load of the page is followed; the user's
profile is left out, except that the silent login ends with the answer to
`getMe`.

### TransferForm

`Submit`, `ReceiveAnswer`, `LoseAnswer` and `NoticeCrash` are `handleSubmit` of
`TransferForm.jsx`; `React` is what it does with each code, and `FieldsRefused`
with a 422 for its fields, which keeps the key. `Serve`, `OthersArrive` and
`ServerCrash` are steps of `Ledger`. The page submits the same payment each time,
under a key out of `PageKeys`, the UUIDs that nobody else draws; its fields are
the subject of `TransferFields`.

### The pages

`PageCalls` has the variables that every page uses: `stage`, `asked` and `reply`
of each call. A call is sent (`Ask`), handled by the server (`Answer`, or
`ReadHalf` and then `Answer` when the handler reads twice), and ends when its
callback has run: `Finish`, or `FinishAndAsk` when the callback sends another.
`Outcome` is what the callback gets: the answer, or a failure in the network,
which may come before the server has handled the call or after. A call that the
page has given up and that may still reach the server is an `orphan`. `blind` and
`calm` are histories: whether a call has failed in the network, and whether every
call succeeded or was refused in time, no load was answered before one that was
sent earlier, and nobody else changed what the page shows. Any number of changes
and loads may be under way at once and `calm` stay true.

Each page then has the state of its component (`list`, `prompt`, `shown`,
`dialog`, `table`, `accounts`, `statement`, `source`, ...), the tables of the
server that stand behind it, and four groups of actions: the user, with the
conditions under which the buttons and fields are there and enabled; the server,
one `Serve` action per route; the callbacks, one action per handler after its
`await`; and what others do meanwhile. The comment of each definition names its
handler. Server routes are one step here, which `KeepsPromise` of `Ledger`
justifies, except the listing of transactions and the statement, whose two reads
are two steps. The instants of a day are two, for the listing as for the
statement: up to 23:59:59, where periods end, and the last fraction of a second;
a cleared date of the listing (`NoDate`) bounds nothing. A call stands for all
its sendings: the interceptor that refreshes and sends again is `TokenClient`.

### Deviations

The operators marked `Deviation` are plausible bugs of the definition that
follows them (no version check, no unique key, a lock that leaks, a button that
is not disabled). No behaviour of the models uses them; each is the change under
which one property fails, and so shows that the property depends on that part of
the code.

## 3. What is checked

| Run | Bounds | States | What it shows |
|---|---|---|---|
| `ledger_mixed` | 3 requests of 9 different calls, 3 accounts (funded, empty, unopened), 2 users, 2 keys, amounts 1 and 2 | 78,473 | types, the ledger chain, closing, pairing, keys, audit, append-only, closed is final, and `KeepsPromise`: `Ledger` implements `Bank` |
| `ledger_live` | 3 requests of 4 conflicting calls on 2 accounts and 1 key | 79,807 | `IInv`, the invariant of the proofs; every request ends; the lock is always released |
| `ledger_retry` | 2 requests | | a finding, see below |
| `cards` | 3 card requests of 7 calls, 2 cards, 3 statuses, 1 closing or deposit on the account | 373,300 | types and the lock, the audit trail tells every card, a status told to be set was set, old values are recent, deleted cards stay deleted |
| `cards_closed` | 2 card requests, the same | | a finding |
| `auth` | 3 requests of every kind, 3 people (2 members), 3 emails | 516,777 | an email has one owner, dead credentials are refused, the trail tells all |
| `client` | 2 calls, 2 sessions of 2 users | 331,213 | types, the queue and the refresh it waits for, no call acts twice, every call ends |
| `client_ref` | the same | | a finding |
| `form` | 3 requests, 4 keys, 2 users, 1 payment | 23,804 | what the page says is true; with no lost answer it pays once |
| `form_lost` | 2 requests | | a finding |
| `pages` | each of 6 screens with 5 calls (statement 3) | 1,057,886 | see the next table |
| `history_empty` | the transactions tab with 5 calls | | a finding |

The properties of `pages`:

| Property | What it says |
|---|---|
| `RevealedUnderOwnCard` | the details of a card are shown on that card, whichever dialog is open when they arrive |
| `OneOfAKindIfPatient` | the limit of one card of a kind, which only the page knows, holds for a user who waits for every call |
| `DialogTellsTruth` | a dialog says "done" only if money moved, and moves it once as long as no call is lost |
| `OneAccountPerDialog` | a dialog opens at most one account as long as no call is lost |
| `PagingMissesNothing` | who turns the pages to the last has seen all that there was, unless a transaction was committed between a count and its rows, or a late answer shows a page that was listed before the one shown last |
| `StatementAddsUp` | opening balance and lines make the closing balance, unless a transaction of an earlier day is committed between the two reads |
| `StatementsJoin` | between the closing balance of one statement and the opening balance of the next there are exactly the amounts of the last fraction of a second between them |
| `PaysWhatIsShown` | from the lookup to the answer, a transfer is between the accounts that the fields show |
| `ShownIsCurrent` | at rest, a page shows what the server has, however many changes and loads were under way at once, unless a call failed, a load overtook an earlier one or somebody else made a change |
| `WaitsOnlyForCalls` | no spinner or dialog waits for a call that is over or about something else |

Why the bounds are enough to be interesting. A lost update, a closing race and a
key race each need two requests, and a third to prepare the state (empty the
account, fund the recipient) or to come third in the queue for the lock. The seed
is a state that the program reaches by itself: an account opened and funded by
one deposit, and one opened and empty. Requests are interchangeable in the safety
runs (symmetry); the liveness runs use none. A status that one request sets
unseen by another needs two requests and three statuses; the third request of
`cards` issues or deletes among them. In `auth`, a login, the logout or deletion
beside it and a refresh of the token are three requests; one refresh token may
expire. In the client, two calls give one that refreshes and one that waits, or a
logout beside a refresh, and the second session a login in between; that the
queue may be longer is covered by the proofs. Access tokens per session are
bounded by the calls: each is asked for by one that was refused for the first
time.

A screen of `pages` makes the load of its opening and then up to four calls (a
change, its reload, and another change with its reload or while it is under way),
with two dialogs that can be open one after the other. `Room` bounds the user, so
that the calls that callbacks make are never cut off. The transactions tab has at
most two loads under way that the user asked for, and at most three transactions
on pages of one, so that a page can shift while it is turned. Its fields hold one
of the `Periods`: all days, the last day, a period that ends before it starts,
and one with no end; clearing the start selects what the first day does. The
statement has three transactions and two days. Nobody else changes what a page
shows more than once on each screen (`calm`), except that transactions keep being
committed up to their bound. A page that is left loses its state, so no run
navigates.

Fairness. `FairSpec` of `Ledger` assumes weak fairness of the steps of each
handler that has started: the event loop resumes every task whose statement has
returned. A request that waits for the lock always has a step, since either the
lock is free or the busy timeout ends the wait. Nothing is assumed of arrivals or
crashes. `FairSpec` of `TokenClient` assumes that the browser ends every request,
with an answer or a network error, and runs the callback that waits for it.
Nothing is assumed of users, nor that a token ever expires or does not. The other
specifications have no fairness and no liveness property: what the pages wait for
is stated as the invariant `WaitsOnlyForCalls`.

Findings.

- `ledger_retry`: `docs/security.md:71` says that retries return 409. A retry
  whose key test runs before the commit of the first request, and whose account
  reads run after it, fails in the unique constraint and is answered 500. The
  money still moves once.
- `cards_closed`: a test of the repository says that no card is issued on a
  deleted account. The account is read, and not written, by the request that
  issues the card; a closing that commits in between leaves a live card on it.
- `client_ref`: `client.js:4` says that `AuthContext` updates the client's token
  on every change. The interceptor sets it too: a refresh sent before a logout
  and answered after it puts the token of the ended session back.
- `form_lost`: the page replaces its idempotency key after every error, also when
  the answer was lost and the transfer was made; submitting again pays twice.
  `PaidOnceIfAnswered` shows that this is the only way: after every error that
  the page is told of, a new key is safe.
- `history_empty`: the page says that a period has no transactions when it has
  some. The load of an earlier filter ends the spinner of a newer one; the arrows
  are shown with the old total, and ask for a page past the end of the new period.

Met on the way, without a run of their own: deposits and withdrawals write no
audit row, though `docs/project-info.md:89` speaks of every state change; the old
status in an audit row of a card need not be the one that the change replaced
(`docs/security.md:83`), only one that the card had while the request ran
(`OldStatusWasShown`); of two registrations of one email the second may be
answered 500 instead of `EMAIL_TAKEN`; and two clicks in a row issue two cards of
a kind, since the server knows no limit.

## 4. What is proved

Every theorem holds for every value of the constants: any number of requests
(also infinitely many), users, accounts, keys, cards and calls, every menu and
every seed, from the assumptions that the modules name.

**Ledger** (`LedgerProofs`, `LedgerPromises`; from `BankCalls` and `Ledger`:
amounts are positive, the seed consists of accounts of users with natural
balances, the null values are null). `InductiveInvariant` is `Spec => []IInv`;
`TypeCorrect` (with it: no overdraft), `LedgerIsChain` and
`ClosedAccountsAreEmpty` follow; `LedgerPromises` adds pairing, one transfer per
key, the audit trail, the two action properties, and the refinement
`Spec => KeepsPromise`. All of it holds in the two specifications that compose
the money routes with something else, too (see `Cards` and `TransferForm`).

The argument. None of these is inductive by itself: a handler writes balances
that it computed from copies, and it tested the copies. `VersionIdentifiesRow`
says that a copy with the version of the committed row is the committed row,
`TestsHold` that what was tested holds of the copies until the first write, and
of the committed rows from then on. They meet in lemma `MatchingCopies`: if the
versions match when the lock is taken, the tests hold of the rows that are about
to change, and nobody can change them before the commit. `DraftIsPartOfResult`
says exactly what has been written at each step, so that the commit replaces the
database by `Result(db, call)`, the call applied at once. `IdentifiersAreFresh`
does for new accounts what versions do for old ones. There is one lemma per
action. `TablesAgree`, which is inductive beside `IInv`, ties the tables to each
other: transactions, transfer rows and audit rows of every commit. The refinement
maps the commit to a step of `Bank`, a rejection to a refusal, and everything
else to a stutter.

**Cards** (`CardsProofs`): `CardsInv` consists of `IInv`, the types, what a
session has read and can no longer change (`CardTestsHold`), the freshness of
card identifiers, and the properties. Its proof is the composition: a card
request takes a lock that the money routes share, and lemma `ForeignLockKeeps`
shows that `IInv` holds whoever else holds it (`LedgerBesideCards`). Theorems
about the cards: the types and the lock, the audit trail, that what a request is
told of a status was true, that recorded old values are recent, and that deleted
cards stay deleted.

`CardSpec` does not imply `Spec`: the lock changes hands, and a restart happens
when only card requests are under way. But by lemma `CardStepsForLedger` every
step is one of `Ledger`, a restart, or leaves everything but the lock alone, and
the lemmas of `LedgerPromises` about a step, a restart and a step that commits
nothing give the promises again: `TablesAgreeBesideCards`,
`BalancesBesideCards`, `NothingIsRewrittenBesideCards`,
`ClosedAccountsRestBesideCards`, and the refinement `BankBesideCards`, for which
the card routes stutter and a restart refuses what is pending.

**TransferForm** (`TransferFormProofs`): every step of the page with its server is
a step of `Ledger` or leaves `Ledger` alone, so `IInv` and `TablesAgree` hold.
`FormInv` adds that at most one submission is under way, that every transfer
under a key of the page is by one of its own submissions, and that while every
answer has arrived, all the submissions that were answered with an error left
nothing. Hence `PageTellsTheTruth` and `AnsweredPaysOnce`. The page is one
environment of `Ledger` among others, `FormSpec => Spec` (`FormIsALedger`): every
theorem of `Ledger` holds behind it, with `KeepsPromise` (`BankBehindForm`).

**TokenClient** (`TokenClientProofs`; sessions have owners): the types, that the
queue is always served, and that calls act once. `ActsOnce` needs
`AnswersAreTrue`: the server has carried out a call under way only if the reply
on its way says so, and only a call whose reply says the opposite is sent again.

**Auth** (`AuthProofs`): all three properties. The tables only grow (a user never
comes back, a revoked token is never live again), and `AuthInv` says per request
what it knows of the rows it has read, and that a request whose credential was
dead on arrival can only be refused from there.

**Pages** (`PagesProofs`; from what the modules of the pages assume: no two of the
first cards are of one kind, every screen makes a call when it is opened, the
first entries of a statement are in the order of their stamps, call numbers,
dates and amounts are numbers, and the null values are null): all ten properties
of the run `pages`.
The lemmas of the first part say what each step of `PageCalls` does to the calls;
they hold for every page. `PagesInv` then has one invariant per screen, and says
of the screens that are not open that they have done nothing. Three arguments
recur. A dialog that can be submitted has no call under way, and one that has
changed something cannot be submitted again (`CreatesOnce`, `MovesOnce`,
`IssueIsFirst`). What is shown is what the server has, or a load is under way
(the newest of those that are) whose answer, if it is there, is not older than
the last change, or a change has been answered whose callback will load
(`ListCatchesUp`, `BalanceCatchesUp`, `AccountsCatchUp`, `TableCatchesUp`); at
rest only the first is left. And the fields cannot be edited while a lookup or a
transfer is under way, of which there is at most one (`PaymentsAreAlone`). The
bounds `Room` and `Calls` play no part in the proofs.

`PagesMissNothing` is about counts. A transaction is on a page by the number of
those newer than it (`NewerIn`), and this number only grows as others are
committed. `SeenSoFar` says that whatever was there at the first page and has not
been seen comes after the page that is shown, in the listing that the page was cut
from (`table.of`). Its total is the size of that listing unless something was
committed between the count and the rows; so on the last page nothing comes after.

`PagesAddUp` is about sums: the opening balance and the lines of a period make
its closing balance, for entries of any number. No induction over data is needed.
The entries up to an instant are the first `k` of them (`FirstOnes`), since they
are sorted; two step-by-step sums of the same amounts are equal, because there is
no least place where they differ (`SumsAreUnique`); and the running sum of the
changes of a balance is the balance itself (`ChangesAddUp`). That running sum is
also the witness that the recursive function in `Total` exists.
`PagesJoinStatements` rests on the same lemmas: what two statements leave out
between them is a run of entries like any period (`SortedEntriesJoin`).

Only model-checked: liveness (`EveryRequestEnds`, `LockIsReleased`,
`EveryCallEnds`), which needs fairness and `ENABLED` and is out of the prover's
reach.

## 5. Not modelled

- **Sign-in pages** (`Login.jsx`, `Register.jsx`): two forms that are disabled
  while their one call is under way, and leave the page when it succeeds. The
  session that they start is in `TokenClient`, what the server does in `Auth`.
- **Layout, toasts, permissions, routes**: rendering, a list that a timer
  empties, and pure predicates of one row, which are guards in the pages' modules.
- **Start-up, logging, configuration, health**: they keep no state that a
  property could be about. The restart after a crash is an action of `Ledger`.
- **The schema migration**: one step, run by hand.
- **Decimals and rounding**: amounts are cents in the models, which is all that
  the client sends; a transfer by API may have more decimals, and how SQLite
  rounds them is outside the code.
- **Left out of modelled parts**: the random account number and its retries,
  encryption and the number of a card, the clipboard, printing, notes,
  descriptions, types, currencies and the texts of errors; listing by type,
  `get_transfer` and `get_transaction`, which only read and which the client
  never calls.
- **Navigation between pages**: a page that is left is unmounted with its state.
