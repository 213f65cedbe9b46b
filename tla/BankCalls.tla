------------------------------ MODULE BankCalls ------------------------------
(***************************************************************************)
(* The calls that clients make on the money routes of the API, and what    *)
(* each one adds to the balance of each account.  Shared by Bank (what the *)
(* service promises) and Ledger (what the handlers and the database do).   *)
(*                                                                         *)
(* An amount is a natural number of cents: the request schemas reject      *)
(* amounts that are not positive.  An account is named by the identifier   *)
(* of its row, a fresh UUID chosen by the server when it opens it.         *)
(***************************************************************************)
EXTENDS Naturals

CONSTANTS
    Requests,   \* HTTP requests, each sent once
    Users,      \* authenticated users
    Accounts,   \* account identifiers, of opened and unopened accounts
    Keys,       \* idempotency keys that clients put in transfers
    Amounts,    \* amounts that clients ask for
    Menu,       \* the calls that clients may send, a subset of Calls
    Seed        \* accounts that exist before the first request

OpenCall == [kind : {"open"}, user : Users, account : Accounts]

CloseCall == [kind : {"close"}, user : Users, account : Accounts]

CashCall ==
    [kind : {"deposit", "withdraw"}, user : Users, account : Accounts,
     amount : Amounts]

\* "account" is the account that the money leaves; the two accounts differ.
TransferCall ==
    {c \in [kind : {"transfer"}, user : Users, account : Accounts,
            to : Accounts, amount : Amounts, key : Keys] : c.account # c.to}

Calls == OpenCall \union CloseCall \union CashCall \union TransferCall

NoCall == [kind |-> "none"]

ASSUME AmountsArePositive == Amounts \subseteq Nat \ {0}

ASSUME MenuIsOfCalls == Menu \subseteq Calls

ASSUME SeedIsOfAccounts ==
    /\ DOMAIN Seed \subseteq Accounts
    /\ Seed \in [DOMAIN Seed -> [owner : Users, balance : Nat]]

\* The accounts whose rows a call writes.
Touched(c) == IF c.kind = "transfer" THEN {c.account, c.to} ELSE {c.account}

\* The account whose balance a call reduces must hold the amount.
Needs(c) == IF c.kind \in {"withdraw", "transfer"} THEN c.amount ELSE 0

\* The balance of account a after call c, from the balance n before it.
BalanceAfter(c, a, n) ==
    IF c.kind = "deposit" \/ (c.kind = "transfer" /\ a = c.to)
    THEN n + c.amount
    ELSE n - Needs(c)
=============================================================================
