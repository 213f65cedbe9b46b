------------------------------- MODULE MCLedger ------------------------------
(***************************************************************************)
(* Small instances of Ledger.  Three accounts: one of alice with 2 cents,  *)
(* one of bob that is open and empty, and one that is not opened yet.  The *)
(* menus choose calls whose interleavings conflict.                        *)
(***************************************************************************)
EXTENDS LedgerInductive, TLC

CONSTANTS alice, bob, a1, a2, a3, k1, k2

MCUsers == {alice, bob}
MCAccounts == {a1, a2, a3}
MCKeys == {k1, k2}
MCAmounts == 1..2
MCSeed == (a1 :> [owner |-> alice, balance |-> 2]) @@ (a2 :> [owner |-> bob, balance |-> 0])

Symmetry == Permutations(Requests)

Send(u, f, t, n, k) ==
    [kind |-> "transfer", user |-> u, account |-> f, to |-> t, amount |-> n, key |-> k]

Cash(kind, u, a, n) == [kind |-> kind, user |-> u, account |-> a, amount |-> n]

Manage(kind, u, a) == [kind |-> kind, user |-> u, account |-> a]

\* Every operation, with calls that are refused for each reason.
MixedMenu ==
    {Manage("open", bob, a3), Manage("close", alice, a1), Manage("close", bob, a2),
     Cash("deposit", bob, a2, 1), Cash("withdraw", alice, a1, 2),
     Cash("deposit", bob, a1, 1),
     Send(alice, a1, a2, 2, k1), Send(alice, a1, a3, 1, k1), Send(bob, a2, a1, 1, k2)}

\* Two transfers in both directions under one key, and the closing of the
\* account that one of them reaches.
RaceMenu ==
    {Send(alice, a1, a2, 1, k1), Send(bob, a2, a1, 1, k1), Manage("close", bob, a2),
     Cash("withdraw", alice, a1, 1)}

\* The same transfer sent again, and deposits in between.
RetryMenu ==
    {Send(alice, a1, a2, 1, k1), Cash("deposit", bob, a2, 1), Manage("open", bob, a3)}
=============================================================================
