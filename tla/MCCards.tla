-------------------------------- MODULE MCCards -------------------------------
(***************************************************************************)
(* A small instance of Cards: bob has an open and empty account with one   *)
(* card; one request of the money routes, which closes the account or      *)
(* deposits on it, beside requests for cards.                              *)
(***************************************************************************)
EXTENDS Cards, TLC

CONSTANTS alice, bob, a1, k1, d1, d2

Symmetry == Permutations(CardRequests)

MCUsers == {alice, bob}
MCAccounts == {a1}
MCKeys == {k1}
MCAmounts == {1}
MCSeed == a1 :> [owner |-> bob, balance |-> 0]
MCMenu ==
    {[kind |-> "close", user |-> bob, account |-> a1],
     [kind |-> "deposit", user |-> bob, account |-> a1, amount |-> 1]}

MCCardIds == {d1, d2}
MCCardSeed == <<[card |-> d1, account |-> a1]>>
MCCardMenu ==
    {[kind |-> "issue", user |-> bob, account |-> a1, card |-> d2],
     [kind |-> "issue", user |-> alice, account |-> a1, card |-> d2],
     [kind |-> "delete", user |-> bob, card |-> d1],
     [kind |-> "status", user |-> alice, card |-> d1, status |-> "BLOCKED"]}
    \union {[kind |-> "status", user |-> bob, card |-> d1, status |-> s] : s \in Statuses}
=============================================================================
