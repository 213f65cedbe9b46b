---------------------------- MODULE MCTransferForm ---------------------------
(***************************************************************************)
(* A small instance of TransferForm: alice pays bob 1 of her 2 cents, and  *)
(* meanwhile withdraws from the same account and bob deposits or closes.   *)
(***************************************************************************)
EXTENDS TransferForm, TLC

CONSTANTS alice, bob, a1, a2, k1, k2, k3, k4

MCUsers == {alice, bob}
MCAccounts == {a1, a2}
MCKeys == {k1, k2, k3, k4}
MCAmounts == 1..2
MCSeed == (a1 :> [owner |-> alice, balance |-> 2]) @@ (a2 :> [owner |-> bob, balance |-> 0])

Symmetry == Permutations(Requests) \union Permutations(Keys)

MCOthers ==
    {[kind |-> "withdraw", user |-> alice, account |-> a1, amount |-> 1],
     [kind |-> "deposit", user |-> bob, account |-> a2, amount |-> 1],
     [kind |-> "close", user |-> bob, account |-> a2]}

MCMenu ==
    MCOthers \union
    {[kind |-> "transfer", user |-> alice, account |-> a1, to |-> a2, amount |-> 1,
      key |-> k] : k \in Keys}
=============================================================================
