--------------------------------- MODULE MCPages -------------------------------
(* Instances of Pages: what exists when a screen is opened, and how many   *)
(* calls each screen makes.                                                *)
EXTENDS Pages, TLC

MCIssued == 1 :> "DEBIT"

MCPeriods ==
    {Always, [from |-> 2, to |-> 2], [from |-> 2, to |-> 1], [from |-> 2, to |-> NoDate]}

MCHistory == <<2, 4>>

MCPast == <<[stamp |-> 2, after |-> 5]>>

MCLastMonth == [from |-> 1, to |-> 2]

MCAmounts == {-2, 3}

MCCallsOf ==
    [s \in Screens |-> CASE s = "statement" -> 1 .. 3 [] s = "transactions" -> 1 .. 5
                         [] OTHER -> Calls]
=============================================================================
