---------------------------------- MODULE MCAuth -------------------------------
(* Instances of Auth: two members with an email each, and somebody who has *)
(* not registered yet.                                                     *)
EXTENDS Auth, TLC

MCEmailOf == "ann" :> "a@x" @@ "bob" :> "b@x"

MCSymmetry == Permutations(Requests)
=============================================================================
