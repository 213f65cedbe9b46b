---------------------------- MODULE MCTokenClient ----------------------------
(***************************************************************************)
(* A small instance of TokenClient: two login sessions of two users.       *)
(***************************************************************************)
EXTENDS TokenClient, TLC

CONSTANTS alice, bob, s1, s2

MCOwners == {alice, bob}
MCSessions == {s1, s2}
MCOwnerOf == [s \in Sessions |-> IF s = s1 THEN alice ELSE bob]
=============================================================================
