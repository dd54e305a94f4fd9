---------------------------- MODULE MCLocalBlobs ----------------------------
(* Two bodies of different sizes; either of them alone fits the budget. *)
EXTENDS LocalBlobs

MCSize == [d \in Digests |-> IF d = "a" THEN 1 ELSE 2]
=============================================================================
