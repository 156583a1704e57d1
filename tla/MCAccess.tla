------------------------------ MODULE MCAccess ------------------------------
(* Access for TLC: one donor on the admin list, one on none. *)
EXTENDS Access, TLC

CONSTANTS d1, d2
Lists == [d \in Donor |-> IF d = d1 THEN ADMIN ELSE USER]
Sym == Permutations(Request)
=============================================================================
