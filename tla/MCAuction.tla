------------------------------ MODULE MCAuction ------------------------------
(* Auction for TLC: donors are interchangeable. *)
EXTENDS Auction, TLC

Sym == Permutations(Donor)
=============================================================================
