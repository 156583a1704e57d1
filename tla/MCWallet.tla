------------------------------ MODULE MCWallet ------------------------------
(* Wallet for TLC: donors, donations and staff requests are interchangeable. *)
EXTENDS Wallet, TLC

Debits == {-1, 1}
Sym == Permutations(Donor) \cup Permutations(External) \cup Permutations(Staff)
=============================================================================
