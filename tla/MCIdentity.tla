----------------------------- MODULE MCIdentity ------------------------------
(* Identity for TLC: every kind of name is interchangeable. *)
EXTENDS Identity, TLC

Sym == Permutations(Event) \cup Permutations(Channel) \cup Permutations(Slug)
           \cup Permutations(Donation)
=============================================================================
