------------------------------ MODULE MCOverlay ------------------------------
(* Overlay for TLC: donations of one and two units. *)
EXTENDS Overlay, TLC

CONSTANTS d1, d2
Amounts == [d \in Donation |-> IF d = d1 THEN 1 ELSE 2]
Sym == Permutations(Channel) \cup Permutations(Event)
=============================================================================
