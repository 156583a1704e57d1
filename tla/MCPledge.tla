------------------------------ MODULE MCPledge ------------------------------
(* Pledge for TLC: donors and pledges are interchangeable. *)
EXTENDS Pledge, TLC

Shape(email, found, items, topUp, ship) ==
    [email |-> email, found |-> found, items |-> items, topUp |-> topUp, ship |-> ship,
     total |-> 0]

\* A parcel with a top-up, and both items.
Shapes ==
    {Shape(Nobody, FALSE, {"reward"}, 3, TRUE)}
    \cup {Shape(d, TRUE, {"reward", "vote"}, 0, FALSE) : d \in Donor}
Sym == Permutations(Pledge) \cup Permutations(Donor)
=============================================================================
