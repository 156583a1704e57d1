-------------------------------- MODULE MCCart --------------------------------
(* Cart for TLC: a reward and a vote of two Channels. *)
EXTENDS Cart

CONSTANTS reward, vote, c1, c2
TwoHomes == [i \in Item |-> IF i = reward THEN c1 ELSE c2]
=============================================================================
