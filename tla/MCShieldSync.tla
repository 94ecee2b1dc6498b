---------------------------- MODULE MCShieldSync ----------------------------
(* Instances of ShieldSync for TLC: two branches with activation at height *)
(* 2.  Both start with transaction a; Left mines b at height 3, Right one  *)
(* block later, so that the trees of the branches agree at some heights    *)
(* and not at others and a mix of their blocks can hold b twice or never.  *)
EXTENDS ShieldSync, TLC

CONSTANTS a, b, c, d   \* shield transactions

Transactions == {a, b, c, d}

Left  == << <<>>, <<a>>, <<b>>, <<c>> >>
Right == << <<>>, <<a>>, <<>>, <<b, d>> >>
Branches == {Left, Right}

(* a and b pay the wallet, c spends the note of a. *)
Paying == {a, b}
Inputs == [t \in Transactions |-> IF t = c THEN {[tx |-> a, pos |-> 1]} ELSE {}]

(* The checkpoint at height 3 was taken on Left, that at 2 on a block that *)
(* is on neither branch.                                                   *)
Bundled == (0 :> <<>>) @@ (2 :> <<d>>) @@ (3 :> <<a, b>>)

(* Other leaves the two before the oldest of these checkpoints.            *)
Other   == << <<>>, <<d>>, <<b>> >>
Apart   == Branches \cup {Other}
Anchors == (2 :> <<a>>) @@ (3 :> <<a, b>>)
=============================================================================
