------------------------ MODULE MCTransparentWallet ------------------------
(* Instances of TransparentWallet for TLC.                                 *)
EXTENDS TransparentWallet

CONSTANTS o1, o2, o3   \* outpoints

Outputs == {o1, o2, o3}

Mined(hash, prev, pays, spends) ==
  [hash |-> hash, prev |-> prev, pays |-> pays, spends |-> spends]

A1 == Mined("A1", "genesis", {o1}, {})

(* o2 is mined at height 2 on Left and at height 3 on Right; Left spends   *)
(* it again at height 4.                                                   *)
Left  == <<A1, Mined("L2", "A1", {o2}, {}), Mined("L3", "L2", {}, {}),
           Mined("L4", "L3", {o3}, {o2})>>
Right == <<A1, Mined("R2", "A1", {}, {}), Mined("R3", "R2", {o2}, {}),
           Mined("R4", "R3", {}, {})>>
Branches == {Left, Right}

(* On Spending the shared o1 is consumed above the fork. *)
Spending == <<A1, Mined("S2", "A1", {o2}, {o1}), Mined("S3", "S2", {}, {})>>
Orphaned == {Spending, SubSeq(Right, 1, 3)}
=============================================================================
