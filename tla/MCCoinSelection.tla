-------------------------- MODULE MCCoinSelection --------------------------
(* An instance of CoinSelection for TLC: the satoshi amounts are the       *)
(* code's, the size limit and the width of a count are scaled down so that *)
(* two or three coins reach them.                                          *)
EXTENDS CoinSelection

(* Dust for buildSend, dust for an output to shield, a note worth exactly  *)
(* its fee and one satoshi more, and coins that pay for a send.            *)
Worths == {3000, 50000, 384000, 384001, 1200000, 2500000}

(* At the dust threshold of a P2PKH output and above it. *)
Requested == {5460, 30000, 400000}
=============================================================================
