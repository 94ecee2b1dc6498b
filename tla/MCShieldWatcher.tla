-------------------------- MODULE MCShieldWatcher --------------------------
(* Instances of ShieldWatcher for TLC. *)
EXTENDS ShieldWatcher

CONSTANTS n1, n2   \* notes

(* Equal amounts: one note replaced by the other leaves the balance as is. *)
Equal == [n \in {n1, n2} |-> 1]
=============================================================================
