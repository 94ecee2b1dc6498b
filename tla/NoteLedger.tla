----------------------------- MODULE NoteLedger -----------------------------
(***************************************************************************)
(* What the spending half of the shield wallet promises its user, without  *)
(* how: notes are on offer, or claimed by one transaction, or gone because *)
(* the chain spends them.  A transaction keeps its claim until the user    *)
(* gives the transaction up, rolls the wallet back to a checkpoint, or     *)
(* restores a save that is older than the transaction; how its broadcast   *)
(* turns out, what is scanned and who else calls the wallet meanwhile do   *)
(* not matter.  ShieldSpend implements it.                                 *)
(***************************************************************************)
EXTENDS TLAPS

CONSTANTS Notes, Txs

VARIABLES
  offered,   (* notes the next send may take                               *)
  claims,    (* the transactions the wallet answers for -> their notes     *)
  gone,      (* notes the scanned chain spends                             *)
  used,      (* every transaction that ever had a claim                    *)
  saved      (* what a restart goes back to                                *)

vars == <<offered, claims, gone, used, saved>>

Claimed == UNION {claims[t] : t \in DOMAIN claims}

Init ==
  /\ offered = {} /\ gone = {} /\ used = {}
  /\ claims = [t \in {} |-> {}]
  /\ saved = [offered |-> {}, gone |-> {}, known |-> {}]

(* A new transaction takes notes that are on offer, all at once. *)
Claim(t, N) ==
  /\ t \notin used
  /\ N \subseteq offered
  /\ offered' = offered \ N
  /\ claims' = [u \in DOMAIN claims \cup {t} |-> IF u = t THEN N ELSE claims[u]]
  /\ used' = used \cup {t}
  /\ UNCHANGED <<gone, saved>>

(* Blocks bring the notes D and spend the notes G. *)
Scan(D, G) ==
  /\ D \cap (Claimed \cup gone) = {}
  /\ offered' = (offered \cup D) \ G
  /\ gone' = gone \cup G
  /\ UNCHANGED <<claims, used, saved>>

Only(T) == [t \in DOMAIN claims \cap T |-> claims[t]]

(* A transaction is given up, and its notes N come back. *)
Release(t, N) ==
  /\ claims' = Only(Txs \ {t})
  /\ t \in DOMAIN claims => N \subseteq claims[t]
  /\ N \cap (gone \cup Claimed') = {}
  /\ offered' = offered \cup N
  /\ UNCHANGED <<gone, used, saved>>

(* Back to a checkpoint below every note. *)
RollBack ==
  /\ offered' = {} /\ gone' = {}
  /\ claims' = Only({})
  /\ UNCHANGED <<used, saved>>

Save ==
  /\ saved' = [offered |-> offered, gone |-> gone, known |-> used]
  /\ UNCHANGED <<offered, claims, gone, used>>

(* A restart takes the saved state and knows no transaction built since. *)
Restore ==
  /\ offered' = saved.offered /\ gone' = saved.gone
  /\ claims' = Only(saved.known)
  /\ UNCHANGED <<used, saved>>

Next ==
  \/ \E t \in Txs, N \in SUBSET Notes : Claim(t, N) \/ Release(t, N)
  \/ \E D, G \in SUBSET Notes : Scan(D, G)
  \/ RollBack \/ Save \/ Restore

Spec == Init /\ [][Next]_vars

-----------------------------------------------------------------------------

(* No note is on offer while a transaction claims it or after the chain    *)
(* spent it, no two transactions claim the same note, and the state a      *)
(* restart goes back to would keep all that.                               *)
Exclusive ==
  /\ offered \cap (Claimed \cup gone) = {}
  /\ \A t, u \in DOMAIN claims : t # u => claims[t] \cap claims[u] = {}
  /\ DOMAIN claims \subseteq used /\ saved.known \subseteq used
  /\ saved.offered \cap saved.gone = {}
  /\ \A t \in DOMAIN claims \cap saved.known : claims[t] \cap saved.offered = {}

(* The promise is consistent: exclusive claims are an invariant of the     *)
(* ledger, for every set of notes and transactions.                        *)
THEOREM LedgerExclusive == Spec => []Exclusive
  <1>1. Init => Exclusive
    BY DEF Init, Exclusive, Claimed
  <1>2. Exclusive /\ [Next]_vars => Exclusive'
    <2> SUFFICES ASSUME Exclusive, [Next]_vars PROVE Exclusive'
      OBVIOUS
    <2> USE DEF Exclusive, Claimed, Only
    <2>1. ASSUME NEW t \in Txs, NEW N \in SUBSET Notes, Claim(t, N) PROVE Exclusive'
      BY <2>1 DEF Claim
    <2>2. ASSUME NEW t \in Txs, NEW N \in SUBSET Notes, Release(t, N) PROVE Exclusive'
      BY <2>2 DEF Release
    <2>3. ASSUME NEW D \in SUBSET Notes, NEW G \in SUBSET Notes, Scan(D, G) PROVE Exclusive'
      BY <2>3 DEF Scan
    <2>4. CASE RollBack
      BY <2>4 DEF RollBack
    <2>5. CASE Save
      BY <2>5 DEF Save
    <2>6. CASE Restore
      BY <2>6 DEF Restore
    <2>7. CASE UNCHANGED vars
      BY <2>7 DEF vars
    <2>8. QED
      BY <2>1, <2>2, <2>3, <2>4, <2>5, <2>6, <2>7 DEF Next
  <1>3. QED
    BY <1>1, <1>2, PTL DEF Spec

=============================================================================
