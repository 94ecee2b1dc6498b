--------------------------- MODULE CoinSelection ---------------------------
(***************************************************************************)
(* How much a send costs and which coins pay for it.  Three loops decide:  *)
(* createTransaction's check of the notes (estimateShieldSelection) and of *)
(* the outputs to shield (estimateTransparentSelection), both smallest     *)
(* coin first, and buildSend's own choice, largest first.  Each takes one  *)
(* coin after another until they cover the amount and the fee, which grows *)
(* with every coin.  Amounts are in satoshis, sizes in bytes.              *)
(***************************************************************************)
EXTENDS Integers, FiniteSets, FiniteSetsExt

CONSTANTS
  Coins,            (* the notes or outputs a send may use                  *)
  Values,           (* what one of them can be worth                        *)
  Amounts, Rates,   (* what a caller may ask for: amount, satoshis per byte *)
  DUST_NOTE_SATS,   (* 384000: the fee of one more shield input             *)
  WideCount,        (* 253: where a count takes three bytes instead of one  *)
  MAX_STANDARD_TX_SIZE,   (* 100000                                         *)
  MaxSafe           (* the last integer whose arithmetic is exact           *)

ASSUME Numbers ==
  /\ Values \subseteq Nat /\ Amounts \subseteq Nat /\ Rates \subseteq Nat
  /\ DUST_NOTE_SATS \in Nat /\ WideCount \in Nat /\ MAX_STANDARD_TX_SIZE \in Nat
  /\ MaxSafe \in Nat
  /\ IsFiniteSet(Coins)

VARIABLES
  value,      (* what each coin is worth                                    *)
  request,    (* what the caller asked for                                  *)
  left,       (* the coins the loop has not looked at                       *)
  selected, total, outcome,
  change,     (* buildSend's change output, 0 for none                      *)
  bytes       (* size of the transaction buildSend signs                    *)

vars == <<value, request, left, selected, total, outcome, change, bytes>>

(* Lengths of the scripts of an address: P2SH, P2PKH and exchange. *)
Scripts == {23, 25, 26}

(* createTransaction from notes or from outputs, and buildSend.            *)
(* subtractFee is subtractFeeFromAmount, or its older name sweep.          *)
Request ==
  [kind : {"notes", "outputs"}, amount : Amounts, toShield : BOOLEAN, subtractFee : BOOLEAN]
    \cup [kind : {"buildSend"}, amount : Amounts, rate : Rates, script : Scripts]

Count == Cardinality(selected)

-----------------------------------------------------------------------------
(* Sizes and fees *)

(* mutant: every output has the size of a P2PKH one *)
FlatSize(script) == 34

outputSize(script) == 8 + 1 + script

CountBytes(n) == IF n < WideCount THEN 1 ELSE 3

estSize(n, outBytes) == n * 148 + outBytes + 85 + (IF n >= WideCount THEN 2 ELSE 0)

(* The recipient's output, and a P2PKH one for the change. *)
OutBytes == outputSize(request.script) + outputSize(25)

dustThreshold(script) == (30000 * (8 + 1 + script + 148)) \div 1000

TransparentOutputs ==
  (IF request.toShield THEN 0 ELSE 1) + (IF request.kind = "outputs" THEN 1 ELSE 0)

PerInput == IF request.kind = "notes" THEN 384 ELSE 150

(* What n coins pay in fees. *)
FeeFor(n) ==
  IF request.kind = "buildSend" THEN request.rate * estSize(n, OutBytes)
  ELSE 1000 * (2 * 948 + n * PerInput + TransparentOutputs * 34 + 85)

(* What is worth an output of its own to get back. *)
ChangeFloor ==
  IF request.rate * 148 > dustThreshold(25) THEN request.rate * 148 ELSE dustThreshold(25)

(* What serialize writes for an output: value, length and script. *)
WrittenOutput(script) == 8 + (1 + script)

(* What serialize writes for n inputs, each with a DER signature of der    *)
(* bytes and a compressed key, and the outputs' scripts with the lengths.  *)
Serialized(n, der, outBytes) ==
  (2 + 2) + CountBytes(n) + n * (36 + (1 + (1 + der + 1 + 1 + 33)) + 4)
    + 1 + outBytes + 4 + (1 + 8 + 1 + 1 + 64)

-----------------------------------------------------------------------------

(* mutant: dust notes are spent like any other *)
AnyCoin(c) == TRUE

(* A note worth no more than its own input fee is never offered. *)
Offered(c) == request.kind = "notes" => value[c] > DUST_NOTE_SATS

Init ==
  /\ value \in [Coins -> Values]
  /\ request \in Request
  /\ left = {} /\ selected = {} /\ total = 0
  /\ outcome = "asked" /\ change = 0 /\ bytes = 0

Acceptable ==
  /\ request.amount > 0
  /\ request.kind = "buildSend" =>
       request.rate >= 10 /\ request.amount >= dustThreshold(request.script)

(* The arguments are checked before any coin is looked at. *)
Check ==
  /\ outcome = "asked"
  /\ outcome' = IF Acceptable THEN "choosing" ELSE "refused"
  /\ left' = {c \in Coins : Offered(c)}
  /\ UNCHANGED <<value, request, selected, total, change, bytes>>

(* mutant: buildSend looks at the smallest coin first, as the others do *)
SmallestFirst(c) == \A d \in left : value[c] <= value[d]

(* c is the next coin in the order of the loop. *)
Foremost(c) ==
  \A d \in left : IF request.kind = "buildSend" THEN value[c] >= value[d]
                                                ELSE value[c] <= value[d]

Covered == total >= request.amount + FeeFor(Count)

(* One turn of the loop.  buildSend gives up once the transaction would be *)
(* too large to relay, whether or not this coin completes the amount.      *)
Take(c) ==
  /\ outcome = "choosing"
  /\ ~Covered
  /\ c \in left /\ Foremost(c)
  /\ left' = left \ {c}
  /\ selected' = selected \cup {c}
  /\ total' = total + value[c]
  /\ outcome' = IF /\ request.kind = "buildSend"
                   /\ estSize(Cardinality(selected'), OutBytes) >= MAX_STANDARD_TX_SIZE
                THEN "too_large" ELSE outcome
  /\ UNCHANGED <<value, request, change, bytes>>

(* The coins ran out before they covered amount and fee.  When the caller  *)
(* allows it createTransaction goes on: the prover takes the fee from the  *)
(* recipient's amount, or fails if the coins do not cover even that.       *)
RunOut ==
  /\ outcome = "choosing"
  /\ ~Covered
  /\ left = {}
  /\ outcome' = CASE request.kind = "buildSend" /\ FeeFor(Count) > MaxSafe -> "overflow"
                  [] request.kind # "buildSend" /\ request.subtractFee -> "fee_from_amount"
                  [] OTHER -> "insufficient"
  /\ UNCHANGED <<value, request, left, selected, total, change, bytes>>

(* The estimators only answer. *)
Estimate ==
  /\ outcome = "choosing"
  /\ request.kind # "buildSend"
  /\ Covered
  /\ outcome' = "sufficient"
  /\ UNCHANGED <<value, request, left, selected, total, change, bytes>>

(* Less than the floor is left to the fee. *)
ChangeOf(surplus) == IF surplus > ChangeFloor THEN surplus ELSE 0

(* buildSend settles the change, signs, and looks at the size once more.   *)
Build(der) ==
  /\ outcome = "choosing"
  /\ request.kind = "buildSend"
  /\ Covered
  /\ IF FeeFor(Count) > MaxSafe
     THEN outcome' = "overflow" /\ UNCHANGED <<change, bytes>>
     ELSE /\ change' = ChangeOf(total - request.amount - FeeFor(Count))
          /\ bytes' = Serialized(Count, der,
                        WrittenOutput(request.script)
                          + (IF change' = 0 THEN 0 ELSE WrittenOutput(25)))
          /\ outcome' = IF bytes' >= MAX_STANDARD_TX_SIZE THEN "rebuilt_too_large"
                        ELSE "built"
  /\ UNCHANGED <<value, request, left, selected, total>>

(* Low-S signatures have at most 71 bytes, most have 70 or 71. *)
Signatures == {70, 71}

Next ==
  \/ Check
  \/ \E c \in Coins : Take(c)
  \/ RunOut \/ Estimate
  \/ \E der \in Signatures : Build(der)

Spec == Init /\ [][Next]_vars

-----------------------------------------------------------------------------
(* Properties *)

Outcomes == {"asked", "refused", "choosing", "too_large", "overflow", "insufficient",
             "fee_from_amount", "sufficient", "rebuilt_too_large", "built"}

TypeOK ==
  /\ value \in [Coins -> Values]
  /\ request \in Request
  /\ left \subseteq Coins /\ selected \subseteq Coins
  /\ total \in Nat /\ change \in Nat /\ bytes \in Nat
  /\ outcome \in Outcomes

Sum(S) == MapThenSumSet(LAMBDA c : value[c], S)

(* Some of the coins would pay for the request. *)
Payable(cs) == \E S \in SUBSET cs : Sum(S) >= request.amount + FeeFor(Cardinality(S))

(* createTransaction refuses a send from notes, or takes the fee from the  *)
(* recipient's amount where the caller allows it, exactly when no choice   *)
(* of the wallet's notes, dust included, pays both.  The loop itself only  *)
(* tries one choice; that it never misses another rests on the dust filter.*)
RefusesOnlyTheUnpayable ==
  request.kind = "notes" =>
    /\ outcome \in {"insufficient", "fee_from_amount"} => ~Payable(Coins)
    /\ outcome = "sufficient" => Payable(Coins)

(* The coins buildSend uses are as few as any that pay, and when it gives  *)
(* up, no choice of coins small enough to be relayed would have paid.      *)
LargestFirstIsBest ==
  request.kind = "buildSend" =>
    /\ outcome = "built" =>
         \A S \in SUBSET Coins :
           Sum(S) >= request.amount + FeeFor(Cardinality(S)) => Cardinality(S) >= Count
    /\ outcome \in {"insufficient", "too_large"} =>
         \A S \in SUBSET Coins :
           Sum(S) >= request.amount + FeeFor(Cardinality(S)) =>
             estSize(Cardinality(S), OutBytes) >= MAX_STANDARD_TX_SIZE

Paid == total - request.amount - change

(* A transaction that buildSend hands out pays at least the fee rate that  *)
(* was asked for, by its actual size; at most one change output's worth    *)
(* more than it estimated; its change is not dust; and the check of the    *)
(* signed size never has to fire.                                          *)
FeeIsFair ==
  /\ outcome = "built" =>
       /\ Paid >= request.rate * bytes
       /\ Paid <= FeeFor(Count) + ChangeFloor
       /\ change = 0 \/ change >= dustThreshold(25)
       /\ bytes < MAX_STANDARD_TX_SIZE
  /\ outcome # "rebuilt_too_large"

=============================================================================
