------------------------ MODULE CoinSelectionProofs ------------------------
(* For every wallet, amount, fee rate and size limit: the size buildSend   *)
(* estimates before it chooses bounds the one it signs, and neither greedy *)
(* loop misses a choice of coins that would have paid.                     *)
EXTENDS CoinSelection, NumberLemmas

(* A larger transaction costs no less.                                     *)
LEMMA FeeMonotone ==
  ASSUME NEW r \in Nat, NEW a \in Nat, NEW b \in Nat, a <= b
  PROVE  r * a <= r * b
  <1>1. PICK d \in Nat : b = a + d
    <2>1. b - a \in Nat /\ b = a + (b - a)
      OBVIOUS
    <2>2. QED
      BY <2>1
  <1>2. r * b = r * a + r * d
    BY <1>1
  <1>3. r * d \in Nat /\ r * a \in Nat
    OBVIOUS
  <1>4. QED
    BY <1>2, <1>3

(* What buildSend estimates for the coins chosen so far.                   *)
Estimated == estSize(Count, OutBytes)
Fee == FeeFor(Count)

(* What is known of a request to buildSend.                                *)
SendFacts ==
  /\ request.amount \in Nat /\ request.rate \in Nat /\ request.script \in Scripts
  /\ ChangeFloor \in Nat /\ ChangeFloor >= 5460
  /\ Count \in Nat /\ Estimated \in Nat
  /\ Fee = request.rate * Estimated /\ Fee \in Nat

LEMMA CountIsNat == TypeOK => Count \in Nat
  BY Numbers, FS_Subset, FS_CardinalityType DEF TypeOK, Count

LEMMA SendRequest == TypeOK /\ request.kind = "buildSend" => SendFacts
  <1> SUFFICES ASSUME TypeOK, request.kind = "buildSend" PROVE SendFacts
    OBVIOUS
  <1>1. /\ request.amount \in Nat /\ request.rate \in Nat /\ request.script \in Scripts
    BY Numbers DEF TypeOK, Request
  <1>2. ChangeFloor \in Nat /\ ChangeFloor >= 5460
    BY <1>1 DEF ChangeFloor, dustThreshold
  <1>3. Count \in Nat /\ Estimated \in Nat
    <2>1. Count \in Nat
      BY CountIsNat
    <2> HIDE DEF Count
    <2>2. QED
      BY <1>1, <2>1, Numbers DEF Estimated, estSize, OutBytes, outputSize, Scripts
  <1>4. Fee = request.rate * Estimated
    BY DEF Fee, FeeFor, Estimated
  <1>5. QED
    BY <1>1, <1>2, <1>3, <1>4 DEF SendFacts

(* With both outputs or without change, and whatever the signatures, no    *)
(* more is serialized than was estimated (transparent-tx.ts 121-143).      *)
LEMMA EstimateCovers ==
  ASSUME SendFacts, NEW der \in Signatures, NEW ch, NEW size,
         size = Serialized(Count, der, WrittenOutput(request.script)
                                         + (IF ch = 0 THEN 0 ELSE WrittenOutput(25)))
  PROVE  size \in Nat /\ size <= Estimated
  <1>1. CASE ch = 0
    BY <1>1, Numbers DEF SendFacts, Signatures, Scripts, Serialized, Estimated,
       estSize, OutBytes, outputSize, WrittenOutput, CountBytes
  <1>2. CASE ch # 0
    BY <1>2, Numbers DEF SendFacts, Signatures, Scripts, Serialized, Estimated,
       estSize, OutBytes, outputSize, WrittenOutput, CountBytes
  <1>3. QED
    BY <1>1, <1>2

(* What Build settles when the fee is exact. *)
LEMMA BuildFacts ==
  ASSUME TypeOK, NEW der \in Signatures, Build(der), ~(Fee > MaxSafe),
         NEW surplus, surplus = total - request.amount - Fee
  PROVE  /\ surplus \in Nat /\ total = request.amount + Fee + surplus
         /\ change' = IF surplus > ChangeFloor THEN surplus ELSE 0
         /\ bytes' \in Nat /\ bytes' <= Estimated
         /\ outcome' = IF bytes' >= MAX_STANDARD_TX_SIZE THEN "rebuilt_too_large"
                       ELSE "built"
  <1>1. /\ request.kind = "buildSend" /\ total >= request.amount + Fee
        /\ change' = ChangeOf(surplus)
    BY DEF Build, Covered, Fee
  <1>2. bytes' = Serialized(Count, der, WrittenOutput(request.script)
                                         + (IF change' = 0 THEN 0 ELSE WrittenOutput(25)))
    BY DEF Build, Fee
  <1>3. outcome' = IF bytes' >= MAX_STANDARD_TX_SIZE THEN "rebuilt_too_large" ELSE "built"
    BY DEF Build, Fee
  <1>4. SendFacts /\ total \in Nat
    BY <1>1, SendRequest DEF TypeOK
  <1>5. surplus \in Nat /\ total = request.amount + Fee + surplus
    <2>1. total >= request.amount + Fee
      BY <1>1
    <2>2. QED
      BY <1>4, <2>1 DEF SendFacts
  <1>6. change' = IF surplus > ChangeFloor THEN surplus ELSE 0
    BY <1>1 DEF ChangeOf
  <1>7. bytes' \in Nat /\ bytes' <= Estimated
    BY <1>2, <1>4, EstimateCovers
  <1>8. QED
    BY <1>3, <1>5, <1>6, <1>7

(* Every variable keeps its type, and so does the number of chosen coins.  *)
LEMMA TypeInit == Init => TypeOK
  BY DEF Init, TypeOK, Outcomes

LEMMA TypeNext == TypeOK /\ [Next]_vars => TypeOK'
  <1> SUFFICES ASSUME TypeOK, [Next]_vars PROVE TypeOK'
    OBVIOUS
  <1> USE DEF TypeOK, Outcomes
  <1>1. CASE Check
    BY <1>1 DEF Check
  <1>2. ASSUME NEW c \in Coins, Take(c) PROVE TypeOK'
    <2>1. value[c] \in Nat
      BY Numbers
    <2>2. total' \in Nat
      <3>1. total' = total + value[c]
        BY <1>2 DEF Take
      <3>2. total \in Nat
        OBVIOUS
      <3> HIDE DEF TypeOK
      <3>3. QED
        BY <2>1, <3>1, <3>2
    <2>3. outcome' \in Outcomes
      BY <1>2 DEF Take
    <2>4. left' \subseteq Coins /\ selected' \subseteq Coins
      BY <1>2 DEF Take
    <2>5. QED
      BY <1>2, <2>2, <2>3, <2>4 DEF Take
  <1>3. CASE RunOut \/ Estimate
    BY <1>3 DEF RunOut, Estimate
  <1>4. ASSUME NEW der \in Signatures, Build(der) PROVE TypeOK'
    <2>1. CASE FeeFor(Count) > MaxSafe
      BY <1>4, <2>1 DEF Build
    <2>2. CASE ~(FeeFor(Count) > MaxSafe)
      <3> DEFINE surplus == total - request.amount - Fee
      <3>1. ~(Fee > MaxSafe)
        BY <2>2 DEF Fee
      <3> HIDE DEF TypeOK
      <3>2. /\ surplus \in Nat /\ change' = IF surplus > ChangeFloor THEN surplus ELSE 0
            /\ bytes' \in Nat
            /\ outcome' = IF bytes' >= MAX_STANDARD_TX_SIZE THEN "rebuilt_too_large"
                          ELSE "built"
        BY <1>4, <3>1, BuildFacts
      <3> HIDE DEF surplus
      <3>3. change' \in Nat
        BY <3>2
      <3>4. outcome' \in Outcomes
        BY <3>2
      <3> USE DEF TypeOK
      <3>5. UNCHANGED <<value, request, left, selected, total>>
        BY <1>4 DEF Build
      <3>6. QED
        BY <3>2, <3>3, <3>4, <3>5
    <2>3. QED
      BY <2>1, <2>2
  <1>5. CASE UNCHANGED vars
    BY <1>5 DEF vars
  <1>6. QED
    BY <1>1, <1>2, <1>3, <1>4, <1>5 DEF Next

(* While buildSend chooses, the request was accepted, nothing was counted  *)
(* without being chosen, and what it has chosen would be relayed.          *)
Choosing ==
  /\ outcome = "asked" => selected = {} /\ total = 0
  /\ outcome = "choosing" =>
    /\ request.amount > 0
    /\ selected = {} => total = 0
    /\ request.kind = "buildSend" /\ selected # {} =>
         Estimated < MAX_STANDARD_TX_SIZE

FairInv == TypeOK /\ Choosing /\ FeeIsFair

LEMMA ChoosingNext == TypeOK /\ Choosing /\ [Next]_vars /\ TypeOK' => Choosing'
  <1> SUFFICES ASSUME TypeOK, Choosing, [Next]_vars, TypeOK' PROVE Choosing'
    OBVIOUS
  <1>1. CASE Check
    <2>1. outcome' = IF Acceptable THEN "choosing" ELSE "refused"
      BY <1>1 DEF Check
    <2>2. Acceptable => request.amount > 0
      BY DEF Acceptable
    <2>3. UNCHANGED <<request, selected, total>>
      BY <1>1 DEF Check
    <2>4. outcome = "asked" => selected = {} /\ total = 0
      BY DEF Choosing
    <2>5. QED
      BY <1>1, <2>1, <2>2, <2>3, <2>4 DEF Check, Choosing
  <1>2. ASSUME NEW c \in Coins, Take(c) PROVE Choosing'
    <2>1. /\ request' = request /\ selected' # {} /\ outcome = "choosing"
          /\ outcome' = "choosing" /\ request.kind = "buildSend" =>
               ~(Estimated' >= MAX_STANDARD_TX_SIZE)
          /\ outcome' # "asked"
      BY <1>2 DEF Take, Estimated, Count, OutBytes
    <2>2. request.kind = "buildSend" => Estimated' \in Nat
      <3>1. (TypeOK /\ request.kind = "buildSend" => SendFacts)'
        BY SendRequest, PTL
      <3>2. QED
        BY <2>1, <3>1 DEF SendFacts
    <2>3. request.kind = "buildSend" /\ outcome' = "choosing"
            => Estimated' < MAX_STANDARD_TX_SIZE
      BY <2>1, <2>2, Numbers
    <2>4. QED
      BY <2>1, <2>3 DEF Choosing
  <1>3. ASSUME RunOut \/ Estimate \/ \E der \in Signatures : Build(der)
        PROVE  outcome' \notin {"asked", "choosing"}
    BY <1>3 DEF RunOut, Estimate, Build
  <1>4. CASE UNCHANGED vars
    BY <1>4 DEF vars, Choosing, Estimated, Count, OutBytes
  <1>5. QED
    BY <1>1, <1>2, <1>3, <1>4 DEF Next, Choosing

LEMMA BuildIsFair ==
  ASSUME TypeOK, Choosing, NEW der \in Signatures, Build(der)
  PROVE  FeeIsFair'
  <1>1. /\ outcome = "choosing" /\ request.kind = "buildSend"
        /\ total >= request.amount + Fee
        /\ UNCHANGED <<value, request, left, selected, total>>
    BY DEF Build, Covered, Fee
  <1>2. SendFacts /\ total \in Nat
    BY <1>1, SendRequest DEF TypeOK
  <1>3. selected # {} /\ Estimated < MAX_STANDARD_TX_SIZE
    BY <1>1, <1>2 DEF Choosing, SendFacts
  <1>4. CASE Fee > MaxSafe
    BY <1>4 DEF Build, FeeIsFair, Fee
  <1>5. CASE ~(Fee > MaxSafe)
    <2> DEFINE surplus == total - request.amount - Fee
    <2>1. surplus \in Nat /\ total = request.amount + Fee + surplus
      BY <1>5, BuildFacts
    <2>2. change' = IF surplus > ChangeFloor THEN surplus ELSE 0
      BY <1>5, BuildFacts
    <2>3. bytes' \in Nat /\ bytes' <= Estimated
      BY <1>5, BuildFacts
    <2>4. outcome' = IF bytes' >= MAX_STANDARD_TX_SIZE THEN "rebuilt_too_large"
                     ELSE "built"
      BY <1>5, BuildFacts
    <2> HIDE DEF surplus
    <2>5. /\ request.amount \in Nat /\ request.rate \in Nat
          /\ Estimated \in Nat /\ Fee \in Nat
          /\ ChangeFloor \in Nat /\ ChangeFloor >= 5460
          /\ Fee = request.rate * Estimated
      BY <1>2 DEF SendFacts
    <2>6. outcome' = "built" /\ bytes' < MAX_STANDARD_TX_SIZE
      <3>1. bytes' < MAX_STANDARD_TX_SIZE
        BY <1>3, <2>3, <2>5, Numbers
      <3>2. ~(bytes' >= MAX_STANDARD_TX_SIZE)
        BY <2>3, <3>1, Numbers
      <3>3. QED
        BY <2>4, <3>1, <3>2
    <2>7. request.rate * bytes' <= Fee /\ request.rate * bytes' \in Nat
      BY <2>3, <2>5, FeeMonotone
    <2>8. Fee' = Fee /\ ChangeFloor' = ChangeFloor /\ request' = request
      BY <1>1 DEF Fee, FeeFor, Count, OutBytes, ChangeFloor, PerInput, TransparentOutputs
    <2>9. \/ change' = 0 /\ Paid' = Fee + surplus /\ surplus <= ChangeFloor
          \/ change' = surplus /\ Paid' = Fee /\ surplus > ChangeFloor
      <3>1. Paid' = total - request.amount - change'
        BY <1>1 DEF Paid
      <3>2. QED
        BY <1>2, <2>1, <2>2, <2>5, <3>1
    <2>10. /\ Paid' >= request.rate * bytes'
           /\ Paid' <= Fee + ChangeFloor
           /\ change' = 0 \/ change' >= 5460
      BY <2>1, <2>5, <2>7, <2>9
    <2>11. dustThreshold(25) = 5460
      BY DEF dustThreshold
    <2>12. FeeFor(Count)' = Fee'
      BY DEF Fee
    <2>13. /\ Paid' >= request'.rate * bytes'
           /\ Paid' <= Fee' + ChangeFloor'
           /\ bytes' < MAX_STANDARD_TX_SIZE
           /\ outcome' = "built"
      BY <2>6, <2>8, <2>10
    <2>14. QED
      BY <2>10, <2>13 DEF FeeIsFair, Fee, dustThreshold
  <1>6. QED
    BY <1>4, <1>5

(* Whatever the coins, the amount and the rate (transparent-wallet.ts      *)
(* 511-566): what buildSend hands out pays the rate it was asked for by    *)
(* its real size, overpays by less than one change output is worth, has no *)
(* dust change, and was small enough before it was signed.                 *)
THEOREM FeesAreFair == Spec => []FeeIsFair
  <1>1. Init => FairInv
    BY TypeInit DEF Init, FairInv, Choosing, FeeIsFair
  <1>2. FairInv /\ [Next]_vars => FairInv'
    <2> SUFFICES ASSUME FairInv, [Next]_vars PROVE FairInv'
      OBVIOUS
    <2>1. TypeOK' /\ Choosing'
      BY TypeNext, ChoosingNext DEF FairInv
    <2>2. ASSUME NEW der \in Signatures, Build(der) PROVE FeeIsFair'
      BY <2>2, BuildIsFair DEF FairInv
    <2>3. ASSUME Check \/ (\E c \in Coins : Take(c)) \/ RunOut \/ Estimate
          PROVE  FeeIsFair'
      <3>1. outcome' \notin {"built", "rebuilt_too_large"}
        BY <2>3 DEF Check, Take, RunOut, Estimate
      <3>2. QED
        BY <3>1 DEF FeeIsFair
    <2>4. ASSUME UNCHANGED vars PROVE FeeIsFair'
      <3>1. /\ Paid' = Paid /\ FeeFor(Count)' = FeeFor(Count)
            /\ ChangeFloor' = ChangeFloor
            /\ UNCHANGED <<outcome, request, bytes, change>>
        BY <2>4 DEF vars, Paid, FeeFor, Count, OutBytes, ChangeFloor, PerInput,
           TransparentOutputs, estSize, dustThreshold
      <3>2. FeeIsFair
        BY DEF FairInv
      <3>3. QED
        BY <3>1, <3>2, Zenon DEF FeeIsFair
    <2>5. FeeIsFair'
      BY <2>2, <2>3, <2>4 DEF Next
    <2>6. QED
      BY <2>1, <2>5 DEF FairInv
  <1>3. FairInv => FeeIsFair
    BY DEF FairInv
  <1>4. QED
    BY <1>1, <1>2, <1>3, PTL DEF Spec

-----------------------------------------------------------------------------
(* The greedy choices, against every other choice of coins *)

LEMMA SumIsSum == \A S : Sum(S) = SumOf(value, S)
  BY DEF Sum, SumOf, MapThenSumSet, MapThenFoldSet

Pays(S) == SumOf(value, S) >= request.amount + FeeFor(Cardinality(S))

(* The coins did not cover amount and fee. *)
Short(result) == result \in {"insufficient", "fee_from_amount"}

(* What the loop has chosen and what it has left are the coins on offer,   *)
(* the total is the sum of the chosen; buildSend has taken none worth less *)
(* than one it left, and with fewer coins it could not have paid.          *)
GreedyInv ==
  /\ left \cap selected = {}
  /\ total = SumOf(value, selected)
  /\ outcome = "asked" => selected = {} /\ left = {}
  /\ outcome # "asked" => left \cup selected = {c \in Coins : Offered(c)}
  /\ Short(outcome) => left = {} /\ ~Covered
  /\ outcome = "sufficient" => Covered
  /\ request.kind = "buildSend" =>
       /\ \A c \in selected, d \in left : value[c] >= value[d]
       /\ \A S \in SUBSET Coins : Cardinality(S) < Count => ~Pays(S)
       /\ outcome = "too_large" => estSize(Count, OutBytes) >= MAX_STANDARD_TX_SIZE

(* Coins that cost what they are worth. *)
LEMMA CoinFacts ==
  ASSUME TypeOK, NEW S \in SUBSET Coins
  PROVE  /\ IsFiniteSet(S) /\ NatValued(value, S)
         /\ Cardinality(S) \in Nat /\ SumOf(value, S) \in Nat
  <1>1. IsFiniteSet(S) /\ NatValued(value, S)
    BY Numbers, FS_Subset DEF TypeOK, NatValued
  <1>2. QED
    BY <1>1, FS_CardinalityType, SumNat

LEMMA SplitSum ==
  ASSUME TypeOK, NEW S \in SUBSET Coins, NEW T \in SUBSET Coins
  PROVE  /\ SumOf(value, S) = SumOf(value, S \cap T) + SumOf(value, S \ T)
         /\ Cardinality(S) = Cardinality(S \cap T) + Cardinality(S \ T)
  <1>1. S \cap T \in SUBSET Coins /\ S \ T \in SUBSET Coins
    OBVIOUS
  <1>2. (S \cap T) \cap (S \ T) = {} /\ (S \cap T) \cup (S \ T) = S
    OBVIOUS
  <1>3. SumOf(value, (S \cap T) \cup (S \ T)) = SumOf(value, S \cap T) + SumOf(value, S \ T)
    BY <1>1, <1>2, CoinFacts, SumUnion
  <1>4. Cardinality(S \ T) = Cardinality(S) - Cardinality(S \cap T)
    <2>1. IsFiniteSet(S) /\ IsFiniteSet(T)
      BY CoinFacts
    <2>2. QED
      BY <2>1, FS_Difference
  <1>5. SumOf(value, S) = SumOf(value, S \cap T) + SumOf(value, S \ T)
    BY <1>2, <1>3, Zenon
  <1>6. \A n, k \in Nat : \A m : m = n - k => n = k + m
    OBVIOUS
  <1>7. Cardinality(S) \in Nat /\ Cardinality(S \cap T) \in Nat
    BY <1>1, CoinFacts
  <1>8. QED
    BY <1>4, <1>5, <1>6, <1>7, Zenon

(* No other choice of as many coins is worth more than the largest.        *)
LEMMA LargestAreWorthMost ==
  ASSUME TypeOK, NEW S \in SUBSET Coins, left \cup selected = Coins,
         \A c \in selected, d \in left : value[c] >= value[d],
         Cardinality(S) <= Count
  PROVE  SumOf(value, S) <= SumOf(value, selected)
  <1> DEFINE A == S \ selected
             B == selected \ S
             I == S \cap selected
  <1>1. selected \in SUBSET Coins
    BY DEF TypeOK
  <1>2. A \in SUBSET Coins /\ B \in SUBSET Coins /\ I \in SUBSET Coins /\ selected \cap S = I
    BY <1>1
  <1>3. /\ SumOf(value, S) = SumOf(value, I) + SumOf(value, A)
        /\ Cardinality(S) = Cardinality(I) + Cardinality(A)
    BY <1>1, SplitSum
  <1>4. /\ SumOf(value, selected) = SumOf(value, I) + SumOf(value, B)
        /\ Cardinality(selected) = Cardinality(I) + Cardinality(B)
    <2>1. /\ SumOf(value, selected) = SumOf(value, selected \cap S) + SumOf(value, B)
          /\ Cardinality(selected) = Cardinality(selected \cap S) + Cardinality(B)
      BY <1>1, SplitSum
    <2> HIDE DEF I, B
    <2>2. QED
      BY <1>2, <2>1, Zenon
  <1>5. \A a \in A, b \in B : value[a] <= value[b]
    <2>1. \A a \in A, b \in B : a \in left /\ b \in selected
      BY <1>2
    <2>2. \A c \in Coins : value[c] \in Nat
      BY Numbers DEF TypeOK
    <2>3. QED
      BY <1>2, <2>1, <2>2
  <1>6. \A T \in {A, B, I} : /\ IsFiniteSet(T) /\ NatValued(value, T)
                             /\ Cardinality(T) \in Nat /\ SumOf(value, T) \in Nat
    BY <1>2, CoinFacts
  <1> HIDE DEF A, B, I
  <1>7. Cardinality(A) <= Cardinality(B)
    BY <1>3, <1>4, <1>6 DEF Count
  <1>8. SumOf(value, A) <= SumOf(value, B)
    BY <1>5, <1>6, <1>7, SumLarger
  <1>9. QED
    BY <1>3, <1>4, <1>6, <1>8

(* So what the loop has chosen without covering the amount is not bettered *)
(* by any other choice of as many or fewer coins.                          *)
LEMMA NoneAsFewPays ==
  ASSUME TypeOK, GreedyInv, request.kind = "buildSend", outcome # "asked", ~Covered,
         NEW S \in SUBSET Coins, Cardinality(S) <= Count
  PROVE  ~Pays(S)
  <1>1. Cardinality(S) \in Nat /\ SumOf(value, S) \in Nat
    BY CoinFacts
  <1>2. SendFacts /\ total \in Nat
    BY SendRequest DEF TypeOK
  <1>3. CASE Cardinality(S) < Count
    BY <1>3 DEF GreedyInv
  <1>4. CASE Cardinality(S) = Count
    <2>1. left \cup selected = Coins
      BY DEF GreedyInv, Offered
    <2>2. SumOf(value, S) <= total
      BY <1>1, <1>2, <1>4, <2>1, LargestAreWorthMost DEF GreedyInv, SendFacts
    <2>3. ~(total >= request.amount + Fee)
      BY DEF Covered, Fee
    <2>4. request.amount \in Nat /\ Fee \in Nat
      BY <1>2 DEF SendFacts
    <2>5. ~(SumOf(value, S) >= request.amount + Fee)
      BY <1>1, <1>2, <2>2, <2>3, <2>4
    <2>6. QED
      BY <1>4, <2>5 DEF Pays, Fee
  <1>5. QED
    BY <1>1, <1>2, <1>3, <1>4 DEF SendFacts

(* What a step that leaves wallet and request alone does not change. *)
LEMMA PaysSame ==
  ASSUME UNCHANGED <<value, request>>
  PROVE  /\ \A S : Pays(S)' <=> Pays(S)
         /\ \A c : Offered(c)' <=> Offered(c)
         /\ \A n : FeeFor(n)' = FeeFor(n)
         /\ \A n : estSize(n, OutBytes)' = estSize(n, OutBytes)
  <1>1. \A n : FeeFor(n)' = FeeFor(n)
    BY DEF FeeFor, OutBytes, PerInput, TransparentOutputs
  <1>2. QED
    BY <1>1 DEF Pays, Offered, OutBytes

LEMMA GreedyInit == Init => GreedyInv
  <1> SUFFICES ASSUME Init PROVE GreedyInv
    OBVIOUS
  <1>1. /\ selected = {} /\ left = {} /\ total = 0 /\ outcome = "asked"
        /\ TypeOK
    BY TypeInit DEF Init
  <1>2. total = SumOf(value, selected)
    BY <1>1, SumEmpty
  <1>3. Count = 0
    BY <1>1, FS_EmptySet DEF Count
  <1>4. \A S \in SUBSET Coins : ~(Cardinality(S) < Count)
    BY <1>1, <1>3, CoinFacts
  <1>5. QED
    BY <1>1, <1>2, <1>4 DEF GreedyInv, Short

LEMMA GreedyTake ==
  ASSUME TypeOK, GreedyInv, NEW c \in Coins, Take(c)
  PROVE  GreedyInv'
  <1>1. /\ outcome = "choosing" /\ ~Covered /\ c \in left /\ Foremost(c)
        /\ left' = left \ {c} /\ selected' = selected \cup {c}
        /\ total' = total + value[c]
        /\ UNCHANGED <<value, request>>
        /\ outcome' \in {"choosing", "too_large"}
    BY DEF Take
  <1>2. selected \in SUBSET Coins /\ c \notin selected /\ left \subseteq Coins
    BY <1>1 DEF GreedyInv, TypeOK
  <1>3. Count \in Nat /\ Count' = Count + 1
    <2>1. IsFiniteSet(selected)
      BY <1>2, CoinFacts
    <2>2. QED
      BY <1>1, <1>2, <2>1, CoinFacts, FS_AddElement DEF Count
  <1>4. total' = SumOf(value', selected')
    <2>1. value[c] \in Nat /\ SumOf(value, selected) \in Nat
      BY <1>2, CoinFacts, Numbers DEF TypeOK
    <2>2. SumOf(value, selected \cup {c}) = value[c] + SumOf(value, selected)
      BY <1>2, <2>1, CoinFacts, SumAdd
    <2>3. QED
      BY <1>1, <2>1, <2>2 DEF GreedyInv
  <1>5. left' \cup selected' = {d \in Coins : Offered(d)'}
    <2>1. left' \cup selected' = left \cup selected
      BY <1>1
    <2>2. left \cup selected = {d \in Coins : Offered(d)}
      BY <1>1 DEF GreedyInv
    <2>3. {d \in Coins : Offered(d)'} = {d \in Coins : Offered(d)}
      BY <1>1 DEF Offered
    <2>4. QED
      BY <2>1, <2>2, <2>3
  <1>6. ASSUME request.kind = "buildSend"
        PROVE  /\ \A a \in selected', d \in left' : value'[a] >= value'[d]
               /\ \A S \in SUBSET Coins : Cardinality(S) < Count' => ~Pays(S)'
    <2>1. \A d \in left : value[c] >= value[d]
      BY <1>1, <1>6 DEF Foremost
    <2>2. \A a \in selected, d \in left : value[a] >= value[d]
      BY <1>6 DEF GreedyInv
    <2>3. ASSUME NEW S \in SUBSET Coins, Cardinality(S) < Count' PROVE ~Pays(S)'
      <3>1. Cardinality(S) <= Count
        BY <1>3, <2>3, CoinFacts
      <3>2. ~Pays(S)
        BY <1>1, <1>6, <3>1, NoneAsFewPays
      <3>3. QED
        BY <1>1, <3>2, PaysSame
    <2>4. QED
      BY <1>1, <2>1, <2>2, <2>3
  <1>7. request.kind = "buildSend" /\ outcome' = "too_large" =>
          estSize(Count', OutBytes') >= MAX_STANDARD_TX_SIZE
    BY <1>1 DEF Take, Count, OutBytes
  <1>8. left' \cap selected' = {}
    BY <1>1 DEF GreedyInv
  <1>9. QED
    BY <1>1, <1>4, <1>5, <1>6, <1>7, <1>8 DEF GreedyInv, estSize, Short

(* The steps that end the loop choose no more. *)
LEMMA GreedyEnds ==
  ASSUME GreedyInv, UNCHANGED <<value, request, left, selected, total>>,
         outcome # "asked", outcome' \notin {"asked", "too_large"},
         Short(outcome') => left = {} /\ ~Covered,
         outcome' = "sufficient" => Covered
  PROVE  GreedyInv'
  <1>1. Count' = Count
    BY DEF Count
  <1>2. Covered' <=> Covered
    BY <1>1, PaysSame DEF Covered
  <1>3. {c \in Coins : Offered(c)'} = {c \in Coins : Offered(c)}
    BY DEF Offered
  <1>4. \A S : Pays(S)' <=> Pays(S)
    BY PaysSame
  <1>5. QED
    BY <1>1, <1>2, <1>3, <1>4 DEF GreedyInv

LEMMA GreedyNext == TypeOK /\ GreedyInv /\ [Next]_vars => GreedyInv'
  <1> SUFFICES ASSUME TypeOK, GreedyInv, [Next]_vars PROVE GreedyInv'
    OBVIOUS
  <1>1. CASE Check
    <2>1. /\ outcome = "asked" /\ outcome' \in {"choosing", "refused"}
          /\ left' = {c \in Coins : Offered(c)}
          /\ UNCHANGED <<value, request, selected, total>>
      BY <1>1 DEF Check
    <2>2. selected = {}
      BY <2>1 DEF GreedyInv
    <2>3. Count' = Count
      BY <2>1 DEF Count
    <2>4. {c \in Coins : Offered(c)'} = {c \in Coins : Offered(c)}
      BY <2>1 DEF Offered
    <2>5. \A S : Pays(S)' <=> Pays(S)
      BY <2>1, PaysSame
    <2>6. QED
      BY <2>1, <2>2, <2>3, <2>4, <2>5 DEF GreedyInv, Short
  <1>2. ASSUME NEW c \in Coins, Take(c) PROVE GreedyInv'
    BY <1>2, GreedyTake
  <1>3. CASE RunOut
    <2>1. /\ outcome = "choosing" /\ ~Covered /\ left = {}
          /\ outcome' \in {"overflow", "insufficient", "fee_from_amount"}
          /\ UNCHANGED <<value, request, left, selected, total>>
      BY <1>3 DEF RunOut
    <2>2. QED
      BY <2>1, GreedyEnds
  <1>4. CASE Estimate
    <2>1. /\ outcome = "choosing" /\ Covered /\ outcome' = "sufficient"
          /\ UNCHANGED <<value, request, left, selected, total>>
      BY <1>4 DEF Estimate
    <2>2. QED
      BY <2>1, GreedyEnds DEF Short
  <1>5. ASSUME NEW der \in Signatures, Build(der) PROVE GreedyInv'
    <2>1. /\ outcome = "choosing"
          /\ outcome' \in {"overflow", "rebuilt_too_large", "built"}
          /\ UNCHANGED <<value, request, left, selected, total>>
      BY <1>5 DEF Build
    <2>2. QED
      BY <2>1, GreedyEnds DEF Short
  <1>6. CASE UNCHANGED vars
    <2>1. UNCHANGED <<value, request, left, selected, total, outcome>>
      BY <1>6 DEF vars
    <2>2. Count' = Count
      BY <2>1 DEF Count
    <2>3. Covered' <=> Covered
      BY <2>1, <2>2, PaysSame DEF Covered
    <2>4. {c \in Coins : Offered(c)'} = {c \in Coins : Offered(c)}
      BY <2>1 DEF Offered
    <2>5. /\ \A S : Pays(S)' <=> Pays(S)
          /\ estSize(Count', OutBytes') = estSize(Count, OutBytes)
      BY <2>1, <2>2, PaysSame DEF OutBytes
    <2>6. QED
      BY <2>1, <2>2, <2>3, <2>4, <2>5 DEF GreedyInv
  <1>7. QED
    BY <1>1, <1>2, <1>3, <1>4, <1>5, <1>6 DEF Next

LEMMA GreedyHolds == Spec => [](TypeOK /\ GreedyInv)
  BY TypeInit, TypeNext, GreedyInit, GreedyNext, PTL DEF Spec

(* More inputs, a larger transaction. *)
LEMMA SizeMonotone ==
  ASSUME NEW m \in Nat, NEW n \in Nat, m <= n, NEW out \in Nat
  PROVE  estSize(m, out) <= estSize(n, out) /\ estSize(m, out) \in Nat /\ estSize(n, out) \in Nat
  BY Numbers DEF estSize

(* buildSend uses as few coins as any choice that pays, and gives up only  *)
(* when every choice that pays is too large to be relayed, although it     *)
(* looks at the size before it asks whether the coin just taken completes  *)
(* the amount (transparent-wallet.ts 511-541).                             *)
THEOREM LargestFirstWins == Spec => []LargestFirstIsBest
  <1>1. TypeOK /\ GreedyInv => LargestFirstIsBest
    <2> SUFFICES ASSUME TypeOK, GreedyInv, request.kind = "buildSend",
                        NEW S \in SUBSET Coins,
                        Sum(S) >= request.amount + FeeFor(Cardinality(S))
                 PROVE  /\ outcome = "built" => Cardinality(S) >= Count
                        /\ outcome \in {"insufficient", "too_large"} =>
                             estSize(Cardinality(S), OutBytes) >= MAX_STANDARD_TX_SIZE
      BY DEF LargestFirstIsBest
    <2>1. Pays(S)
      BY SumIsSum DEF Pays
    <2>2. Cardinality(S) \in Nat /\ Count \in Nat
      BY CoinFacts, CountIsNat
    <2>3. Cardinality(S) >= Count
      BY <2>1, <2>2 DEF GreedyInv
    <2>4. ASSUME outcome = "insufficient" PROVE FALSE
      <3>1. left = {} /\ ~Covered /\ left \cup selected = Coins
        BY <2>4 DEF GreedyInv, Offered, Short
      <3>2. S \in SUBSET selected /\ IsFiniteSet(selected)
        BY <3>1, CoinFacts DEF TypeOK
      <3>3. Cardinality(S) <= Count
        BY <3>2, FS_Subset DEF Count
      <3>4. QED
        BY <2>1, <2>4, <3>1, <3>3, NoneAsFewPays
    <2>5. ASSUME outcome = "too_large"
          PROVE  estSize(Cardinality(S), OutBytes) >= MAX_STANDARD_TX_SIZE
      <3>1. OutBytes \in Nat
        BY SendRequest DEF SendFacts, OutBytes, outputSize, Scripts
      <3>2. estSize(Count, OutBytes) >= MAX_STANDARD_TX_SIZE
        BY <2>5 DEF GreedyInv
      <3>3. /\ estSize(Count, OutBytes) <= estSize(Cardinality(S), OutBytes)
            /\ estSize(Count, OutBytes) \in Nat /\ estSize(Cardinality(S), OutBytes) \in Nat
        BY <2>2, <2>3, <3>1, SizeMonotone
      <3> HIDE DEF Count
      <3>4. QED
        BY <3>2, <3>3, Numbers
    <2>6. QED
      BY <2>3, <2>4, <2>5
  <1>2. QED
    BY <1>1, GreedyHolds, PTL

(* Above the dust limit every note helps, at or below it none does: all of *)
(* the notes above it pay for more than any other choice.                  *)
LEMMA AllAboveDustPayMost ==
  ASSUME TypeOK, NEW S \in SUBSET Coins,
         NEW Big, Big = {c \in Coins : value[c] > DUST_NOTE_SATS}
  PROVE  SumOf(value, S) + DUST_NOTE_SATS * Cardinality(Big)
           <= SumOf(value, Big) + DUST_NOTE_SATS * Cardinality(S)
  <1> DEFINE A == S \ Big
             B == Big \ S
             I == S \cap Big
             d == DUST_NOTE_SATS
  <1>1. Big \in SUBSET Coins
    OBVIOUS
  <1>2. A \in SUBSET Coins /\ B \in SUBSET Coins /\ I \in SUBSET Coins /\ Big \cap S = I
    BY <1>1
  <1>3. /\ SumOf(value, S) = SumOf(value, I) + SumOf(value, A)
        /\ Cardinality(S) = Cardinality(I) + Cardinality(A)
    BY <1>1, SplitSum
  <1>4. /\ SumOf(value, Big) = SumOf(value, I) + SumOf(value, B)
        /\ Cardinality(Big) = Cardinality(I) + Cardinality(B)
    <2>1. /\ SumOf(value, Big) = SumOf(value, Big \cap S) + SumOf(value, B)
          /\ Cardinality(Big) = Cardinality(Big \cap S) + Cardinality(B)
      BY <1>1, SplitSum
    <2> HIDE DEF I, B
    <2>2. QED
      BY <1>2, <2>1, Zenon
  <1>5. \A T \in {A, B, I} : /\ IsFiniteSet(T) /\ NatValued(value, T)
                             /\ Cardinality(T) \in Nat /\ SumOf(value, T) \in Nat
    BY <1>2, CoinFacts
  <1>6. d \in Nat /\ (\A c \in A : value[c] <= d) /\ (\A c \in B : d <= value[c])
    <2>1. d \in Nat /\ \A c \in Coins : value[c] \in Nat
      BY Numbers DEF TypeOK
    <2>2. \A c \in A : c \in Coins /\ ~(value[c] > d)
      OBVIOUS
    <2>3. \A c \in B : c \in Coins /\ value[c] > d
      OBVIOUS
    <2> HIDE DEF A, B, d
    <2>4. QED
      BY <2>1, <2>2, <2>3
  <1> HIDE DEF A, B, I, d
  <1>7. SumOf(value, A) <= d * Cardinality(A) /\ d * Cardinality(B) <= SumOf(value, B)
    BY <1>5, <1>6, SumBounds
  <1>8. /\ d * Cardinality(S) = d * Cardinality(I) + d * Cardinality(A)
        /\ d * Cardinality(Big) = d * Cardinality(I) + d * Cardinality(B)
        /\ \A T \in {A, B, I} : d * Cardinality(T) \in Nat
    BY <1>3, <1>4, <1>5, <1>6, TimesSum
  <1>9. SumOf(value, S) + d * Cardinality(Big) <= SumOf(value, Big) + d * Cardinality(S)
    BY <1>3, <1>4, <1>5, <1>7, <1>8
  <1>10. QED
    BY <1>9 DEF d

(* With the dust limit of the code, the fee of one more input (wallet.ts   *)
(* 44-46), createTransaction refuses a send from notes, or has its fee     *)
(* taken from the amount, exactly when no choice of notes, dust included,  *)
(* would pay both, although its loop tries only the smallest first         *)
(* (wallet.ts 48-82, 823-846).                                             *)
THEOREM NoPayableSendRefused ==
  DUST_NOTE_SATS = 1000 * 384 => (Spec => []RefusesOnlyTheUnpayable)
  <1> SUFFICES ASSUME DUST_NOTE_SATS = 1000 * 384 PROVE Spec => []RefusesOnlyTheUnpayable
    OBVIOUS
  <1>0. DUST_NOTE_SATS = 1000 * 384
    OBVIOUS
  <1>1. TypeOK /\ GreedyInv => RefusesOnlyTheUnpayable
    <2> SUFFICES ASSUME TypeOK, GreedyInv, request.kind = "notes"
                 PROVE  /\ Short(outcome) => ~Payable(Coins)
                        /\ outcome = "sufficient" => Payable(Coins)
      BY DEF RefusesOnlyTheUnpayable, Short
    <2>1. selected \in SUBSET Coins /\ total = SumOf(value, selected) /\ total \in Nat
      BY DEF TypeOK, GreedyInv
    <2>2. ASSUME outcome = "sufficient" PROVE Payable(Coins)
      <3>1. Sum(selected) >= request.amount + FeeFor(Cardinality(selected))
        BY <2>1, <2>2, SumIsSum DEF GreedyInv, Covered, Count
      <3>2. QED
        BY <2>1, <3>1 DEF Payable
    <2>3. ASSUME Short(outcome), NEW S \in SUBSET Coins,
                 Sum(S) >= request.amount + FeeFor(Cardinality(S))
          PROVE  FALSE
      <3> DEFINE base == 1000 * (2 * 948 + TransparentOutputs * 34 + 85)
                 s == Cardinality(S)
                 n == Cardinality(selected)
                 d == DUST_NOTE_SATS
      <3>1. selected = {c \in Coins : value[c] > DUST_NOTE_SATS}
        BY <2>3 DEF GreedyInv, Offered, Short
      <3>2. SumOf(value, S) + d * n <= total + d * s
        BY <2>1, <3>1, AllAboveDustPayMost
      <3>3. /\ s \in Nat /\ n \in Nat /\ SumOf(value, S) \in Nat
        BY <2>1, CoinFacts
      <3>4. base \in Nat
        BY DEF TransparentOutputs
      <3>5. request.amount \in Nat
        BY Numbers DEF TypeOK, Request
      <3>6. \A k \in Nat : FeeFor(k) = base + d * k
        <4> SUFFICES ASSUME NEW k \in Nat PROVE FeeFor(k) = base + d * k
          OBVIOUS
        <4>1. d * k = 1000 * (k * 384)
          BY <1>0, SMT
        <4>2. FeeFor(k) = 1000 * (2 * 948 + k * 384 + TransparentOutputs * 34 + 85)
          BY DEF FeeFor, PerInput
        <4>3. TransparentOutputs \in Nat
          BY DEF TransparentOutputs
        <4> HIDE DEF TransparentOutputs, d
        <4>4. QED
          BY <4>1, <4>2, <4>3, SMT
      <3>7. ~(total >= request.amount + FeeFor(n))
        BY <2>3 DEF GreedyInv, Covered, Count
      <3>8. SumOf(value, S) >= request.amount + FeeFor(s)
        BY <2>3, SumIsSum
      <3>9. FeeFor(n) = base + d * n /\ FeeFor(s) = base + d * s
        BY <3>3, <3>6
      <3> HIDE DEF base, s, n, d
      <3>10. d * s \in Nat /\ d * n \in Nat
        BY <1>0, <3>3, TimesSum DEF d
      <3>11. QED
        BY <2>1, <3>2, <3>3, <3>4, <3>5, <3>7, <3>8, <3>9, <3>10, SMT
    <2>4. QED
      BY <2>2, <2>3 DEF Payable
  <1>2. QED
    BY <1>1, GreedyHolds, PTL

=============================================================================
