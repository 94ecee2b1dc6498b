---------------------------- MODULE NumberLemmas ----------------------------
(* Induction over numbers and finite sets, least and greatest elements,    *)
(* and sums over finite sets: what the proofs about recursive definitions, *)
(* choices and folds need.                                                 *)
EXTENDS Integers, FiniteSetsExt, FiniteSetTheorems, WellFoundedInduction, TLAPS

Below == {ss \in Nat \X Nat : ss[1] < ss[2]}

(* A non-empty set of natural numbers has a least element.                 *)
LEMMA LeastElement ==
  ASSUME NEW S, S \subseteq Nat, S # {}
  PROVE  \E n \in S : \A m \in S : n <= m
  <1>1. IsWellFoundedOn(Below, Nat)
    BY NatLessThanWellFounded DEF OpToRel, Below
  <1>2. PICK x \in S : \A y \in S : ~ (<<y, x>> \in Below)
    BY <1>1, WFMin
  <1>3. ASSUME NEW y \in S PROVE x <= y
    <2>1. <<y, x>> \in Nat \X Nat /\ ~(<<y, x>> \in Below)
      BY <1>2
    <2>2. ~(y < x)
      BY <2>1 DEF Below
    <2>3. QED
      BY <2>2
  <1>4. QED
    BY <1>3

(* A set that holds 0 and, with each number, its successor holds them all. *)
LEMMA SetInduction ==
  ASSUME NEW S, 0 \in S, \A n \in Nat : n \in S => n + 1 \in S
  PROVE  Nat \subseteq S
  <1> SUFFICES ASSUME Nat \ S # {} PROVE FALSE
    OBVIOUS
  <1>1. PICK n \in Nat \ S : \A m \in Nat \ S : n <= m
    BY LeastElement
  <1>2. n # 0 /\ n - 1 \in Nat /\ n - 1 \in S
    BY <1>1
  <1>3. n - 1 + 1 \in S
    BY <1>2
  <1>4. QED
    BY <1>1, <1>2, <1>3

(* The same for the numbers of an interval.                                *)
LEMMA IntervalInduction ==
  ASSUME NEW lo \in Int, NEW hi \in Int, lo <= hi, NEW S,
         lo \in S, \A h \in (lo + 1)..hi : h - 1 \in S => h \in S
  PROVE  lo..hi \subseteq S
  <1> DEFINE T == {n \in Nat : lo + n <= hi => lo + n \in S}
  <1>1. 0 \in T
    OBVIOUS
  <1>2. ASSUME NEW n \in Nat, n \in T PROVE n + 1 \in T
    <2> SUFFICES ASSUME lo + (n + 1) <= hi PROVE lo + (n + 1) \in S
      OBVIOUS
    <2>1. lo + (n + 1) \in (lo + 1)..hi /\ (lo + (n + 1)) - 1 = lo + n /\ lo + n \in S
      BY <1>2
    <2>2. QED
      BY <2>1
  <1> HIDE DEF T
  <1>3. Nat \subseteq T
    BY <1>1, <1>2, SetInduction
  <1>4. ASSUME NEW h \in lo..hi PROVE h \in S
    <2>1. h - lo \in T /\ lo + (h - lo) = h /\ h <= hi
      BY <1>3
    <2>2. QED
      BY <2>1 DEF T
  <1>5. QED
    BY <1>4

(* A non-empty set of natural numbers below a bound has a greatest element. *)
LEMMA GreatestElement ==
  ASSUME NEW S, S \subseteq Nat, S # {}, NEW m \in Nat, \A n \in S : n <= m
  PROVE  \E n \in S : \A k \in S : k <= n
  <1> DEFINE D == {m - n : n \in S}
  <1>1. D \subseteq Nat /\ D # {}
    <2>1. \A n \in S : n \in Nat /\ n <= m
      OBVIOUS
    <2>2. \A n \in S : m - n \in Nat
      BY <2>1
    <2>3. QED
      BY <2>2
  <1>2. PICK d \in D : \A e \in D : d <= e
    BY <1>1, LeastElement
  <1>3. PICK n \in S : d = m - n
    OBVIOUS
  <1>4. \A k \in S : m - n <= m - k
    BY <1>2, <1>3
  <1>5. \A k \in S : k <= n
    BY <1>4
  <1>6. QED
    BY <1>5

(* Subsets of a finite set, one element after another.                     *)
LEMMA SubsetInduction ==
  ASSUME NEW S, IsFiniteSet(S), NEW P, {} \in P,
         \A T \in SUBSET S : T # {} /\ (\A x \in T : T \ {x} \in P) => T \in P
  PROVE  SUBSET S \subseteq P
  <1> DEFINE N == {n \in Nat : \A T \in SUBSET S : Cardinality(T) = n => T \in P}
  <1>1. \A T \in SUBSET S : IsFiniteSet(T) /\ Cardinality(T) \in Nat
    BY FS_Subset, FS_CardinalityType
  <1>2. 0 \in N
    BY <1>1, FS_EmptySet
  <1>3. ASSUME NEW n \in Nat, n \in N PROVE n + 1 \in N
    <2> SUFFICES ASSUME NEW T \in SUBSET S, Cardinality(T) = n + 1 PROVE T \in P
      OBVIOUS
    <2>1. T # {}
      BY <1>1, FS_EmptySet
    <2>2. ASSUME NEW x \in T PROVE T \ {x} \in P
      <3>1. Cardinality(T \ {x}) = Cardinality(T) - 1 /\ T \ {x} \in SUBSET S
        BY <1>1, FS_RemoveElement
      <3>2. QED
        BY <1>3, <3>1
    <2>3. QED
      BY <2>1, <2>2
  <1> HIDE DEF N
  <1>4. Nat \subseteq N
    BY <1>2, <1>3, SetInduction
  <1>5. QED
    BY <1>1, <1>4 DEF N

-----------------------------------------------------------------------------
(* Sums over finite sets.  MapThenSumSet takes the elements as CHOOSE      *)
(* gives them; the lemmas show that the order does not matter, and compare *)
(* the sums of two sets.                                                   *)

SumOf(f, S) == MapThenSumSet(LAMBDA x : f[x], S)

Pick(s) == CHOOSE x \in s : TRUE

Sums(f, S, g) ==
  g = [s \in SUBSET S |-> IF s = {} THEN 0 ELSE f[Pick(s)] + g[s \ {Pick(s)}]]

LEMMA SumUnfold ==
  ASSUME NEW f, NEW S PROVE SumOf(f, S) = (CHOOSE g : Sums(f, S, g))[S]
  <1> DEFINE h[s \in SUBSET S] == IF s = {} THEN 0 ELSE f[Pick(s)] + h[s \ {Pick(s)}]
  <1>1. SumOf(f, S) = h[S]
    BY DEF SumOf, MapThenSumSet, MapThenFoldSet, Pick
  <1>2. h = CHOOSE g : Sums(f, S, g)
    BY DEF Sums
  <1>3. QED
    BY <1>1, <1>2

LEMMA PickIn == ASSUME NEW s, s # {} PROVE Pick(s) \in s
  BY DEF Pick

(* The equation of a sum over S has a solution, on the subsets of at most  *)
(* 0, 1, 2, ... elements.                                                  *)
LEMMA SumExists ==
  ASSUME NEW f, NEW S, IsFiniteSet(S)
  PROVE  \E g : Sums(f, S, g)
  <1> DEFINE Small(n) == {s \in SUBSET S : Cardinality(s) <= n}
             Turn(g, s) == IF s = {} THEN 0 ELSE f[Pick(s)] + g[s \ {Pick(s)}]
             Solvable(n) == \E g : g = [s \in Small(n) |-> Turn(g, s)]
             N == {n \in Nat : Solvable(n)}
  <1>1. \A s \in SUBSET S : IsFiniteSet(s) /\ Cardinality(s) \in Nat
    BY FS_Subset, FS_CardinalityType
  <1>2. \A n \in Nat, s \in SUBSET S :
          s # {} /\ Cardinality(s) <= n + 1 => s \ {Pick(s)} \in Small(n)
    <2> SUFFICES ASSUME NEW n \in Nat, NEW s \in SUBSET S, s # {}, Cardinality(s) <= n + 1
                 PROVE  s \ {Pick(s)} \in Small(n)
      OBVIOUS
    <2>1. Cardinality(s \ {Pick(s)}) = Cardinality(s) - 1
      BY <1>1, PickIn, FS_RemoveElement
    <2>2. QED
      BY <1>1, <2>1
  <1>3. 0 \in N
    <2> DEFINE g == [s \in Small(0) |-> 0]
    <2>1. \A s \in Small(0) : s = {}
      BY <1>1, FS_EmptySet
    <2>2. g = [s \in Small(0) |-> Turn(g, s)]
      BY <2>1
    <2>3. QED
      BY <2>2
  <1>4. ASSUME NEW n \in Nat, n \in N PROVE n + 1 \in N
    <2>1. PICK g : g = [s \in Small(n) |-> Turn(g, s)]
      BY <1>4
    <2> DEFINE h == [s \in Small(n + 1) |-> Turn(g, s)]
    <2>2. \A s \in Small(n) : s \in Small(n + 1) /\ h[s] = g[s]
      <3> SUFFICES ASSUME NEW s \in Small(n) PROVE s \in Small(n + 1) /\ h[s] = g[s]
        OBVIOUS
      <3>1. s \in Small(n + 1)
        BY <1>1
      <3>2. h[s] = Turn(g, s)
        BY <3>1
      <3>3. g[s] = Turn(g, s)
        BY <2>1
      <3>4. QED
        BY <3>1, <3>2, <3>3
    <2>3. \A s \in Small(n + 1) : Turn(g, s) = Turn(h, s)
      <3> SUFFICES ASSUME NEW s \in Small(n + 1), s # {}
                   PROVE  g[s \ {Pick(s)}] = h[s \ {Pick(s)}]
        OBVIOUS
      <3>1. s \ {Pick(s)} \in Small(n)
        BY <1>2
      <3>2. QED
        BY <2>2, <3>1
    <2>4. h = [s \in Small(n + 1) |-> Turn(h, s)]
      <3>1. h = [s \in Small(n + 1) |-> Turn(g, s)]
        OBVIOUS
      <3> HIDE DEF Turn, Small, h
      <3>2. QED
        BY <2>3, <3>1, Zenon
    <2>5. Solvable(n + 1)
      <3> HIDE DEF h
      <3>1. QED
        BY <2>4, Zenon
    <2> HIDE DEF Solvable
    <2>6. QED
      BY <2>5
  <1>5. Nat \subseteq N
    <2> HIDE DEF N
    <2>1. QED
      BY <1>3, <1>4, SetInduction
  <1>6. Cardinality(S) \in N
    BY <1>1, <1>5
  <1>7. Small(Cardinality(S)) = SUBSET S
    BY <1>1, FS_Subset
  <1>8. PICK g : g = [s \in Small(Cardinality(S)) |-> Turn(g, s)]
    BY <1>6
  <1>9. g = [s \in SUBSET S |-> Turn(g, s)]
    BY <1>7, <1>8, Zenon
  <1>10. QED
    BY <1>9 DEF Sums

LEMMA SumSolves ==
  ASSUME NEW f, NEW S, IsFiniteSet(S)
  PROVE  \E g : Sums(f, S, g) /\ SumOf(f, S) = g[S]
  BY SumExists, SumUnfold

LEMMA SumsAt ==
  ASSUME NEW f, NEW S, NEW g, Sums(f, S, g), NEW s \in SUBSET S
  PROVE  g[s] = IF s = {} THEN 0 ELSE f[Pick(s)] + g[s \ {Pick(s)}]
  <1> DEFINE Turn(t) == IF t = {} THEN 0 ELSE f[Pick(t)] + g[t \ {Pick(t)}]
  <1>1. g = [t \in SUBSET S |-> Turn(t)]
    BY DEF Sums
  <1> HIDE DEF Turn
  <1>2. g[s] = Turn(s)
    BY <1>1
  <1>3. QED
    BY <1>2 DEF Turn

(* Two solutions agree where both are defined.                             *)
LEMMA SumUnique ==
  ASSUME NEW f, NEW S, IsFiniteSet(S), NEW T \in SUBSET S,
         NEW g, Sums(f, S, g), NEW h, Sums(f, T, h)
  PROVE  g[T] = h[T]
  <1> DEFINE P == {s \in SUBSET T : g[s] = h[s]}
  <1>1. {} \in P
    <2>1. g[{}] = 0 /\ h[{}] = 0
      BY SumsAt
    <2>2. QED
      BY <2>1
  <1>2. ASSUME NEW s \in SUBSET T, s # {}, \A x \in s : s \ {x} \in P PROVE s \in P
    <2>1. s \ {Pick(s)} \in P
      BY <1>2, PickIn
    <2>2. g[s] = f[Pick(s)] + g[s \ {Pick(s)}] /\ h[s] = f[Pick(s)] + h[s \ {Pick(s)}]
      BY <1>2, SumsAt
    <2>3. QED
      BY <2>1, <2>2
  <1>3. IsFiniteSet(T)
    BY FS_Subset
  <1> HIDE DEF P
  <1>4. SUBSET T \subseteq P
    BY <1>1, <1>2, <1>3, SubsetInduction
  <1>5. QED
    BY <1>4 DEF P

LEMMA SumEmpty == ASSUME NEW f PROVE SumOf(f, {}) = 0
  <1>1. PICK g : Sums(f, {}, g) /\ SumOf(f, {}) = g[{}]
    BY FS_EmptySet, SumSolves
  <1>2. QED
    BY <1>1, SumsAt

LEMMA SumPick ==
  ASSUME NEW f, NEW S, IsFiniteSet(S), S # {}
  PROVE  SumOf(f, S) = f[Pick(S)] + SumOf(f, S \ {Pick(S)})
  <1> DEFINE T == S \ {Pick(S)}
  <1>1. PICK g : Sums(f, S, g) /\ SumOf(f, S) = g[S]
    BY SumSolves
  <1>2. IsFiniteSet(T) /\ T \in SUBSET S
    BY FS_Subset
  <1>3. PICK h : Sums(f, T, h) /\ SumOf(f, T) = h[T]
    BY <1>2, SumSolves
  <1>4. g[T] = h[T]
    BY <1>1, <1>2, <1>3, SumUnique
  <1>5. g[S] = f[Pick(S)] + g[T]
    BY <1>1, SumsAt
  <1>6. QED
    BY <1>1, <1>3, <1>4, <1>5

NatValued(f, S) == \A x \in S : f[x] \in Nat

LEMMA SumNat ==
  ASSUME NEW f, NEW S, IsFiniteSet(S), NatValued(f, S)
  PROVE  SumOf(f, S) \in Nat
  <1> DEFINE P == {s \in SUBSET S : SumOf(f, s) \in Nat}
  <1>1. {} \in P
    BY SumEmpty
  <1>2. ASSUME NEW s \in SUBSET S, s # {}, \A x \in s : s \ {x} \in P PROVE s \in P
    <2>1. Pick(s) \in s /\ s \ {Pick(s)} \in P
      BY <1>2, PickIn
    <2>2. IsFiniteSet(s)
      BY FS_Subset
    <2>3. SumOf(f, s) = f[Pick(s)] + SumOf(f, s \ {Pick(s)})
      BY <1>2, <2>2, SumPick
    <2>4. f[Pick(s)] \in Nat
      BY <2>1 DEF NatValued
    <2>5. QED
      BY <2>1, <2>3, <2>4
  <1> HIDE DEF P
  <1>3. SUBSET S \subseteq P
    BY <1>1, <1>2, SubsetInduction
  <1>4. QED
    BY <1>3 DEF P

(* Any element may be taken first.                                         *)
LEMMA SumRemove ==
  ASSUME NEW f, NEW S, IsFiniteSet(S), NatValued(f, S), NEW x \in S
  PROVE  SumOf(f, S) = f[x] + SumOf(f, S \ {x})
  <1> DEFINE P == {s \in SUBSET S : \A y \in s : SumOf(f, s) = f[y] + SumOf(f, s \ {y})}
  <1>1. {} \in P
    OBVIOUS
  <1>2. ASSUME NEW s \in SUBSET S, s # {}, \A y \in s : s \ {y} \in P PROVE s \in P
    <2> SUFFICES ASSUME NEW y \in s PROVE SumOf(f, s) = f[y] + SumOf(f, s \ {y})
      OBVIOUS
    <2> DEFINE p == Pick(s)
               r == (s \ {p}) \ {y}
    <2>1. p \in s /\ s \ {p} \in P /\ s \ {y} \in P
      BY <1>2, PickIn
    <2>2. IsFiniteSet(s) /\ IsFiniteSet(r)
      BY FS_Subset
    <2>3. SumOf(f, s) = f[p] + SumOf(f, s \ {p})
      BY <1>2, <2>2, SumPick
    <2>4. CASE y # p
      <3>1. SumOf(f, s \ {p}) = f[y] + SumOf(f, r)
        BY <2>1, <2>4
      <3>2. (s \ {y}) \ {p} = r
        OBVIOUS
      <3>3. SumOf(f, s \ {y}) = f[p] + SumOf(f, r)
        BY <2>1, <2>4, <3>2
      <3>4. SumOf(f, r) \in Nat /\ f[p] \in Nat /\ f[y] \in Nat
        BY <2>1, <2>2, SumNat DEF NatValued
      <3> HIDE DEF p, r
      <3>5. QED
        BY <2>3, <3>1, <3>3, <3>4
    <2>5. QED
      BY <2>3, <2>4
  <1> HIDE DEF P
  <1>3. SUBSET S \subseteq P
    BY <1>1, <1>2, SubsetInduction
  <1>4. QED
    BY <1>3 DEF P

LEMMA SumAdd ==
  ASSUME NEW f, NEW S, IsFiniteSet(S), NatValued(f, S), NEW x, x \notin S, f[x] \in Nat
  PROVE  SumOf(f, S \cup {x}) = f[x] + SumOf(f, S)
  <1>1. IsFiniteSet(S \cup {x}) /\ NatValued(f, S \cup {x})
    BY FS_AddElement DEF NatValued
  <1>2. (S \cup {x}) \ {x} = S
    OBVIOUS
  <1>3. SumOf(f, S \cup {x}) = f[x] + SumOf(f, (S \cup {x}) \ {x})
    BY <1>1, SumRemove
  <1>4. QED
    BY <1>2, <1>3

LEMMA SumUnion ==
  ASSUME NEW f, NEW A, NEW B, IsFiniteSet(A), IsFiniteSet(B), NatValued(f, A), NatValued(f, B),
         A \cap B = {}
  PROVE  SumOf(f, A \cup B) = SumOf(f, A) + SumOf(f, B)
  <1> DEFINE P == {s \in SUBSET B : SumOf(f, A \cup s) = SumOf(f, A) + SumOf(f, s)}
  <1>1. SumOf(f, A) \in Nat
    BY SumNat
  <1>2. {} \in P
    <2>1. A \cup {} = A
      OBVIOUS
    <2>2. QED
      BY <1>1, <2>1, SumEmpty
  <1>3. ASSUME NEW s \in SUBSET B, s # {}, \A x \in s : s \ {x} \in P PROVE s \in P
    <2>1. PICK x \in s : TRUE
      BY <1>3
    <2> DEFINE r == s \ {x}
    <2>2. IsFiniteSet(s) /\ IsFiniteSet(A \cup s) /\ IsFiniteSet(r)
      BY FS_Subset, FS_Union
    <2>3. NatValued(f, s) /\ NatValued(f, A \cup s) /\ NatValued(f, r)
      BY DEF NatValued
    <2>4. (A \cup s) \ {x} = A \cup r
      BY <2>1
    <2>5. SumOf(f, A \cup s) = f[x] + SumOf(f, A \cup r)
      BY <2>1, <2>2, <2>3, <2>4, SumRemove
    <2>6. SumOf(f, s) = f[x] + SumOf(f, r)
      BY <2>1, <2>2, <2>3, SumRemove
    <2>7. SumOf(f, A \cup r) = SumOf(f, A) + SumOf(f, r)
      BY <1>3, <2>1
    <2>8. f[x] \in Nat /\ SumOf(f, r) \in Nat
      BY <2>1, <2>2, <2>3, SumNat DEF NatValued
    <2> HIDE DEF r
    <2>9. QED
      BY <1>1, <2>5, <2>6, <2>7, <2>8
  <1> HIDE DEF P
  <1>4. SUBSET B \subseteq P
    BY <1>2, <1>3, SubsetInduction
  <1>5. QED
    BY <1>4 DEF P

(* As many elements, none worth more.                                      *)
LEMMA SumLarger ==
  ASSUME NEW f, NEW A, NEW B, IsFiniteSet(A), IsFiniteSet(B), NatValued(f, A), NatValued(f, B),
         Cardinality(A) <= Cardinality(B), \A a \in A, b \in B : f[a] <= f[b]
  PROVE  SumOf(f, A) <= SumOf(f, B)
  <1> DEFINE P == {s \in SUBSET A : \A t \in SUBSET B :
                     Cardinality(s) <= Cardinality(t) => SumOf(f, s) <= SumOf(f, t)}
  <1>1. \A s \in SUBSET A : IsFiniteSet(s) /\ NatValued(f, s) /\ Cardinality(s) \in Nat
    BY FS_Subset, FS_CardinalityType DEF NatValued
  <1>2. \A t \in SUBSET B :
          IsFiniteSet(t) /\ NatValued(f, t) /\ SumOf(f, t) \in Nat /\ Cardinality(t) \in Nat
    <2>1. \A t \in SUBSET B : IsFiniteSet(t) /\ NatValued(f, t) /\ Cardinality(t) \in Nat
      BY FS_Subset, FS_CardinalityType DEF NatValued
    <2>2. QED
      BY <2>1, SumNat
  <1>3. {} \in P
    BY <1>2, SumEmpty
  <1>4. ASSUME NEW s \in SUBSET A, s # {}, \A x \in s : s \ {x} \in P PROVE s \in P
    <2> SUFFICES ASSUME NEW t \in SUBSET B, Cardinality(s) <= Cardinality(t)
                 PROVE  SumOf(f, s) <= SumOf(f, t)
      OBVIOUS
    <2>1. PICK x \in s : TRUE
      BY <1>4
    <2>2. Cardinality(s) # 0
      BY <1>1, <1>4, FS_EmptySet
    <2>3. t # {}
      BY <1>1, <2>2, FS_EmptySet
    <2>4. PICK y \in t : TRUE
      BY <2>3
    <2>5. Cardinality(s \ {x}) <= Cardinality(t \ {y})
      <3>1. Cardinality(s \ {x}) = Cardinality(s) - 1 /\ Cardinality(t \ {y}) = Cardinality(t) - 1
        BY <1>1, <1>2, FS_RemoveElement
      <3>2. QED
        BY <1>1, <1>2, <3>1
    <2>6. SumOf(f, s \ {x}) <= SumOf(f, t \ {y})
      <3>1. s \ {x} \in P /\ t \ {y} \in SUBSET B
        BY <1>4
      <3>2. QED
        BY <2>5, <3>1
    <2>7. SumOf(f, s) = f[x] + SumOf(f, s \ {x}) /\ SumOf(f, t) = f[y] + SumOf(f, t \ {y})
      BY <1>1, <1>2, SumRemove
    <2>8. f[x] \in Nat /\ f[y] \in Nat /\ f[x] <= f[y]
      BY DEF NatValued
    <2>9. SumOf(f, s \ {x}) \in Nat /\ SumOf(f, t \ {y}) \in Nat
      <3>1. s \ {x} \in SUBSET A /\ t \ {y} \in SUBSET B
        OBVIOUS
      <3>2. IsFiniteSet(s \ {x}) /\ NatValued(f, s \ {x})
        BY <1>1, <3>1
      <3>3. QED
        BY <1>2, <3>1, <3>2, SumNat
    <2>10. QED
      BY <2>6, <2>7, <2>8, <2>9
  <1> HIDE DEF P
  <1>5. SUBSET A \subseteq P
    BY <1>3, <1>4, SubsetInduction
  <1>6. QED
    BY <1>5 DEF P

(* Many times one amount. *)
LEMMA TimesNext == ASSUME NEW d \in Nat, NEW n \in Nat PROVE d * (n + 1) = d * n + d
  OBVIOUS

LEMMA TimesSum ==
  ASSUME NEW d \in Nat, NEW m \in Nat, NEW n \in Nat
  PROVE  d * (m + n) = d * m + d * n /\ d * m \in Nat /\ d * n \in Nat
  OBVIOUS

LEMMA SumBounds ==
  ASSUME NEW f, NEW S, IsFiniteSet(S), NatValued(f, S), NEW d \in Nat
  PROVE  /\ (\A x \in S : f[x] <= d) => SumOf(f, S) <= d * Cardinality(S)
         /\ (\A x \in S : d <= f[x]) => d * Cardinality(S) <= SumOf(f, S)
  <1> DEFINE P == {s \in SUBSET S :
                     /\ (\A x \in s : f[x] <= d) => SumOf(f, s) <= d * Cardinality(s)
                     /\ (\A x \in s : d <= f[x]) => d * Cardinality(s) <= SumOf(f, s)}
  <1>1. {} \in P
    <2>1. SumOf(f, {}) = 0 /\ d * Cardinality({}) = 0
      BY SumEmpty, FS_EmptySet
    <2>2. QED
      BY <2>1
  <1>2. ASSUME NEW s \in SUBSET S, s # {}, \A x \in s : s \ {x} \in P PROVE s \in P
    <2>1. PICK x \in s : TRUE
      BY <1>2
    <2> DEFINE r == s \ {x}
    <2>2. IsFiniteSet(s) /\ IsFiniteSet(r) /\ NatValued(f, s) /\ NatValued(f, r)
      BY FS_Subset DEF NatValued
    <2>3. SumOf(f, s) = f[x] + SumOf(f, r) /\ SumOf(f, r) \in Nat /\ f[x] \in Nat
      BY <2>2, SumRemove, SumNat DEF NatValued
    <2>4. Cardinality(r) \in Nat /\ Cardinality(s) = Cardinality(r) + 1
      <3>1. Cardinality(r) = Cardinality(s) - 1
        BY <2>1, <2>2, FS_RemoveElement
      <3>2. QED
        BY <2>2, <3>1, FS_CardinalityType
    <2>5. /\ d * Cardinality(s) = d * Cardinality(r) + d
          /\ d * Cardinality(r) \in Nat
      BY <2>4, TimesNext
    <2>6. /\ (\A y \in r : f[y] <= d) => SumOf(f, r) <= d * Cardinality(r)
          /\ (\A y \in r : d <= f[y]) => d * Cardinality(r) <= SumOf(f, r)
      BY <1>2, <2>1
    <2>7. ASSUME \A y \in s : f[y] <= d PROVE SumOf(f, s) <= d * Cardinality(s)
      <3>1. f[x] <= d /\ SumOf(f, r) <= d * Cardinality(r)
        BY <2>6, <2>7
      <3> HIDE DEF r
      <3>2. QED
        BY <2>3, <2>5, <3>1
    <2>8. ASSUME \A y \in s : d <= f[y] PROVE d * Cardinality(s) <= SumOf(f, s)
      <3>1. d <= f[x] /\ d * Cardinality(r) <= SumOf(f, r)
        BY <2>6, <2>8
      <3> HIDE DEF r
      <3>2. QED
        BY <2>3, <2>5, <3>1
    <2>9. QED
      BY <2>7, <2>8
  <1> HIDE DEF P
  <1>3. SUBSET S \subseteq P
    BY <1>1, <1>2, SubsetInduction
  <1>4. QED
    BY <1>3 DEF P
=============================================================================
