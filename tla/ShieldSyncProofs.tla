--------------------------- MODULE ShieldSyncProofs ---------------------------
(* Theorems about ShieldSync: what the scanning wallet holds is the tree   *)
(* of a chain and exactly the notes that tree gives it, and a sync neither *)
(* forgets a note nor resolves on a branch the node was not on.            *)
EXTENDS ShieldSync, NumberLemmas, SequenceTheorems, TLAPS

(* The checkpoint that get_closest_checkpoint returns is a bundled one.    *)
LEMMA ClosestIsBundled == ASSUME NEW h \in Int PROVE Closest(h) \in DOMAIN Checkpoints
  <1> DEFINE C == DOMAIN Checkpoints
             Low == {c \in C : c <= h}
             Fits(c) == \A d \in C : IF c <= h THEN d <= h => d <= c ELSE h < d /\ c <= d
  <1>1. C \subseteq Nat /\ C # {}
    BY CheckpointAssumption
  <1>2. \E c \in C : Fits(c)
    <2>1. CASE Low = {}
      <3>1. PICK c \in C : \A d \in C : c <= d
        BY <1>1, LeastElement
      <3>2. Fits(c)
        BY <1>1, <2>1, <3>1
      <3>3. QED
        BY <3>2
    <2>2. CASE Low # {}
      <3>1. h \in Nat /\ Low \subseteq Nat
        BY <1>1, <2>2
      <3>2. PICK c \in Low : \A d \in Low : d <= c
        BY <2>2, <3>1, GreatestElement
      <3>3. QED
        BY <3>2
    <2>3. QED
      BY <2>1, <2>2
  <1>3. QED
    BY <1>2 DEF Closest

-----------------------------------------------------------------------------
(* Scanned: its recursion has a solution, which the definition chooses.    *)

(* What the block at height h adds to a tree.                              *)
Added(X, h) == IF h >= Activation THEN X[h] ELSE <<>>

LEMMA ScanExists ==
  ASSUME NEW lo \in Int, NEW hi \in Int, lo - 1 <= hi, NEW X
  PROVE  \E f : f = [h \in (lo - 1)..hi |-> IF h < lo THEN <<>> ELSE f[h - 1] \o Added(X, h)]
  <1> DEFINE Solves(f, n) ==
               f = [h \in (lo - 1)..(lo - 1 + n) |-> IF h < lo THEN <<>> ELSE f[h - 1] \o Added(X, h)]
             S == {n \in Nat : \E f : Solves(f, n)}
  <1>1. 0 \in S
    <2> DEFINE f == [h \in (lo - 1)..(lo - 1) |-> <<>>]
    <2>1. lo - 1 + 0 = lo - 1 /\ \A h \in (lo - 1)..(lo - 1) : h < lo
      OBVIOUS
    <2>2. Solves(f, 0)
      BY <2>1
    <2>3. QED
      BY <2>2
  <1>2. ASSUME NEW n \in Nat, n \in S PROVE n + 1 \in S
    <2>1. PICK f : Solves(f, n)
      BY <1>2
    <2> DEFINE m == lo - 1 + (n + 1)
               g == [h \in (lo - 1)..m |-> IF h = m THEN f[h - 1] \o Added(X, h) ELSE f[h]]
    <2>2. ASSUME NEW h \in (lo - 1)..m
          PROVE  g[h] = IF h < lo THEN <<>> ELSE g[h - 1] \o Added(X, h)
      <3>1. CASE h = m
        <4>1. ~(h < lo) /\ h - 1 \in (lo - 1)..m /\ h - 1 # m
          BY <3>1
        <4>2. g[h - 1] = f[h - 1]
          BY <4>1
        <4>3. QED
          BY <3>1, <4>1, <4>2
      <3>2. CASE h # m
        <4>1. h \in (lo - 1)..(lo - 1 + n)
          BY <3>2
        <4>2. f[h] = IF h < lo THEN <<>> ELSE f[h - 1] \o Added(X, h)
          BY <2>1, <4>1
        <4>3. g[h] = f[h]
          BY <3>2
        <4>4. ~(h < lo) => g[h - 1] = f[h - 1]
          <5>1. ~(h < lo) => h - 1 \in (lo - 1)..m /\ h - 1 # m
            BY <3>2
          <5>2. QED
            BY <5>1
        <4>5. QED
          BY <4>2, <4>3, <4>4
      <3>3. QED
        BY <3>1, <3>2
    <2>3. g = [h \in (lo - 1)..m |-> IF h < lo THEN <<>> ELSE g[h - 1] \o Added(X, h)]
      <3> DEFINE k == [h \in (lo - 1)..m |-> IF h < lo THEN <<>> ELSE g[h - 1] \o Added(X, h)]
      <3>1. DOMAIN g = DOMAIN k /\ \A h \in DOMAIN g : g[h] = k[h]
        BY <2>2
      <3> HIDE DEF k
      <3>2. g = [h \in (lo - 1)..m |-> g[h]]
        OBVIOUS
      <3>3. k = [h \in (lo - 1)..m |-> k[h]]
        BY DEF k
      <3>4. g = k
        BY <3>1, <3>2, <3>3
      <3>5. QED
        BY <3>4 DEF k
    <2>4. Solves(g, n + 1)
      BY <2>3
    <2> HIDE DEF Solves, g
    <2>5. QED
      BY <2>4
  <1> HIDE DEF S
  <1>3. Nat \subseteq S
    BY <1>1, <1>2, SetInduction
  <1>4. hi - (lo - 1) \in S
    BY <1>3
  <1>5. PICK f : Solves(f, hi - (lo - 1))
    BY <1>4 DEF S
  <1>6. lo - 1 + (hi - (lo - 1)) = hi
    OBVIOUS
  <1>7. QED
    BY <1>5, <1>6

LEMMA ScanSolution ==
  ASSUME NEW lo \in Int, NEW hi \in Int, lo - 1 <= hi, NEW block
  PROVE  \E f : /\ \A h \in (lo - 1)..hi :
                       f[h] = IF h < lo THEN <<>> ELSE f[h - 1] \o Added(block, h)
                /\ Scanned(block, lo, hi) = f[hi]
  <1> DEFINE Solves(f) ==
               f = [h \in (lo - 1)..hi |-> IF h < lo THEN <<>> ELSE f[h - 1] \o Added(block, h)]
             f == CHOOSE f : Solves(f)
  <1>1. \E g : Solves(g)
    BY ScanExists
  <1>2. Solves(f)
    BY <1>1
  <1>3. Scanned(block, lo, hi) = f[hi]
    BY DEF Scanned, Added
  <1> HIDE DEF f
  <1>4. \A h \in (lo - 1)..hi :
          f[h] = IF h < lo THEN <<>> ELSE f[h - 1] \o Added(block, h)
    BY <1>2
  <1>5. QED
    BY <1>3, <1>4

(* Scanning yields a sequence of transactions, none below activation.      *)
LEMMA ScanTyped ==
  ASSUME NEW lo \in Int, NEW hi \in Int, lo - 1 <= hi, NEW block,
         \A h \in lo..hi : block[h] \in Seq(Txs)
  PROVE  /\ Scanned(block, lo, hi) \in Seq(Txs)
         /\ hi < Activation => Scanned(block, lo, hi) = <<>>
  <1>1. PICK f : /\ \A h \in (lo - 1)..hi :
                       f[h] = IF h < lo THEN <<>> ELSE f[h - 1] \o Added(block, h)
                 /\ Scanned(block, lo, hi) = f[hi]
    BY ScanSolution
  <1> DEFINE Good(h) == f[h] \in Seq(Txs) /\ (h < Activation => f[h] = <<>>)
             S == {n \in Nat : lo - 1 + n <= hi => Good(lo - 1 + n)}
  <1>2. 0 \in S
    <2>1. f[lo - 1] = <<>> /\ lo - 1 + 0 = lo - 1
      BY <1>1
    <2>2. <<>> \in Seq(Txs)
      BY EmptySeq
    <2>3. QED
      BY <2>1, <2>2
  <1>3. ASSUME NEW n \in Nat, n \in S PROVE n + 1 \in S
    <2> DEFINE h == lo - 1 + (n + 1)
    <2> SUFFICES ASSUME h <= hi PROVE Good(h)
      OBVIOUS
    <2>1. /\ h \in lo..hi /\ h \in (lo - 1)..hi /\ h - 1 = lo - 1 + n
          /\ h - 1 <= hi /\ ~(h < lo)
      OBVIOUS
    <2>2. Good(h - 1)
      BY <1>3, <2>1
    <2> HIDE DEF h
    <2>3. Added(block, h) \in Seq(Txs)
      BY <2>1, EmptySeq DEF Added
    <2>4. h < Activation => Added(block, h) = <<>> /\ h - 1 < Activation
      BY ChainAssumption, <2>1 DEF Added
    <2>5. f[h] = f[h - 1] \o Added(block, h)
      BY <1>1, <2>1
    <2>6. <<>> \o <<>> = <<>>
      BY EmptySeq, ConcatEmptySeq
    <2>7. QED
      BY <2>2, <2>3, <2>4, <2>5, <2>6, ConcatProperties
  <1> HIDE DEF S
  <1>4. hi - (lo - 1) \in S
    <2>1. Nat \subseteq S
      BY <1>2, <1>3, SetInduction
    <2>2. QED
      BY <2>1
  <1>5. lo - 1 + (hi - (lo - 1)) = hi
    OBVIOUS
  <1>6. Good(hi)
    BY <1>4, <1>5 DEF S
  <1>7. QED
    BY <1>1, <1>6

(* The tree of a chain at one of its heights.                              *)
LEMMA TreeAtTyped ==
  ASSUME NEW c \in Chains, NEW h \in Nat, h <= Len(c)
  PROVE  /\ TreeAt(c, h) \in Seq(Txs)
         /\ h < Activation => TreeAt(c, h) = <<>>
  <1>1. c \in Seq(Seq(Txs))
    BY ChainAssumption
  <1>2. \A i \in 1..h : c[i] \in Seq(Txs)
    BY <1>1
  <1>3. QED
    BY <1>2, ScanTyped DEF TreeAt

-----------------------------------------------------------------------------
(* The notes of a tree that grows by some transactions.                    *)

LEMMA NotesTyped ==
  ASSUME NEW tree \in Seq(Txs), NEW from \in Nat
  PROVE  NotesIn(tree, from) \subseteq Note
  BY DEF NotesIn, Note

LEMMA NotesSplit ==
  ASSUME NEW old \in Seq(Txs), NEW more \in Seq(Txs), NEW from \in Nat, from <= Len(old)
  PROVE  LET tree == old \o more
         IN  /\ tree \in Seq(Txs) /\ Len(old) <= Len(tree)
             /\ NotesIn(tree, from) = NotesIn(old, from) \cup NotesIn(tree, Len(old))
             /\ SpentIn(tree, from) = SpentIn(old, from) \cup SpentIn(tree, Len(old))
             /\ NotesIn(old, from) \cap NotesIn(tree, Len(old)) = {}
  <1> DEFINE tree == old \o more
             n == Len(old)
             m == Len(tree)
  <1>1. /\ tree \in Seq(Txs) /\ n \in Nat /\ m \in Nat /\ n <= m
        /\ \A i \in 1..n : tree[i] = old[i]
    BY ConcatProperties, LenProperties
  <1> HIDE DEF tree, n, m
  <1>2. (from + 1)..m = ((from + 1)..n) \cup ((n + 1)..m)
    BY <1>1 DEF n
  <1>3. \A i \in (from + 1)..n : tree[i] = old[i]
    BY <1>1
  <1>4. NotesIn(old, from) = {[tx |-> tree[i], pos |-> i] : i \in {j \in (from + 1)..n : tree[j] \in Mine}}
    BY <1>3 DEF NotesIn, n
  <1>5. NotesIn(tree, from) = NotesIn(old, from) \cup NotesIn(tree, n)
    BY <1>2, <1>4 DEF NotesIn, m
  <1>6. SpentIn(old, from) = UNION {SpendsOf[tree[i]] : i \in (from + 1)..n}
    BY <1>3 DEF SpentIn, n
  <1>7. SpentIn(tree, from) = SpentIn(old, from) \cup SpentIn(tree, n)
    BY <1>2, <1>6 DEF SpentIn, m
  <1>8. ASSUME NEW x \in NotesIn(old, from), x \in NotesIn(tree, n) PROVE FALSE
    <2>1. x.pos \in (from + 1)..n
      BY <1>4
    <2>2. x.pos \in (n + 1)..m
      BY <1>8 DEF NotesIn, m
    <2>3. QED
      BY <1>1, <2>1, <2>2
  <1>9. QED
    BY <1>1, <1>5, <1>7, <1>8 DEF tree, n, m

(* On the tree of a chain no transaction spends a note before it is there. *)
LEMMA NoneSpentEarly ==
  ASSUME NEW c \in Chains, NEW h \in Nat, h <= Len(c),
         NEW old \in Seq(Txs), NEW more \in Seq(Txs), NEW from \in Nat, from <= Len(old),
         TreeAt(c, h) = old \o more
  PROVE  NotesIn(old \o more, Len(old)) \cap SpentIn(old, from) = {}
  <1> DEFINE tree == old \o more
             n == Len(old)
             m == Len(tree)
  <1>1. /\ n \in Nat /\ m \in Nat /\ n <= m
        /\ \A i \in 1..n : tree[i] = old[i]
    BY ConcatProperties, LenProperties
  <1>2. h \in 0..Len(c)
    <2>1. Len(c) \in Nat
      BY ChainAssumption, LenProperties
    <2>2. QED
      BY <2>1
  <1>3. \A i, j \in 1..m : [tx |-> tree[j], pos |-> j] \in SpendsOf[tree[i]] => j < i
    BY <1>2, CausalAssumption
  <1>4. SUFFICES ASSUME NEW x \in NotesIn(tree, n), x \in SpentIn(old, from) PROVE FALSE
    OBVIOUS
  <1> HIDE DEF tree, n, m
  <1>5. PICK j \in (n + 1)..m : x = [tx |-> tree[j], pos |-> j]
    BY DEF NotesIn, m
  <1>6. PICK i \in (from + 1)..n : x \in SpendsOf[old[i]]
    BY <1>4 DEF SpentIn, n
  <1>7. i \in 1..m /\ j \in 1..m /\ tree[i] = old[i] /\ i < j
    BY <1>1, <1>5, <1>6
  <1>8. QED
    BY <1>3, <1>5, <1>6, <1>7

-----------------------------------------------------------------------------
(* The inductive invariant. *)

(* A set of books: the wallet's own, or those of its last save().  What    *)
(* they hold comes from their tree; without a feed, it is exactly what the *)
(* tree gives them.                                                        *)
Unspent(b) == NotesIn(b.tree, b.base) \ SpentIn(b.tree, b.base)

Sound(b) ==
  /\ b.last < Activation => b.tree = <<>>
  /\ b.base <= Len(b.tree)
  /\ b.finalized \cup UNION b.pending \subseteq NotesIn(b.tree, b.base)
  /\ b.notes \subseteq NotesIn(b.tree, b.base) \ b.finalized
  /\ Unspent(b) \ b.finalized \subseteq b.notes
  /\ ~b.fed => b.notes \subseteq Unspent(b)
  /\ b.fed => Feeding

(* Where they stand: a saved wallet counts as one yet to be validated.     *)
Placed(b) ==
  \/ b.fed
  \/ Real(b.tree, b.last, Chains)
  \/ b.last \in DOMAIN Checkpoints /\ b.tree = Checkpoints[b.last]

(* What a running sync has seen of the node.                               *)
SeenAt(h) == {c \in during : h <= Len(c)}

SyncView ==
  /\ run.pc # "fetch" => run.fetched = <<>>
  /\ Busy => branch \in during
  /\ run.pc \in Phases \ {"idle", "count"} => SeenAt(run.tip) # {}
  /\ run.pc = "walk" => notes = {} /\ pendingSpends = {}
  /\ run.pc = "tip" => run.tip = lastProcessedBlock
  /\ run.pc = "fetch" => lastProcessedBlock < run.tip
  /\ \A h \in Have :
       /\ SeenAt(h) # {}
       /\ run.fetched[h].root \in {NoRoot} \cup {TreeAt(c, h) : c \in SeenAt(h)}

IInv == TypeOK /\ SyncView /\ Sound(Image) /\ Sound(disk) /\ TreeIsReal /\ Placed(disk)
(* The parts of TypeOK. *)
RunTyped ==
  /\ run \in [pc : Phases, tip : Nat, probe : Int, lastCp : Nat, fetched : {run.fetched}]
  /\ run.fetched \in [Have -> Fetched] /\ Have \subseteq From..To
  /\ outcome \in [kind : Kinds, height : Nat]
  /\ during \subseteq Chains /\ (Busy <=> during # {})

WalletTyped == Image \in Books /\ disk \in Books /\ startValidated \in BOOLEAN

NodeTyped ==
  /\ branch \in Chains /\ height \in 1..Len(branch)
  /\ reorgs \in Nat /\ faults \in Nat /\ restarts \in Nat

LEMMA TypeParts == TypeOK <=> RunTyped /\ WalletTyped /\ NodeTyped
  BY DEF TypeOK, RunTyped, WalletTyped, NodeTyped

(* The fields of a typed wallet. *)
LEMMA Fields ==
  ASSUME WalletTyped
  PROVE  /\ commitmentTree \in Seq(Txs) /\ lastProcessedBlock \in Nat
         /\ notes \subseteq Note /\ pendingSpends \subseteq SUBSET Note
         /\ base \in Nat /\ finalized \subseteq Note /\ fed \in BOOLEAN
         /\ Image = [tree |-> commitmentTree, last |-> lastProcessedBlock, notes |-> notes,
                     pending |-> pendingSpends, base |-> base, finalized |-> finalized,
                     fed |-> fed]
  BY DEF WalletTyped, Image, Books

-----------------------------------------------------------------------------
(* The run of a sync and what it has seen. *)

RunOK == RunTyped /\ SyncView

(* The locals of a sync between two batches. *)
Locals == [pc : Phases \ {"idle"}, tip : Nat, probe : Int, lastCp : Nat, fetched : {<<>>}]

LEMMA Moved ==
  ASSUME NEW old \in [pc : Phases, tip : Nat, probe : Int, lastCp : Nat, fetched : {<<>>}],
         NEW pc \in Phases \ {"idle"}, NEW tip \in Nat
  PROVE  /\ [old EXCEPT !.pc = pc, !.tip = tip] \in Locals
         /\ [old EXCEPT !.pc = pc, !.tip = tip].pc = pc
         /\ [old EXCEPT !.pc = pc, !.tip = tip].tip = tip
  BY DEF Locals

LEMMA Walked ==
  ASSUME NEW old \in [pc : Phases, tip : Nat, probe : Int, lastCp : Nat, fetched : {<<>>}],
         NEW probe \in Int, NEW cp \in Nat, NEW new,
         \/ new = [old EXCEPT !.pc = "walk", !.probe = probe, !.lastCp = cp]
         \/ old.pc = "walk" /\ new = [old EXCEPT !.probe = probe, !.lastCp = cp]
  PROVE  new \in Locals /\ new.pc = "walk" /\ new.tip = old.tip
  BY DEF Locals, Phases

LEMMA IdleTyped ==
  Idle \in [pc : Phases, tip : Nat, probe : Int, lastCp : Nat, fetched : {<<>>}]
  BY DEF Idle, Phases

LEMMA SettleOK ==
  ASSUME RunTyped, NEW kind \in Kinds, NEW h \in Nat, Settle(kind, h)
  PROVE  RunOK'
  BY DEF RunOK, RunTyped, SyncView, Settle, Idle, Busy, Have, From, To, Phases

LEMMA ContinueOK ==
  ASSUME RunOK, Busy, branch' = branch,
         NEW phase \in Locals,
         Continue(phase),
         phase.pc # "count" => SeenAt(phase.tip) # {},
         phase.pc = "walk" => notes' = {} /\ pendingSpends' = {},
         phase.pc = "tip" => phase.tip = lastProcessedBlock',
         phase.pc = "fetch" => lastProcessedBlock' < phase.tip
  PROVE  RunOK'
  <1>1. run' = phase /\ outcome' = outcome /\ during' = during
    BY DEF Continue
  <1>2. /\ run'.fetched = <<>> /\ Have' = {} /\ run'.pc \in Phases \ {"idle"}
        /\ run'.pc = phase.pc /\ run'.tip = phase.tip
    BY <1>1 DEF Have, Locals
  <1>3. RunTyped'
    BY <1>1, <1>2 DEF Locals, RunOK, RunTyped, Busy, Phases
  <1>4. SyncView'
    BY <1>1, <1>2 DEF RunOK, SyncView, Busy, SeenAt, Have
  <1>5. QED
    BY <1>3, <1>4 DEF RunOK

LEMMA BatchLoopOK ==
  ASSUME RunOK, Busy, branch' = branch, NEW tip \in Nat, NEW last \in Nat,
         lastProcessedBlock' = last, SeenAt(tip) # {}, BatchLoop(tip, last)
  PROVE  RunOK'
  <1>1. CASE last < tip
    <2>1. Continue([Idle EXCEPT !.pc = "fetch", !.tip = tip])
      BY <1>1 DEF BatchLoop
    <2> DEFINE phase == [Idle EXCEPT !.pc = "fetch", !.tip = tip]
    <2>2. phase \in Locals /\ phase.pc = "fetch" /\ phase.tip = tip
      BY IdleTyped, Moved DEF Phases
    <2> HIDE DEF phase
    <2>3. QED
      BY <1>1, <2>1, <2>2, ContinueOK DEF phase
  <1>2. CASE ~(last < tip)
    <2>1. Settle("resolved", tip)
      BY <1>2 DEF BatchLoop
    <2>2. QED
      BY <2>1, SettleOK DEF Kinds, RunOK
  <1>3. QED
    BY <1>1, <1>2

LEMMA AfterStartOK ==
  ASSUME RunOK, Busy, branch' = branch, NEW tip \in Nat, NEW last \in Nat,
         lastProcessedBlock' = last, SeenAt(tip) # {}, AfterStart(tip, last)
  PROVE  RunOK'
  <1>1. CASE last = tip
    <2>1. Continue([Idle EXCEPT !.pc = "tip", !.tip = tip])
      BY <1>1 DEF AfterStart
    <2> DEFINE phase == [Idle EXCEPT !.pc = "tip", !.tip = tip]
    <2>2. phase \in Locals /\ phase.pc = "tip" /\ phase.tip = tip
      BY IdleTyped, Moved DEF Phases
    <2> HIDE DEF phase
    <2>3. QED
      BY <1>1, <2>1, <2>2, ContinueOK DEF phase
  <1>2. CASE last # tip
    BY <1>2, BatchLoopOK DEF AfterStart
  <1>3. QED
    BY <1>1, <1>2

LEMMA FrameOK ==
  ASSUME RunOK, UNCHANGED <<run, outcome>>,
         Busy => lastProcessedBlock' = lastProcessedBlock,
         Busy => notes' \subseteq notes /\ pendingSpends' \subseteq pendingSpends,
         during \subseteq during', during' \subseteq Chains, ~Busy => during' = during,
         Busy => branch' \in during'
  PROVE  RunOK'
  <1>1. CASE Busy
    <2>1. RunTyped'
      BY <1>1 DEF RunOK, RunTyped, Busy, Have, From, To
    <2>2. \A h : SeenAt(h) \subseteq SeenAt(h)'
      BY DEF SeenAt
    <2>3. SyncView'
      BY <1>1, <2>2 DEF RunOK, SyncView, Busy, Have
    <2>4. QED
      BY <2>1, <2>3 DEF RunOK
  <1>2. CASE ~Busy
    <2>1. run.pc = "idle" /\ run.fetched = <<>>
      BY <1>2 DEF RunOK, SyncView, Busy
    <2>2. RunTyped'
      BY <1>2, <2>1 DEF RunOK, RunTyped, Busy, Have
    <2>3. SyncView'
      BY <1>2, <2>1 DEF SyncView, Busy, Have
    <2>4. QED
      BY <2>2, <2>3 DEF RunOK
  <1>3. QED
    BY <1>1, <1>2

(* The heights of the batch being fetched. *)
LEMMA Batch ==
  ASSUME RunOK, WalletTyped, run.pc = "fetch"
  PROVE  /\ From \in Nat /\ To \in Nat /\ From <= To /\ To <= run.tip
         /\ From = lastProcessedBlock + 1 /\ SeenAt(To) # {}
         /\ \A h \in From..To : h \in Nat /\ h >= 1 /\ h <= run.tip
  <1>1. lastProcessedBlock \in Nat /\ run.tip \in Nat /\ lastProcessedBlock < run.tip
    BY Fields DEF RunOK, RunTyped, SyncView
  <1>2. BatchSize \in Nat \ {0}
    BY BatchAssumption
  <1>3. From \in Nat /\ To \in Nat /\ From <= To /\ To <= run.tip /\ From = lastProcessedBlock + 1
    BY <1>1, <1>2 DEF From, To, Smaller
  <1>4. SeenAt(run.tip) # {} /\ SeenAt(run.tip) \subseteq SeenAt(To)
    <2>1. SeenAt(run.tip) # {}
      BY DEF RunOK, SyncView, Phases
    <2>2. \A c \in during : Len(c) \in Nat
      BY ChainAssumption, LenProperties DEF RunOK, RunTyped
    <2>3. QED
      BY <1>1, <1>3, <2>1, <2>2 DEF SeenAt
  <1>5. \A h \in From..To : h \in Nat /\ h >= 1 /\ h <= run.tip
    BY <1>1, <1>3
  <1>6. SeenAt(To) # {}
    BY <1>4
  <1>7. QED
    BY <1>3, <1>5, <1>6

LEMMA StoreOK ==
  ASSUME RunOK, WalletTyped, NodeTyped, NEW h, Wanted(h), h <= height,
         NEW txs \in Seq(Txs), NEW root, root \in {NoRoot, TreeAt(branch, h)},
         Store(h, txs, root), UNCHANGED <<lastProcessedBlock, branch>>
  PROVE  RunOK'
  <1> DEFINE block == [txs |-> txs, root |-> root]
             more == [g \in Have \cup {h} |-> IF g = h THEN block ELSE run.fetched[g]]
  <1>1. /\ run.pc = "fetch" /\ h \in From..To /\ Busy
        /\ run' = [run EXCEPT !.fetched = more] /\ outcome' = outcome /\ during' = during
    BY DEF Wanted, Store, Continue, Busy
  <1>2. h \in Nat /\ h <= Len(branch) /\ branch \in during /\ branch \in SeenAt(h)
    <2>1. h \in Nat
      BY <1>1, Batch
    <2>2. branch \in during
      BY <1>1 DEF RunOK, SyncView
    <2>3. height \in Nat /\ Len(branch) \in Nat /\ height <= Len(branch)
      BY ChainAssumption, LenProperties DEF NodeTyped
    <2>4. QED
      BY <2>1, <2>2, <2>3 DEF SeenAt
  <1>3. block \in Fetched
    <2>1. TreeAt(branch, h) \in Seq(Txs)
      BY <1>2, TreeAtTyped DEF NodeTyped
    <2>2. QED
      BY <2>1 DEF Fetched
  <1>4. more \in [Have \cup {h} -> Fetched]
    BY <1>3 DEF RunOK, RunTyped
  <1> HIDE DEF block
  <1>5. /\ run'.fetched = more /\ run'.pc = run.pc /\ run'.tip = run.tip
        /\ run' \in [pc : Phases, tip : Nat, probe : Int, lastCp : Nat, fetched : {run'.fetched}]
        /\ Have' = Have \cup {h} /\ From' = From /\ To' = To
    <2> HIDE DEF more
    <2>1. /\ run'.fetched = more /\ run'.pc = run.pc /\ run'.tip = run.tip
          /\ run' \in [pc : Phases, tip : Nat, probe : Int, lastCp : Nat, fetched : {run'.fetched}]
      BY <1>1 DEF RunOK, RunTyped
    <2>2. Have' = Have \cup {h}
      BY <1>4, <2>1 DEF Have
    <2>3. From' = From /\ To' = To
      BY <2>1 DEF From, To
    <2>4. QED
      BY <2>1, <2>2, <2>3
  <1>6. RunTyped'
    <2>1. run'.fetched \in [Have' -> Fetched]
      BY <1>4, <1>5
    <2>2. Have' \subseteq From'..To'
      BY <1>1, <1>5 DEF RunOK, RunTyped
    <2>3. (Busy <=> during # {})' /\ during' \subseteq Chains /\ outcome' \in [kind : Kinds, height : Nat]
      BY <1>1, <1>5 DEF RunOK, RunTyped, Busy
    <2>4. QED
      BY <1>5, <2>1, <2>2, <2>3 DEF RunTyped
  <1>7. SyncView'
    <2>1. \A g : SeenAt(g)' = SeenAt(g)
      BY <1>1 DEF SeenAt
    <2>2. ASSUME NEW g \in Have'
          PROVE  /\ SeenAt(g)' # {}
                 /\ (run.fetched[g].root)' \in {NoRoot} \cup {TreeAt(c, g) : c \in SeenAt(g)'}
      <3>1. CASE g = h
        <4>1. run'.fetched[g] = block
          BY <1>5, <3>1
        <4>2. block.root = root
          BY DEF block
        <4>3. QED
          BY <1>2, <2>1, <3>1, <4>1, <4>2
      <3>2. CASE g # h
        <4>1. g \in Have /\ run'.fetched[g] = run.fetched[g]
          BY <1>5, <3>2
        <4>2. QED
          BY <2>1, <4>1 DEF RunOK, SyncView
      <3>3. QED
        BY <3>1, <3>2
    <2>3. /\ (run.pc # "fetch" => run.fetched = <<>>)'
          /\ (Busy => branch \in during)'
          /\ (run.pc \in Phases \ {"idle", "count"} => SeenAt(run.tip) # {})'
          /\ (run.pc = "fetch" => lastProcessedBlock < run.tip)'
          /\ run'.pc \notin {"walk", "tip"}
      BY <1>1, <1>2, <1>5, <2>1 DEF RunOK, SyncView
    <2>4. QED
      BY <2>2, <2>3 DEF SyncView
  <1>8. QED
    BY <1>6, <1>7 DEF RunOK

LEMMA RejectOK ==
  ASSUME RunOK, NEW h, Rejects(h)
  PROVE  RunOK'
  BY SettleOK DEF Rejects, RunOK, Kinds

LEMMA RunNext ==
  ASSUME RunOK, WalletTyped, NodeTyped, [Next]_vars
  PROVE  RunOK'
  <1> lastProcessedBlock \in Nat /\ run.tip \in Nat /\ Busy = (run.pc # "idle")
    BY Fields DEF RunOK, RunTyped, Busy
  <1>1. ASSUME SyncStart PROVE RunOK'
    <2>1. run'.pc = "count" /\ run'.fetched = <<>> /\ during' = {branch} /\ outcome' = outcome
      BY <1>1 DEF SyncStart, Idle
    <2>2. run' \in [pc : Phases, tip : Nat, probe : Int, lastCp : Nat, fetched : {run'.fetched}]
      BY <1>1, <2>1 DEF SyncStart, Idle, Phases
    <2>3. Have' = {} /\ branch' = branch
      BY <1>1, <2>1 DEF Have, SyncStart, node
    <2>4. RunTyped'
      BY <2>1, <2>2, <2>3 DEF RunOK, RunTyped, NodeTyped, Busy
    <2>5. SyncView'
      BY <2>1, <2>3 DEF SyncView, Phases
    <2>6. QED
      BY <2>4, <2>5 DEF RunOK
  <1>2. ASSUME GetBlockCount PROVE RunOK'
    <2>1. /\ run.pc = "count" /\ Busy /\ branch' = branch
          /\ lastProcessedBlock' = lastProcessedBlock
      BY <1>2 DEF GetBlockCount, Busy, tracked, node
    <2>2. branch \in SeenAt(height) /\ height \in Nat
      <3>1. branch \in during
        BY <2>1 DEF RunOK, SyncView
      <3>2. Len(branch) \in Nat
        BY ChainAssumption, LenProperties DEF NodeTyped
      <3>3. QED
        BY <3>1, <3>2 DEF SeenAt, NodeTyped
    <2>3. CASE startValidated
      <3>1. AfterStart(height, lastProcessedBlock)
        BY <1>2, <2>3 DEF GetBlockCount
      <3>2. QED
        BY <2>1, <2>2, <3>1, AfterStartOK
    <2>4. CASE ~startValidated
      <3> DEFINE phase == [run EXCEPT !.pc = "start", !.tip = height]
      <3>1. Continue(phase)
        BY <1>2, <2>4 DEF GetBlockCount
      <3>2. run \in [pc : Phases, tip : Nat, probe : Int, lastCp : Nat, fetched : {<<>>}]
        BY <2>1 DEF RunOK, RunTyped, SyncView
      <3>3. phase \in Locals /\ phase.pc = "start" /\ phase.tip = height
        BY <2>2, <3>2, Moved DEF Phases
      <3> HIDE DEF phase
      <3>4. QED
        BY <2>1, <2>2, <3>1, <3>3, ContinueOK
    <2>5. QED
      BY <2>3, <2>4
  <1>3. ASSUME StartConfirmed PROVE RunOK'
    <2>1. SeenAt(run.tip) # {} /\ Busy
      BY <1>3 DEF StartConfirmed, RunOK, SyncView, Phases
    <2>2. QED
      BY <1>3, <2>1, AfterStartOK DEF StartConfirmed, tracked, node
  <1>4. ASSUME StartContradicted PROVE RunOK'
    <2>1. run.pc = "start" /\ SeenAt(run.tip) # {} /\ Busy /\ branch' = branch
      BY <1>4 DEF StartContradicted, RunOK, SyncView, Phases, Diverges, node
    <2>2. CASE Fresh
      <3> DEFINE phase == [run EXCEPT !.pc = "walk", !.probe = lastProcessedBlock - 1,
                                      !.lastCp = lastProcessedBlock]
      <3>1. Continue(phase) /\ UNCHANGED tracked
        BY <1>4, <2>2 DEF StartContradicted
      <3>2. run \in [pc : Phases, tip : Nat, probe : Int, lastCp : Nat, fetched : {<<>>}]
        BY <2>1 DEF RunOK, RunTyped, SyncView
      <3>3. phase \in Locals /\ phase.pc = "walk" /\ phase.tip = run.tip
        <4>1. lastProcessedBlock - 1 \in Int
          OBVIOUS
        <4>2. phase = [run EXCEPT !.pc = "walk", !.probe = lastProcessedBlock - 1,
                                  !.lastCp = lastProcessedBlock]
          OBVIOUS
        <4> HIDE DEF phase
        <4>3. QED
          BY <3>2, <4>1, <4>2, Walked
      <3>4. notes' = {} /\ pendingSpends' = {}
        BY <2>2, <3>1 DEF Fresh, tracked
      <3> HIDE DEF phase
      <3>5. \A h : SeenAt(h)' = SeenAt(h)
        BY <3>1 DEF SeenAt, Continue
      <3>6. QED
        BY <2>1, <3>1, <3>3, <3>4, ContinueOK
    <2>3. CASE ~Fresh
      BY <1>4, <2>3, SettleOK DEF StartContradicted, Diverges, RunOK, Kinds
    <2>4. QED
      BY <2>2, <2>3
  <1>5. ASSUME WalkExhausted \/ TipContradicted PROVE RunOK'
    BY <1>5, SettleOK DEF WalkExhausted, TipContradicted, Diverges, RunOK, Kinds
  <1>6. ASSUME WalkAdopts PROVE RunOK'
    <2>1. SeenAt(run.tip) # {} /\ Busy
      BY <1>6 DEF WalkAdopts, RunOK, SyncView, Phases
    <2>2. run.probe \in Int /\ Closest(run.probe) \in Nat
      BY ClosestIsBundled, CheckpointAssumption DEF RunOK, RunTyped
    <2>3. QED
      BY <1>6, <2>1, <2>2, AfterStartOK DEF WalkAdopts, StartAt, node
  <1>7. ASSUME WalkSkips PROVE RunOK'
    <2> DEFINE cp == Closest(run.probe)
               phase == [run EXCEPT !.probe = cp - 1, !.lastCp = cp]
    <2>1. run.pc = "walk" /\ SeenAt(run.tip) # {} /\ Busy /\ branch' = branch
          /\ UNCHANGED tracked /\ Continue(phase)
      BY <1>7 DEF WalkSkips, RunOK, SyncView, Phases, node
    <2>2. run \in [pc : Phases, tip : Nat, probe : Int, lastCp : Nat, fetched : {<<>>}]
      BY <2>1 DEF RunOK, RunTyped, SyncView
    <2>3. cp \in Nat
      BY <2>2, ClosestIsBundled, CheckpointAssumption
    <2> HIDE DEF cp
    <2>4. phase \in Locals /\ phase.pc = "walk" /\ phase.tip = run.tip
      <3>1. cp - 1 \in Int /\ phase = [run EXCEPT !.probe = cp - 1, !.lastCp = cp]
        BY <2>3
      <3> HIDE DEF phase
      <3>2. QED
        BY <2>1, <2>2, <2>3, <3>1, Walked
    <2>5. notes' = {} /\ pendingSpends' = {}
      BY <2>1 DEF RunOK, SyncView, tracked
    <2> HIDE DEF phase
    <2>6. QED
      BY <2>1, <2>4, <2>5, ContinueOK
  <1>8. ASSUME TipConfirmed PROVE RunOK'
    BY <1>8, SettleOK DEF TipConfirmed, RunOK, Kinds
  <1>9. ASSUME NEW h, FetchBlock(h) \/ FetchGarbled(h) PROVE RunOK'
    <2>1. \E txs \in {<<>>, branch[h]}, root \in {NoRoot, TreeAt(branch, h)} : Store(h, txs, root)
      BY <1>9 DEF FetchBlock, FetchGarbled, RootOf
    <2>2. Wanted(h) /\ h <= height /\ UNCHANGED <<lastProcessedBlock, branch>>
      BY <1>9 DEF FetchBlock, FetchGarbled, tracked, node
    <2>3. run.pc = "fetch" /\ h \in Nat /\ h >= 1
      BY <2>2, Batch DEF Wanted
    <2>4. branch[h] \in Seq(Txs) /\ <<>> \in Seq(Txs)
      <3>1. branch \in Seq(Seq(Txs)) /\ h \in 1..Len(branch)
        BY ChainAssumption, LenProperties, <2>2, <2>3 DEF NodeTyped
      <3>2. QED
        BY <3>1, ElementOfSeq, EmptySeq
    <2>5. QED
      BY <2>1, <2>2, <2>4, StoreOK
  <1>10. ASSUME BatchVerified PROVE RunOK'
    <2>1. run.pc = "fetch" /\ Busy /\ branch' = branch /\ lastProcessedBlock' = To
          /\ BatchLoop(run.tip, To)
      BY <1>10 DEF BatchVerified, Busy, applyBlocks, node
    <2>2. SeenAt(run.tip) # {} /\ To \in Nat
      BY <2>1, Batch DEF RunOK, SyncView, Phases
    <2>3. QED
      BY <2>1, <2>2, BatchLoopOK
  <1>11. ASSUME BatchRefused PROVE RunOK'
    <2>1. run.pc = "fetch" /\ \E kind \in Kinds : Settle(kind, To)
      BY <1>11 DEF BatchRefused, Kinds
    <2>2. To \in Nat
      BY <2>1, Batch
    <2>3. QED
      BY <2>1, <2>2, SettleOK DEF RunOK
  <1>12. ASSUME SyncFails PROVE RunOK'
    BY <1>12, RejectOK DEF SyncFails
  <1>13. ASSUME NEW H, handleBlocks(H) PROVE RunOK'
    BY <1>13, FrameOK DEF handleBlocks, sync, RunOK, RunTyped
  <1>14. ASSUME NEW h, reloadFromCheckpoint(h) PROVE RunOK'
    <2>1. /\ run.pc = "idle" /\ run.fetched = <<>> /\ run' = run /\ during' = during
          /\ outcome' = [kind |-> "reloaded", height |-> 0]
      BY <1>14 DEF reloadFromCheckpoint, RunOK, SyncView, Busy
    <2>2. outcome' \in [kind : Kinds, height : Nat] /\ Have' = {}
      BY <2>1 DEF Kinds, Have
    <2>3. RunTyped'
      BY <2>1, <2>2 DEF RunOK, RunTyped, Busy, Have
    <2>4. SyncView'
      BY <2>1, <2>2 DEF SyncView, Busy
    <2>5. QED
      BY <2>3, <2>4 DEF RunOK
  <1>15. ASSUME NEW N, createTransaction(N) PROVE RunOK'
    BY <1>15, FrameOK DEF createTransaction, sync, RunOK, RunTyped
  <1>16. ASSUME NEW N, finalizeTransaction(N) \/ discardTransaction(N) PROVE RunOK'
    <2>1. /\ UNCHANGED <<run, outcome, during, lastProcessedBlock, branch>>
          /\ notes' \subseteq notes /\ pendingSpends' \subseteq pendingSpends
      BY <1>16 DEF finalizeTransaction, discardTransaction, sync, node
    <2>2. QED
      BY <2>1, FrameOK DEF RunOK, RunTyped, SyncView
  <1>17. ASSUME save \/ Grow \/ UNCHANGED vars PROVE RunOK'
    <2>1. UNCHANGED <<run, outcome, during, lastProcessedBlock, branch, notes, pendingSpends>>
      BY <1>17 DEF save, Grow, vars, sync, tracked, node
    <2>2. QED
      BY <2>1, FrameOK DEF RunOK, RunTyped, SyncView
  <1>18. ASSUME Restart PROVE RunOK'
    BY <1>18, SettleOK DEF Restart, RunOK, Kinds
  <1>19. ASSUME Reorg PROVE RunOK'
    <2>1. /\ UNCHANGED <<run, outcome, lastProcessedBlock, notes, pendingSpends>>
          /\ branch' \in Chains
          /\ during' = IF Busy THEN during \cup {branch'} ELSE during
      BY <1>19 DEF Reorg, tracked
    <2>2. QED
      BY <2>1, FrameOK DEF RunOK, RunTyped
  <1>20. QED
    BY <1>1, <1>2, <1>3, <1>4, <1>5, <1>6, <1>7, <1>8, <1>9, <1>10, <1>11, <1>12,
       <1>13, <1>14, <1>15, <1>16, <1>17, <1>18, <1>19
       DEF Next, Progress, Application, Recover

-----------------------------------------------------------------------------
(* The wallet's books. *)

(* Sound(Image), on the variables themselves. *)
SoundNow ==
  /\ lastProcessedBlock < Activation => commitmentTree = <<>>
  /\ base <= Len(commitmentTree)
  /\ finalized \cup UNION pendingSpends \subseteq NotesIn(commitmentTree, base)
  /\ notes \subseteq NotesIn(commitmentTree, base) \ finalized
  /\ (NotesIn(commitmentTree, base) \ SpentIn(commitmentTree, base)) \ finalized \subseteq notes
  /\ ~fed => notes \cap SpentIn(commitmentTree, base) = {}
  /\ fed => Feeding

LEMMA SoundImage == Sound(Image) <=> SoundNow
  BY DEF Sound, Unspent, SoundNow, Image

LEMMA SoundImageNext == Sound(Image)' <=> SoundNow'
  BY DEF Sound, Unspent, SoundNow, Image

WalletOK == WalletTyped /\ Sound(Image)

(* A batch, or a feed, adds some transactions to the tree. *)
LEMMA ApplyOK ==
  ASSUME WalletOK, NEW more \in Seq(Txs), NEW last \in Nat, lastProcessedBlock <= last,
         applyBlocks(commitmentTree \o more, last),
         last < Activation => more = <<>>,
         fed' \in BOOLEAN, fed' => Feeding, fed => fed',
         ~fed' => NotesIn(commitmentTree \o more, Len(commitmentTree))
                    \cap SpentIn(commitmentTree, base) = {}
  PROVE  Image' \in Books /\ Sound(Image)'
  <1> DEFINE old == commitmentTree
             new == commitmentTree \o more
             fresh == NotesIn(new, Len(old))
             gone == SpentIn(new, Len(old))
  <1>1. /\ old \in Seq(Txs) /\ lastProcessedBlock \in Nat /\ base \in Nat /\ base <= Len(old)
        /\ notes \subseteq Note /\ pendingSpends \subseteq SUBSET Note /\ finalized \subseteq Note
        /\ Len(old) \in Nat /\ SoundNow
    BY Fields, SoundImage, LenProperties DEF WalletOK, SoundNow
  <1>2. /\ commitmentTree' = new /\ lastProcessedBlock' = last
        /\ notes' = (notes \cup fresh) \ gone
        /\ pendingSpends' \subseteq pendingSpends
        /\ base' = base /\ finalized' = finalized
    BY DEF applyBlocks, Kept
  <1>3. /\ new \in Seq(Txs) /\ Len(old) <= Len(new) /\ Len(new) \in Nat
        /\ NotesIn(new, base) = NotesIn(old, base) \cup fresh
        /\ SpentIn(new, base) = SpentIn(old, base) \cup gone
        /\ NotesIn(old, base) \cap fresh = {}
    BY <1>1, NotesSplit, LenProperties
  <1>4. fresh \subseteq Note
    BY <1>1, <1>3, NotesTyped
  <1>5. last < Activation => new = <<>>
    <2>1. last < Activation => old = <<>> /\ more = <<>>
      BY <1>1, ChainAssumption DEF SoundNow
    <2>2. <<>> \o <<>> = <<>>
      BY EmptySeq, ConcatEmptySeq
    <2>3. QED
      BY <2>1, <2>2
  <1>6. ~fed' => fresh \cap SpentIn(old, base) = {}
    OBVIOUS
  <1> HIDE DEF old, new, fresh, gone
  <1>7. Image' \in Books
    BY <1>1, <1>2, <1>3, <1>4 DEF Image, Books
  <1>8. finalized \cup UNION pendingSpends' \subseteq NotesIn(new, base)
    <2>1. UNION pendingSpends' \subseteq UNION pendingSpends
      BY <1>2
    <2>2. finalized \cup UNION pendingSpends \subseteq NotesIn(old, base)
      BY <1>1 DEF SoundNow, old
    <2>3. QED
      BY <1>3, <2>1, <2>2
  <1>9. /\ notes \subseteq NotesIn(old, base) \ finalized
        /\ (NotesIn(old, base) \ SpentIn(old, base)) \ finalized \subseteq notes
        /\ ~fed => notes \cap SpentIn(old, base) = {}
        /\ finalized \subseteq NotesIn(old, base)
    BY <1>1 DEF SoundNow, old
  <1>10. notes' \subseteq NotesIn(new, base) \ finalized
    BY <1>2, <1>3, <1>9
  <1>11. (NotesIn(new, base) \ SpentIn(new, base)) \ finalized \subseteq notes'
    BY <1>2, <1>3, <1>9
  <1>12. ~fed' => notes' \cap SpentIn(new, base) = {}
    BY <1>2, <1>3, <1>6, <1>9
  <1>13. SoundNow'
    <2>1. base <= Len(new)
      BY <1>1, <1>3
    <2>2. QED
      BY <1>2, <1>5, <1>8, <1>10, <1>11, <1>12, <2>1 DEF SoundNow
  <1>14. QED
    BY <1>7, <1>13, SoundImageNext

(* A wallet that starts over at a checkpoint holds nothing. *)
LEMMA StartOK ==
  ASSUME NEW cp \in DOMAIN Checkpoints, StartAt(cp), notes' = {}, pendingSpends' = {}
  PROVE  Image' \in Books /\ Sound(Image)'
  <1>1. cp \in Nat /\ Checkpoints[cp] \in Seq(Txs) /\ Len(Checkpoints[cp]) \in Nat
    BY CheckpointAssumption, LenProperties
  <1>2. /\ commitmentTree' = Checkpoints[cp] /\ lastProcessedBlock' = cp
        /\ base' = Len(Checkpoints[cp]) /\ finalized' = {} /\ fed' = FALSE
    BY DEF StartAt
  <1>3. Image' \in Books
    BY <1>1, <1>2 DEF Image, Books
  <1>4. cp < Activation => Checkpoints[cp] = <<>>
    BY CheckpointAssumption
  <1>5. NotesIn(commitmentTree', base') = {}
    <2>1. (Len(Checkpoints[cp]) + 1)..Len(Checkpoints[cp]) = {}
      BY <1>1
    <2>2. QED
      BY <1>2, <2>1 DEF NotesIn
  <1>6. SoundNow'
    BY <1>1, <1>2, <1>4, <1>5 DEF SoundNow
  <1>7. QED
    BY <1>3, <1>6, SoundImageNext

(* The end of a reservation, or a new one. *)
LEMMA ReservationOK ==
  ASSUME WalletOK, NEW N,
         createTransaction(N) \/ finalizeTransaction(N) \/ discardTransaction(N)
  PROVE  Image' \in Books /\ Sound(Image)'
  <1>1. /\ commitmentTree \in Seq(Txs) /\ lastProcessedBlock \in Nat /\ base \in Nat
        /\ notes \subseteq Note /\ pendingSpends \subseteq SUBSET Note /\ finalized \subseteq Note
        /\ fed \in BOOLEAN /\ SoundNow
    BY Fields, SoundImage DEF WalletOK
  <1>2. /\ UNCHANGED <<commitmentTree, lastProcessedBlock, base, fed>>
        /\ notes' \subseteq notes /\ finalized \subseteq finalized'
        /\ notes \ notes' \subseteq finalized' /\ notes' \cap (finalized' \ finalized) = {}
        /\ UNION pendingSpends' \subseteq NotesIn(commitmentTree, base)
        /\ finalized' \subseteq NotesIn(commitmentTree, base)
        /\ finalized' \subseteq Note /\ pendingSpends' \subseteq SUBSET Note
    <2>1. notes \cup finalized \cup UNION pendingSpends \subseteq NotesIn(commitmentTree, base)
      BY <1>1 DEF SoundNow
    <2>2. CASE createTransaction(N)
      BY <1>1, <2>1, <2>2 DEF createTransaction, origin
    <2>3. CASE finalizeTransaction(N)
      BY <1>1, <2>1, <2>3 DEF finalizeTransaction
    <2>4. CASE discardTransaction(N)
      BY <1>1, <2>1, <2>4 DEF discardTransaction, origin
    <2>5. QED
      BY <2>2, <2>3, <2>4
  <1>3. Image' \in Books
    BY <1>1, <1>2 DEF Image, Books
  <1>4. SoundNow'
    BY <1>1, <1>2 DEF SoundNow
  <1>5. QED
    BY <1>3, <1>4, SoundImageNext

(* What a batch adds to the tree, and what its last root vouches for. *)
BatchTxs == Scanned([h \in Have |-> run.fetched[h].txs], From, To)

LEMMA BatchScanned ==
  ASSUME RunOK, WalletTyped, run.pc = "fetch", Have = From..To
  PROVE  /\ BatchTxs \in Seq(Txs)
         /\ To < Activation => BatchTxs = <<>>
         /\ FetchedTree = commitmentTree \o BatchTxs /\ FetchedTree \in Seq(Txs)
  <1> DEFINE block == [h \in Have |-> run.fetched[h].txs]
  <1>1. From \in Int /\ To \in Int /\ From - 1 <= To
    BY Batch
  <1>2. \A h \in From..To : block[h] \in Seq(Txs)
    BY DEF RunOK, RunTyped, Fetched
  <1> HIDE DEF block
  <1>3. Scanned(block, From, To) \in Seq(Txs)
        /\ (To < Activation => Scanned(block, From, To) = <<>>)
    BY <1>1, <1>2, ScanTyped
  <1>4. BatchTxs \in Seq(Txs) /\ (To < Activation => BatchTxs = <<>>)
    BY <1>3 DEF BatchTxs, block
  <1>5. FetchedTree = commitmentTree \o BatchTxs
    BY DEF FetchedTree, BatchTxs
  <1>6. QED
    BY <1>4, <1>5, Fields, ConcatProperties

LEMMA BatchIsReal ==
  ASSUME RunOK, WalletTyped, run.pc = "fetch", Have = From..To, RootMatches(FetchedTree),
         To >= Activation
  PROVE  \E c \in SeenAt(To) : FetchedTree = TreeAt(c, To)
  <1>1. From \in Nat /\ To \in Nat /\ From <= To /\ Activation \in Nat
    BY Batch, ChainAssumption
  <1>2. run.fetched[To].root = FetchedTree /\ To \in Have
    BY <1>1 DEF RootMatches
  <1>3. FetchedTree # NoRoot
    BY BatchScanned, ChainAssumption
  <1>4. run.fetched[To].root \in {NoRoot} \cup {TreeAt(c, To) : c \in SeenAt(To)}
    BY <1>2 DEF RunOK, SyncView
  <1>5. QED
    BY <1>2, <1>3, <1>4

LEMMA VerifiedOK ==
  ASSUME RunOK, WalletOK, BatchVerified
  PROVE  Image' \in Books /\ Sound(Image)'
  <1>1. /\ run.pc = "fetch" /\ Have = From..To /\ RootMatches(FetchedTree)
        /\ applyBlocks(FetchedTree, To) /\ fed' = fed
    BY DEF BatchVerified
  <1>2. /\ From \in Nat /\ To \in Nat /\ From <= To /\ From = lastProcessedBlock + 1
        /\ lastProcessedBlock \in Nat
    BY <1>1, Batch, Fields DEF WalletOK
  <1>3. /\ BatchTxs \in Seq(Txs)
        /\ To < Activation => BatchTxs = <<>>
        /\ FetchedTree = commitmentTree \o BatchTxs
    BY <1>1, BatchScanned DEF WalletOK
  <1>4. /\ commitmentTree \in Seq(Txs) /\ base \in Nat /\ base <= Len(commitmentTree)
        /\ fed \in BOOLEAN /\ (fed => Feeding)
    BY Fields, SoundImage DEF WalletOK, SoundNow
  <1>5. NotesIn(commitmentTree \o BatchTxs, Len(commitmentTree)) \cap SpentIn(commitmentTree, base) = {}
    <2>1. CASE To < Activation
      <3>1. commitmentTree = <<>>
        <4>1. lastProcessedBlock < Activation
          BY <1>2, <2>1, ChainAssumption
        <4>2. QED
          BY <4>1, SoundImage DEF WalletOK, SoundNow
      <3>2. BatchTxs = <<>> /\ Len(<<>>) = 0 /\ <<>> \o <<>> = <<>>
        BY <1>3, <2>1, EmptySeq, ConcatEmptySeq
      <3>3. QED
        BY <3>1, <3>2 DEF NotesIn
    <2>2. CASE To >= Activation
      <3>1. PICK c \in SeenAt(To) : commitmentTree \o BatchTxs = TreeAt(c, To)
        BY <1>1, <1>3, <2>2, BatchIsReal DEF WalletOK
      <3>2. c \in Chains /\ To <= Len(c)
        BY <3>1 DEF SeenAt, RunOK, RunTyped
      <3>3. QED
        BY <1>2, <1>3, <1>4, <3>1, <3>2, NoneSpentEarly
    <2>3. QED
      BY <1>2, <2>1, <2>2, ChainAssumption
  <1>6. QED
    BY <1>1, <1>2, <1>3, <1>4, <1>5, ApplyOK

LEMMA FeedOK ==
  ASSUME WalletOK, NodeTyped, NEW H, handleBlocks(H)
  PROVE  Image' \in Books /\ Sound(Image)'
  <1> DEFINE last == CHOOSE h \in H : \A g \in H : g <= h
             given == [h \in From..last |-> IF h \in H THEN branch[h] ELSE <<>>]
  <1>1. /\ Feeding /\ H # {} /\ H \subseteq From..height /\ fed' = TRUE
        /\ applyBlocks(commitmentTree \o Scanned(given, From, last), last)
    BY DEF handleBlocks
  <1>2. /\ lastProcessedBlock \in Nat /\ From = lastProcessedBlock + 1 /\ height \in Nat
        /\ branch \in Seq(Seq(Txs)) /\ height <= Len(branch) /\ Len(branch) \in Nat
    BY Fields, ChainAssumption, LenProperties DEF WalletOK, NodeTyped, From
  <1>3. last \in H
    <2>1. H \subseteq Nat /\ \A h \in H : h <= height
      BY <1>1, <1>2
    <2>2. \E h \in H : \A g \in H : g <= h
      BY <1>1, <1>2, <2>1, GreatestElement
    <2>3. QED
      BY <2>2
  <1>4. \A h \in From..last : given[h] \in Seq(Txs)
    <2>1. \A h \in H : h \in 1..Len(branch)
      BY <1>1, <1>2
    <2>2. \A h \in H : branch[h] \in Seq(Txs)
      BY <1>2, <2>1, ElementOfSeq
    <2>3. QED
      BY <2>2, EmptySeq
  <1> HIDE DEF last, given
  <1>5. last \in Nat /\ From \in Int /\ last \in Int /\ From - 1 <= last /\ lastProcessedBlock <= last
    BY <1>1, <1>2, <1>3
  <1>6. Scanned(given, From, last) \in Seq(Txs)
        /\ (last < Activation => Scanned(given, From, last) = <<>>)
    BY <1>4, <1>5, ScanTyped
  <1>7. QED
    BY <1>1, <1>5, <1>6, ApplyOK

LEMMA BooksNext ==
  ASSUME RunOK, WalletOK, Sound(disk), NodeTyped, [Next]_vars
  PROVE  WalletOK' /\ Sound(disk)'
  <1> USE DEF WalletOK
  <1>1. ASSUME UNCHANGED <<tracked, durable>>, startValidated' \in BOOLEAN
        PROVE  WalletOK' /\ Sound(disk)'
    <2>1. Image' = Image /\ disk' = disk
      BY <1>1 DEF Image, tracked, origin, durable
    <2>2. Sound(Image)' <=> Sound(Image)
      BY <1>1, SoundImage, SoundImageNext DEF SoundNow, tracked, origin
    <2>3. Sound(disk)' <=> Sound(disk)
      BY <2>1 DEF Sound, Unspent
    <2>4. QED
      BY <1>1, <2>1, <2>2, <2>3 DEF WalletTyped
  <1>2. ASSUME Image' \in Books /\ Sound(Image)', UNCHANGED disk, startValidated' \in BOOLEAN
        PROVE  WalletOK' /\ Sound(disk)'
    <2>1. Sound(disk)'
      BY <1>2 DEF Sound, Unspent
    <2>2. QED
      BY <1>2, <2>1 DEF WalletTyped
  <1>3. startValidated \in BOOLEAN
    BY DEF WalletTyped
  <1>4. CASE \/ SyncStart \/ GetBlockCount \/ StartConfirmed \/ StartContradicted
             \/ WalkExhausted \/ WalkSkips \/ TipConfirmed \/ TipContradicted
             \/ SyncFails \/ Grow \/ Reorg \/ UNCHANGED vars
             \/ \E h \in Heights : FetchBlock(h) \/ FetchGarbled(h)
    <2>1. UNCHANGED <<tracked, durable>> /\ startValidated' \in {startValidated, TRUE}
      BY <1>4 DEF SyncStart, GetBlockCount, StartConfirmed, StartContradicted,
                  WalkExhausted, WalkSkips, TipConfirmed, TipContradicted, Diverges,
                  SyncFails, Rejects, Grow, Reorg, vars, FetchBlock, FetchGarbled
    <2>2. QED
      BY <1>1, <1>3, <2>1
  <1>5. ASSUME BatchRefused PROVE WalletOK' /\ Sound(disk)'
    BY <1>1, <1>3, <1>5 DEF BatchRefused, Rollback, tracked, durable
  <1>6. ASSUME WalkAdopts PROVE WalletOK' /\ Sound(disk)'
    <2>1. /\ notes' = {} /\ pendingSpends' = {} /\ startValidated' = TRUE /\ UNCHANGED disk
          /\ StartAt(Closest(run.probe)) /\ run.probe \in Int
      BY <1>6 DEF WalkAdopts, RunOK, RunTyped, SyncView, durable
    <2>2. QED
      BY <1>2, <2>1, ClosestIsBundled, StartOK
  <1>7. ASSUME BatchVerified PROVE WalletOK' /\ Sound(disk)'
    BY <1>2, <1>3, <1>7, VerifiedOK DEF BatchVerified, durable
  <1>8. ASSUME NEW h \in Heights, reloadFromCheckpoint(h) PROVE WalletOK' /\ Sound(disk)'
    <2>1. /\ notes' = {} /\ pendingSpends' = {} /\ startValidated' = FALSE /\ UNCHANGED disk
          /\ StartAt(Closest(h))
      BY <1>8 DEF reloadFromCheckpoint, Unvalidated, durable
    <2>2. h \in Int
      BY <1>8 DEF Heights
    <2>3. QED
      BY <1>2, <2>1, <2>2, ClosestIsBundled, StartOK
  <1>9. ASSUME NEW H, handleBlocks(H) PROVE WalletOK' /\ Sound(disk)'
    BY <1>2, <1>3, <1>9, FeedOK DEF handleBlocks, durable
  <1>10. ASSUME NEW N, createTransaction(N) \/ finalizeTransaction(N) \/ discardTransaction(N)
         PROVE  WalletOK' /\ Sound(disk)'
    BY <1>2, <1>3, <1>10, ReservationOK
       DEF createTransaction, finalizeTransaction, discardTransaction, durable
  <1>11. ASSUME save PROVE WalletOK' /\ Sound(disk)'
    <2>1. disk' = Image /\ Image' = Image /\ UNCHANGED <<tracked, startValidated>>
      BY <1>11 DEF save, Image, tracked, origin
    <2>2. Sound(Image)'
      BY <2>1, SoundImage, SoundImageNext DEF SoundNow, tracked, origin
    <2>3. Sound(disk)'
      BY <2>1 DEF Sound, Unspent
    <2>4. QED
      BY <2>1, <2>2, <2>3 DEF WalletTyped
  <1>12. ASSUME Restart PROVE WalletOK' /\ Sound(disk)'
    <2>1. Image' = disk /\ disk' = disk /\ startValidated' = FALSE
      BY <1>12 DEF Restart, Image, WalletTyped, Books
    <2>2. Sound(Image)'
      BY <2>1 DEF Sound, Unspent
    <2>3. QED
      BY <1>2, <2>1, <2>2 DEF WalletTyped
  <1>13. QED
    BY <1>4, <1>5, <1>6, <1>7, <1>8, <1>9, <1>10, <1>11, <1>12
       DEF Next, Progress, Application, Recover

LEMMA NodeNext == NodeTyped /\ [Next]_vars => NodeTyped'
  <1> SUFFICES ASSUME NodeTyped, [Next]_vars PROVE NodeTyped'
    OBVIOUS
  <1>1. \A c \in Chains : Len(c) \in Nat
    BY ChainAssumption, LenProperties
  <1>2. CASE Grow
    BY <1>1, <1>2 DEF Grow, NodeTyped, durable
  <1>3. CASE Reorg
    BY <1>1, <1>3 DEF Reorg, NodeTyped, durable
  <1>4. CASE \/ SyncStart \/ GetBlockCount \/ StartConfirmed \/ StartContradicted
             \/ WalkExhausted \/ WalkAdopts \/ WalkSkips \/ TipConfirmed \/ TipContradicted
             \/ BatchVerified \/ BatchRefused \/ save \/ Restart \/ UNCHANGED vars
             \/ \E h \in Heights : FetchBlock(h) \/ reloadFromCheckpoint(h)
             \/ \E H : handleBlocks(H)
             \/ \E N : createTransaction(N) \/ finalizeTransaction(N) \/ discardTransaction(N)
    <2>1. UNCHANGED node /\ restarts' \in {restarts, restarts + 1}
      BY <1>4 DEF SyncStart, GetBlockCount, StartConfirmed, StartContradicted, Diverges,
                  WalkExhausted, WalkAdopts, WalkSkips, TipConfirmed, TipContradicted,
                  BatchVerified, BatchRefused, save, Restart, vars, FetchBlock,
                  reloadFromCheckpoint, handleBlocks, createTransaction,
                  finalizeTransaction, discardTransaction, durable
    <2>2. QED
      BY <2>1 DEF NodeTyped, node
  <1>5. CASE SyncFails \/ \E h \in Heights : FetchGarbled(h)
    <2>1. UNCHANGED <<branch, height, reorgs, restarts>> /\ faults' \in {faults, faults + 1}
      BY <1>5 DEF SyncFails, Rejects, FetchGarbled, durable
    <2>2. QED
      BY <2>1 DEF NodeTyped
  <1>6. QED
    BY <1>2, <1>3, <1>4, <1>5 DEF Next, Progress, Application, Recover

-----------------------------------------------------------------------------
(* Where the wallet stands. *)

(* Any chain that reaches a height below activation has the empty tree.    *)
LEMMA EmptyIsReal ==
  ASSUME NEW h \in Nat, h < Activation, NEW S \in SUBSET Chains, \E c \in S : h <= Len(c)
  PROVE  Real(<<>>, h, S)
  BY TreeAtTyped DEF Real

(* A tree that the node agrees with is the tree of a chain.                *)
LEMMA AgreedIsReal ==
  ASSUME NodeTyped, NEW h \in Nat, NEW tree, Readable(h), Agrees(tree, h),
         h < Activation => tree = <<>> /\ \E c \in Chains : h <= Len(c)
  PROVE  Real(tree, h, Chains)
  <1>1. CASE h < Activation
    BY <1>1, EmptyIsReal
  <1>2. CASE ~(h < Activation)
    <2>1. Len(branch) \in Nat /\ h <= Len(branch)
      BY <1>2, ChainAssumption, LenProperties DEF NodeTyped, Readable
    <2>2. QED
      BY <1>2, <2>1 DEF Real, Agrees, NodeTyped
  <1>3. QED
    BY <1>1, <1>2

LEMMA VerifiedIsReal ==
  ASSUME RunOK, WalletOK, BatchVerified
  PROVE  Real(commitmentTree', lastProcessedBlock', during)
  <1>1. /\ run.pc = "fetch" /\ Have = From..To /\ RootMatches(FetchedTree)
        /\ commitmentTree' = FetchedTree /\ lastProcessedBlock' = To
    BY DEF BatchVerified, applyBlocks
  <1>2. /\ From \in Nat /\ To \in Nat /\ From <= To /\ From = lastProcessedBlock + 1
        /\ SeenAt(To) # {} /\ lastProcessedBlock \in Nat
    BY <1>1, Batch, Fields DEF WalletOK
  <1>3. CASE To < Activation
    <2>1. lastProcessedBlock < Activation
      BY <1>2, <1>3, ChainAssumption
    <2>2. commitmentTree = <<>> /\ BatchTxs = <<>> /\ FetchedTree = commitmentTree \o BatchTxs
      BY <1>1, <1>3, <2>1, BatchScanned, SoundImage DEF WalletOK, SoundNow
    <2>3. FetchedTree = <<>>
      BY <2>2, EmptySeq, ConcatEmptySeq
    <2>4. during \in SUBSET Chains /\ \E c \in during : To <= Len(c)
      BY <1>2 DEF RunOK, RunTyped, SeenAt
    <2>5. QED
      BY <1>1, <1>2, <1>3, <2>3, <2>4, EmptyIsReal
  <1>4. CASE To >= Activation
    BY <1>1, <1>4, BatchIsReal DEF WalletOK, SeenAt, Real
  <1>5. QED
    BY <1>2, <1>3, <1>4, ChainAssumption

LEMMA PlaceNext ==
  ASSUME RunOK, WalletOK, NodeTyped, TreeIsReal, Placed(disk), [Next]_vars
  PROVE  TreeIsReal' /\ Placed(disk)'
  <1>1. lastProcessedBlock \in Nat /\ Placed(Image)
    BY Fields DEF WalletOK, Placed, TreeIsReal, AtCheckpoint, Image
  <1>2. ASSUME UNCHANGED <<tracked, durable>>, startValidated' = startValidated
        PROVE  TreeIsReal' /\ Placed(disk)'
    BY <1>2 DEF tracked, origin, durable, TreeIsReal, AtCheckpoint, Placed
  <1>3. CASE \/ SyncStart \/ GetBlockCount \/ StartContradicted
             \/ WalkExhausted \/ WalkSkips \/ TipConfirmed \/ TipContradicted
             \/ SyncFails \/ Grow \/ Reorg \/ UNCHANGED vars
             \/ \E h \in Heights : FetchBlock(h) \/ FetchGarbled(h)
    <2>1. UNCHANGED <<tracked, durable>> /\ startValidated' = startValidated
      BY <1>3 DEF SyncStart, GetBlockCount, StartContradicted,
                  WalkExhausted, WalkSkips, TipConfirmed, TipContradicted, Diverges,
                  SyncFails, Rejects, Grow, Reorg, vars, FetchBlock, FetchGarbled
    <2>2. QED
      BY <1>2, <2>1
  <1>4. CASE StartConfirmed
    <2>1. UNCHANGED <<commitmentTree, lastProcessedBlock, fed, disk>>
      BY <1>4 DEF StartConfirmed, tracked, origin, durable
    <2>2. CASE AtCheckpoint /\ commitmentTree = Checkpoints[lastProcessedBlock]
      <3>1. lastProcessedBlock < Activation
              => commitmentTree = <<>> /\ \E c \in Chains : lastProcessedBlock <= Len(c)
        BY <2>2, CheckpointAssumption DEF AtCheckpoint
      <3>2. Real(commitmentTree, lastProcessedBlock, Chains)
        BY <1>1, <1>4, <3>1, AgreedIsReal DEF StartConfirmed
      <3>3. QED
        BY <2>1, <3>2 DEF TreeIsReal, Placed, Real
    <2>3. CASE fed \/ Real(commitmentTree, lastProcessedBlock, Chains)
      BY <2>1, <2>3 DEF TreeIsReal, Placed, Real
    <2>4. QED
      BY <2>2, <2>3 DEF TreeIsReal
  <1>5. CASE BatchRefused
    BY <1>2, <1>5 DEF BatchRefused, Rollback, tracked, durable
  <1>6. CASE WalkAdopts
    <2> DEFINE cp == Closest(run.probe)
    <2>1. /\ commitmentTree' = Checkpoints[cp] /\ lastProcessedBlock' = cp /\ disk' = disk
          /\ Readable(cp) /\ Agrees(Checkpoints[cp], cp)
      BY <1>6 DEF WalkAdopts, StartAt, Confirmed, durable
    <2>2. cp \in DOMAIN Checkpoints
      BY ClosestIsBundled DEF RunOK, RunTyped
    <2> HIDE DEF cp
    <2>3. Real(Checkpoints[cp], cp, Chains)
      BY <2>1, <2>2, CheckpointAssumption, AgreedIsReal
    <2>4. QED
      BY <2>1, <2>3 DEF TreeIsReal, Placed, Real
  <1>7. CASE BatchVerified
    <2>1. Real(commitmentTree', lastProcessedBlock', Chains)
      BY <1>7, VerifiedIsReal DEF Real, RunOK, RunTyped
    <2>2. disk' = disk
      BY <1>7 DEF BatchVerified, durable
    <2>3. QED
      BY <2>1, <2>2 DEF TreeIsReal, Placed, Real
  <1>8. ASSUME NEW h \in Heights, reloadFromCheckpoint(h) PROVE TreeIsReal' /\ Placed(disk)'
    <2>1. /\ commitmentTree' = Checkpoints[Closest(h)] /\ lastProcessedBlock' = Closest(h)
          /\ startValidated' = FALSE /\ disk' = disk
      BY <1>8 DEF reloadFromCheckpoint, StartAt, Unvalidated, durable
    <2>2. Closest(h) \in DOMAIN Checkpoints
      BY <1>8, ClosestIsBundled DEF Heights
    <2>3. QED
      BY <2>1, <2>2 DEF TreeIsReal, AtCheckpoint, Placed
  <1>9. ASSUME NEW H, handleBlocks(H) PROVE TreeIsReal' /\ Placed(disk)'
    BY <1>9 DEF handleBlocks, TreeIsReal, Placed, durable
  <1>10. ASSUME NEW N, createTransaction(N) \/ finalizeTransaction(N) \/ discardTransaction(N)
         PROVE  TreeIsReal' /\ Placed(disk)'
    <2>1. UNCHANGED <<commitmentTree, lastProcessedBlock, fed, startValidated, disk>>
      BY <1>10 DEF createTransaction, finalizeTransaction, discardTransaction, origin, durable
    <2>2. QED
      BY <2>1 DEF TreeIsReal, AtCheckpoint, Placed, Real
  <1>11. CASE save
    <2>1. disk' = Image /\ UNCHANGED <<commitmentTree, lastProcessedBlock, fed, startValidated>>
      BY <1>11 DEF save, tracked, origin
    <2>2. QED
      BY <1>1, <2>1 DEF TreeIsReal, AtCheckpoint, Placed, Real
  <1>12. CASE Restart
    BY <1>12 DEF Restart, TreeIsReal, AtCheckpoint, Placed, Real
  <1>13. QED
    BY <1>3, <1>4, <1>5, <1>6, <1>7, <1>8, <1>9, <1>10, <1>11, <1>12
       DEF Next, Progress, Application, Recover

-----------------------------------------------------------------------------
(* Theorems *)

LEMMA InitOK == Init => IInv
  <1> SUFFICES ASSUME Init PROVE IInv
    OBVIOUS
  <1>1. /\ lastProcessedBlock \in DOMAIN Checkpoints /\ lastProcessedBlock \in Nat
        /\ commitmentTree = Checkpoints[lastProcessedBlock] /\ commitmentTree \in Seq(Txs)
        /\ base = Len(commitmentTree) /\ base \in Nat
    <2>1. Closest(BirthHeight) \in DOMAIN Checkpoints
      BY ClosestIsBundled, CheckpointAssumption
    <2>2. QED
      BY <2>1, CheckpointAssumption, LenProperties DEF Init
  <1>2. NotesIn(commitmentTree, base) = {}
    <2>1. (Len(commitmentTree) + 1)..Len(commitmentTree) = {}
      BY <1>1
    <2>2. QED
      BY <1>1, <2>1 DEF NotesIn
  <1>3. Image \in Books /\ disk = Image
    BY <1>1 DEF Init, Image, Books
  <1>4. Sound(Image) /\ Sound(disk)
    <2>1. lastProcessedBlock < Activation => commitmentTree = <<>>
      BY <1>1, CheckpointAssumption
    <2>2. SoundNow
      BY <1>1, <1>2, <2>1 DEF Init, SoundNow
    <2>3. QED
      BY <1>3, <2>2, SoundImage
  <1>5. TreeIsReal /\ Placed(disk)
    BY <1>1, <1>3 DEF Init, TreeIsReal, AtCheckpoint, Placed, Image
  <1>6. RunTyped
    <2>1. run = Idle /\ run.pc = "idle" /\ run.fetched = <<>> /\ Have = {}
      BY DEF Init, Idle, Have
    <2>2. run \in [pc : Phases, tip : Nat, probe : Int, lastCp : Nat, fetched : {run.fetched}]
      BY <2>1, IdleTyped
    <2>3. outcome \in [kind : Kinds, height : Nat] /\ during = {}
      BY DEF Init, Kinds
    <2>4. QED
      BY <2>1, <2>2, <2>3 DEF RunTyped, Busy
  <1>7. SyncView
    BY DEF Init, SyncView, Idle, Busy, Have
  <1>8. WalletTyped /\ NodeTyped
    BY <1>3 DEF Init, WalletTyped, NodeTyped
  <1>9. QED
    BY <1>4, <1>5, <1>6, <1>7, <1>8, TypeParts DEF IInv

LEMMA Parts ==
  IInv <=> RunOK /\ WalletOK /\ NodeTyped /\ Sound(disk) /\ TreeIsReal /\ Placed(disk)
  BY DEF IInv, TypeOK, RunTyped, WalletTyped, NodeTyped, RunOK, WalletOK

LEMMA StepOK == IInv /\ [Next]_vars => IInv'
  <1> SUFFICES ASSUME IInv, [Next]_vars PROVE IInv'
    OBVIOUS
  <1>1. RunOK /\ WalletOK /\ NodeTyped /\ Sound(disk) /\ TreeIsReal /\ Placed(disk)
    BY Parts
  <1>2. RunOK' /\ NodeTyped'
    BY <1>1, RunNext, NodeNext DEF WalletOK
  <1>3. WalletOK' /\ Sound(disk)'
    BY <1>1, BooksNext
  <1>4. TreeIsReal' /\ Placed(disk)'
    BY <1>1, PlaceNext
  <1>5. QED
    BY <1>2, <1>3, <1>4
       DEF IInv, TypeOK, RunTyped, WalletTyped, NodeTyped, RunOK, WalletOK

(* Every reachable state satisfies the inductive invariant.                *)
THEOREM ScanInvariant == Spec => []IInv
  BY InitOK, StepOK, PTL DEF Spec

(* Every variable keeps its type (wallet.ts: the fields of PivxWallet and  *)
(* the locals of sync).                                                    *)
THEOREM ScanTyping == Spec => []TypeOK
  <1>1. IInv => TypeOK
    BY DEF IInv
  <1>2. QED
    BY <1>1, ScanInvariant, PTL

(* A wallet that only syncs holds the tree of some chain the node can be   *)
(* on, or a checkpoint yet to be validated, never a mix of branches.       *)
THEOREM TreesAreReal == Spec => []TreeIsReal
  <1>1. IInv => TreeIsReal
    BY DEF IInv
  <1>2. QED
    BY <1>1, ScanInvariant, PTL

(* As long as the blocks scanned came from sync only, even in an           *)
(* application that calls handleBlocks at other times, the notes are       *)
(* exactly those the tree gives, less the spent and the finalized ones.    *)
THEOREM UnfedNotesAreExact == Spec => [](~fed => NotesExact)
  <1>1. IInv => (~fed => NotesExact)
    <2> SUFFICES ASSUME IInv, ~fed PROVE NotesExact
      OBVIOUS
    <2>1. SoundNow
      BY SoundImage DEF IInv
    <2>2. QED
      BY <2>1 DEF SoundNow, NotesExact
  <1>2. QED
    BY <1>1, ScanInvariant, PTL

(* So where nothing is ever fed by handleBlocks they always are.           *)
THEOREM NotesAreExact == ~Feeding => (Spec => []NotesExact)
  <1> SUFFICES ASSUME ~Feeding PROVE Spec => []NotesExact
    OBVIOUS
  <1>1. IInv => NotesExact
    <2> SUFFICES ASSUME IInv PROVE NotesExact
      OBVIOUS
    <2>1. SoundNow
      BY SoundImage DEF IInv
    <2>2. QED
      BY <2>1 DEF SoundNow, NotesExact
  <1>2. QED
    BY <1>1, ScanInvariant, PTL

(* Fed or not, no unspent note of the scanned blocks is missing, and the   *)
(* wallet claims none that they did not pay it.                            *)
NoneMissing ==
  /\ (NotesIn(commitmentTree, base) \ SpentIn(commitmentTree, base)) \ finalized \subseteq notes
  /\ notes \subseteq NotesIn(commitmentTree, base) \ finalized

THEOREM NoNoteMissing == Spec => []NoneMissing
  <1>1. IInv => NoneMissing
    <2> SUFFICES ASSUME IInv PROVE NoneMissing
      OBVIOUS
    <2>1. SoundNow
      BY SoundImage DEF IInv
    <2>2. QED
      BY <2>1 DEF SoundNow, NoneMissing
  <1>2. QED
    BY <1>1, ScanInvariant, PTL

Forgets ==
  Busy /\ restarts' = restarts =>
    notes \ notes' \subseteq finalized' \cup SpentIn(commitmentTree', base')

LEMMA ForgetsNothing == IInv /\ [Next]_vars => Forgets
  <1> SUFFICES ASSUME IInv, [Next]_vars, Busy, restarts' = restarts
               PROVE  notes \ notes' \subseteq finalized' \cup SpentIn(commitmentTree', base')
    BY DEF Forgets
  <1> RunOK /\ WalletOK /\ NodeTyped
    BY Parts
  <1>1. ASSUME notes' = notes
        PROVE  notes \ notes' \subseteq finalized' \cup SpentIn(commitmentTree', base')
    BY <1>1
  <1>2. CASE \/ SyncStart \/ GetBlockCount \/ StartConfirmed \/ StartContradicted
             \/ WalkExhausted \/ WalkAdopts \/ WalkSkips \/ TipConfirmed \/ TipContradicted
             \/ BatchRefused \/ SyncFails \/ save \/ Grow \/ Reorg \/ UNCHANGED vars
             \/ \E h \in Heights : FetchBlock(h) \/ FetchGarbled(h)
             \/ \E N : discardTransaction(N)
    <2>1. notes' = notes
      BY <1>2 DEF SyncStart, GetBlockCount, StartConfirmed, StartContradicted, Diverges,
                  WalkExhausted, WalkAdopts, WalkSkips, TipConfirmed, TipContradicted,
                  BatchRefused, SyncFails, Rejects, save, Grow, Reorg, vars, FetchBlock,
                  FetchGarbled, discardTransaction, tracked
    <2>2. QED
      BY <1>1, <2>1
  <1>3. CASE BatchVerified
    <2>1. /\ run.pc = "fetch" /\ Have = From..To
          /\ notes' = Kept(FetchedTree) /\ commitmentTree' = FetchedTree /\ base' = base
      BY <1>3 DEF BatchVerified, applyBlocks
    <2>2. /\ commitmentTree \in Seq(Txs) /\ base \in Nat /\ base <= Len(commitmentTree)
      BY Fields, SoundImage DEF WalletOK, SoundNow
    <2>3. BatchTxs \in Seq(Txs) /\ FetchedTree = commitmentTree \o BatchTxs
      BY <2>1, BatchScanned DEF WalletOK
    <2>4. SpentIn(FetchedTree, Len(commitmentTree)) \subseteq SpentIn(FetchedTree, base)
      BY <2>2, <2>3, NotesSplit
    <2>5. QED
      BY <2>1, <2>4 DEF Kept
  <1>4. CASE \E N : finalizeTransaction(N)
    BY <1>4 DEF finalizeTransaction
  <1>5. ~Restart
    BY DEF Restart, NodeTyped
  <1>6. CASE \/ \E H : handleBlocks(H)
             \/ \E h : reloadFromCheckpoint(h)
             \/ \E N : createTransaction(N)
    BY <1>6 DEF handleBlocks, reloadFromCheckpoint, createTransaction
  <1>7. QED
    BY <1>2, <1>3, <1>4, <1>5, <1>6 DEF Next, Progress, Application, Recover

(* A running sync takes a note away only if it scanned the transaction     *)
(* that spends it: neither a refused batch nor a rewind loses one.         *)
THEOREM SyncForgetsNothing == Spec => SyncNeverForgets
  <1>1. IInv /\ [Next]_vars => Forgets
    BY ForgetsNothing
  <1>2. QED
    BY <1>1, ScanInvariant, PTL DEF Spec, SyncNeverForgets, Forgets

LEMMA LoopResolves ==
  ASSUME NEW tip \in Nat, NEW last \in Nat, AfterStart(tip, last), ~Busy'
  PROVE  ~(last <= outcome'.height)
  <1>1. [Idle EXCEPT !.pc = "tip", !.tip = tip].pc = "tip"
        /\ [Idle EXCEPT !.pc = "fetch", !.tip = tip].pc = "fetch"
    BY DEF Idle
  <1>2. last # tip
    BY <1>1 DEF AfterStart, Continue, Busy
  <1>3. ~(last < tip) /\ Settle("resolved", tip)
    BY <1>1, <1>2 DEF AfterStart, BatchLoop, Continue, Busy
  <1>4. outcome'.height = tip
    BY <1>3 DEF Settle
  <1>5. QED
    BY <1>2, <1>3, <1>4

Current ==
  Resolves /\ lastProcessedBlock' <= outcome'.height
    => Real(commitmentTree', lastProcessedBlock', during)

LEMMA ResolvesCurrent == IInv /\ [Next]_vars => Current
  <1> SUFFICES ASSUME IInv, [Next]_vars, Resolves, lastProcessedBlock' <= outcome'.height
               PROVE  Real(commitmentTree', lastProcessedBlock', during)
    BY DEF Current
  <1> RunOK /\ WalletOK /\ NodeTyped
    BY Parts
  <1>1. Busy /\ ~Busy' /\ outcome'.kind = "resolved" /\ lastProcessedBlock \in Nat /\ run.tip \in Nat
    BY Fields DEF Resolves, WalletOK, RunOK, RunTyped
  <1>2. CASE GetBlockCount \/ StartConfirmed \/ WalkAdopts
    <2>1. CASE GetBlockCount /\ startValidated
      BY <1>1, <2>1, LoopResolves DEF GetBlockCount, NodeTyped, tracked
    <2>2. CASE GetBlockCount /\ ~startValidated
      BY <1>1, <2>2 DEF GetBlockCount, Continue, Busy, RunOK, RunTyped
    <2>3. CASE StartConfirmed
      BY <1>1, <2>3, LoopResolves DEF StartConfirmed, tracked
    <2>4. CASE WalkAdopts
      <3>1. Closest(run.probe) \in Nat
        BY ClosestIsBundled, CheckpointAssumption DEF RunOK, RunTyped
      <3>2. QED
        BY <1>1, <2>4, <3>1, LoopResolves DEF WalkAdopts, StartAt
    <2>5. QED
      BY <1>2, <2>1, <2>2, <2>3, <2>4
  <1>3. CASE TipConfirmed
    <2>1. /\ run.pc = "tip" /\ run.tip = lastProcessedBlock /\ Agrees(commitmentTree, run.tip)
          /\ Readable(run.tip) /\ branch \in during /\ SeenAt(run.tip) # {}
          /\ UNCHANGED <<commitmentTree, lastProcessedBlock>>
      BY <1>1, <1>3 DEF TipConfirmed, TipMatches, RunOK, SyncView, Phases, tracked
    <2>2. CASE run.tip < Activation
      <3>1. commitmentTree = <<>>
        BY <2>1, <2>2, SoundImage DEF WalletOK, SoundNow
      <3>2. during \in SUBSET Chains /\ \E c \in during : run.tip <= Len(c)
        BY <2>1 DEF RunOK, RunTyped, SeenAt
      <3>3. QED
        BY <1>1, <2>1, <2>2, <3>1, <3>2, EmptyIsReal
    <2>3. CASE ~(run.tip < Activation)
      <3>1. run.tip <= Len(branch)
        BY <1>1, <2>1, <2>3, ChainAssumption, LenProperties DEF Readable, NodeTyped
      <3>2. QED
        BY <2>1, <2>3, <3>1 DEF Agrees, Real
    <2>4. QED
      BY <2>2, <2>3
  <1>4. CASE BatchVerified
    BY <1>4, VerifiedIsReal
  <1>5. ASSUME NEW kind, NEW h, kind # "resolved", Settle(kind, h) PROVE FALSE
    BY <1>1, <1>5 DEF Settle
  <1>6. CASE \/ StartContradicted \/ WalkExhausted \/ TipContradicted \/ BatchRefused
             \/ SyncFails \/ Restart
    <2>1. CASE StartContradicted /\ Fresh
      BY <1>1, <2>1 DEF StartContradicted, Continue, Busy, RunOK, RunTyped
    <2>2. CASE StartContradicted /\ ~Fresh
      BY <1>5, <2>2 DEF StartContradicted, Diverges
    <2>3. QED
      BY <1>5, <1>6, <2>1, <2>2 DEF WalkExhausted, TipContradicted, Diverges,
         BatchRefused, SyncFails, Rejects, Restart
  <1>7. CASE WalkSkips \/ \E h \in Heights : FetchBlock(h) \/ FetchGarbled(h)
    <2>1. run'.pc = run.pc
      BY <1>7 DEF WalkSkips, FetchBlock, FetchGarbled, Store, Continue, RunOK, RunTyped
    <2>2. QED
      BY <1>1, <2>1 DEF Busy
  <1>8. CASE \/ save \/ Grow \/ Reorg \/ UNCHANGED vars
             \/ \E N : finalizeTransaction(N) \/ discardTransaction(N)
    <2>1. run' = run
      BY <1>8 DEF save, Grow, Reorg, vars, finalizeTransaction, discardTransaction, sync
    <2>2. QED
      BY <1>1, <2>1 DEF Busy
  <1>9. CASE \/ SyncStart \/ \E H : handleBlocks(H)
             \/ \E h : reloadFromCheckpoint(h)
             \/ \E N : createTransaction(N)
    BY <1>1, <1>9 DEF SyncStart, handleBlocks, reloadFromCheckpoint, createTransaction
  <1>10. QED
    BY <1>2, <1>3, <1>4, <1>6, <1>7, <1>8, <1>9 DEF Next, Progress, Application, Recover

(* A sync that resolves at a tip it had to reach or check leaves the tree  *)
(* of a branch that was active while it ran, fed before it or not.         *)
THEOREM ResolvedTreeIsCurrent == Spec => ResolvedIsCurrent
  <1>1. IInv /\ [Next]_vars => Current
    BY ResolvesCurrent
  <1>2. QED
    BY <1>1, ScanInvariant, PTL DEF Spec, ResolvedIsCurrent, Current
=============================================================================
