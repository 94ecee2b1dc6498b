----------------------- MODULE TransparentWalletProofs -----------------------
(* Theorems about TransparentWallet: the window of hashes can be saved and *)
(* trusted, the inputs of an open send stay reserved, and a wallet that    *)
(* only syncs has scanned the beginning of one chain.                      *)
EXTENDS TransparentWallet, NumberLemmas, SequenceTheorems, TLAPS

-----------------------------------------------------------------------------
(* The window of block hashes. *)

Ascends(win) == \A i, j \in 1..Len(win) : i < j => win[i].height < win[j].height

(* The window ascends and is no longer than REORG_WINDOW. *)
WindowOK(wal) == Ascends(wal.scannedHashes) /\ Len(wal.scannedHashes) <= Window

(* What popping leaves: the entries before some position, all below h.     *)
LEMMA PoppedIs ==
  ASSUME NEW win \in Seq(Entries), Ascends(win), NEW h \in Nat
  PROVE  \E k \in 0..Len(win) :
           /\ Popped(win, h) = SubSeq(win, 1, k)
           /\ \A i \in 1..k : win[i].height < h
  <1> DEFINE Keeps(k) == /\ k > 0 => win[k].height < h
                         /\ \A j \in (k + 1)..Len(win) : h <= win[j].height
             K == {k \in 0..Len(win) : k > 0 => win[k].height < h}
             kept == CHOOSE k \in 0..Len(win) : Keeps(k)
  <1>1. Len(win) \in Nat /\ \A i \in 1..Len(win) : win[i].height \in Nat
    <2>1. Len(win) \in Nat
      BY LenProperties
    <2>2. \A i \in 1..Len(win) : win[i] \in Entries
      BY ElementOfSeq
    <2>3. QED
      BY <2>1, <2>2 DEF Entries
  <1>2. \E k \in 0..Len(win) : Keeps(k)
    <2>1. K \subseteq Nat /\ 0 \in K /\ \A k \in K : k <= Len(win)
      BY <1>1
    <2>2. PICK k \in K : \A j \in K : j <= k
      BY <1>1, <2>1, GreatestElement
    <2>3. ASSUME NEW j \in (k + 1)..Len(win) PROVE h <= win[j].height
      <3>1. j \in 1..Len(win) /\ j \in 0..Len(win) /\ j > k
        BY <1>1, <2>1, <2>2
      <3>2. j \notin K
        BY <2>1, <2>2, <3>1
      <3>3. QED
        BY <1>1, <3>1, <3>2
    <2>4. QED
      BY <2>2, <2>3
  <1>3. kept \in 0..Len(win) /\ Keeps(kept)
    BY <1>2
  <1>4. Popped(win, h) = SubSeq(win, 1, kept)
    BY DEF Popped
  <1> HIDE DEF kept
  <1>5. ASSUME NEW i \in 1..kept PROVE win[i].height < h
    <2>1. kept > 0 /\ win[kept].height < h /\ kept \in 1..Len(win) /\ i \in 1..Len(win)
      BY <1>1, <1>3
    <2>2. i < kept => win[i].height < win[kept].height
      BY <2>1 DEF Ascends
    <2>3. QED
      BY <1>1, <2>1, <2>2
  <1>6. QED
    BY <1>3, <1>4, <1>5

(* A part of a window, from one position to another.                       *)
LEMMA PartOf ==
  ASSUME NEW win \in Seq(Entries), Ascends(win),
         NEW m \in Nat \ {0}, NEW n \in Nat, n <= Len(win)
  PROVE  LET part == SubSeq(win, m, n)
         IN  /\ part \in Seq(Entries) /\ Ascends(part)
             /\ Len(part) = IF m <= n THEN n - m + 1 ELSE 0
             /\ \A i \in 1..Len(part) : part[i] = win[m + i - 1] /\ m + i - 1 \in 1..Len(win)
  <1> DEFINE part == SubSeq(win, m, n)
  <1>1. Len(win) \in Nat /\ \A i \in 1..Len(win) : win[i] \in Entries
    BY LenProperties, ElementOfSeq
  <1>2. \A i \in m..n : win[i] \in Entries
    BY <1>1
  <1>3. /\ part \in Seq(Entries)
        /\ Len(part) = IF m <= n THEN n - m + 1 ELSE 0
        /\ \A i \in 1..(n - m + 1) : part[i] = win[m + i - 1]
    BY <1>2, SubSeqProperties
  <1> HIDE DEF part
  <1>4. \A i \in 1..Len(part) : part[i] = win[m + i - 1] /\ m + i - 1 \in 1..Len(win)
    BY <1>1, <1>3
  <1>5. ASSUME NEW i \in 1..Len(part), NEW j \in 1..Len(part), i < j
        PROVE  part[i].height < part[j].height
    <2>1. /\ part[i] = win[m + i - 1] /\ m + i - 1 \in 1..Len(win)
          /\ part[j] = win[m + j - 1] /\ m + j - 1 \in 1..Len(win)
          /\ m + i - 1 < m + j - 1
      BY <1>3, <1>4, <1>5
    <2>2. QED
      BY <2>1 DEF Ascends
  <1>6. Ascends(part)
    BY <1>5 DEF Ascends
  <1>7. QED
    BY <1>3, <1>4, <1>6 DEF part

LEMMA PoppedWindow ==
  ASSUME NEW win \in Seq(Entries), Ascends(win), NEW h \in Nat
  PROVE  LET low == Popped(win, h)
         IN  /\ low \in Seq(Entries) /\ Ascends(low) /\ Len(low) <= Len(win)
             /\ \A i \in 1..Len(low) :
                  /\ low[i].height < h
                  /\ \E j \in 1..Len(win) : low[i] = win[j]
  <1> DEFINE low == Popped(win, h)
  <1>1. PICK k \in 0..Len(win) : low = SubSeq(win, 1, k) /\ \A i \in 1..k : win[i].height < h
    BY PoppedIs
  <1>2. Len(win) \in Nat /\ k \in Nat /\ k <= Len(win)
    BY LenProperties
  <1> HIDE DEF low
  <1>3. /\ low \in Seq(Entries) /\ Ascends(low) /\ Len(low) = k
        /\ \A i \in 1..Len(low) : low[i] = win[1 + i - 1] /\ 1 + i - 1 \in 1..Len(win)
    BY <1>1, <1>2, PartOf
  <1>4. \A i \in 1..Len(low) : low[i] = win[i] /\ i \in 1..Len(win)
    BY <1>3
  <1>5. QED
    BY <1>1, <1>2, <1>3, <1>4 DEF low

(* The window after a block was recorded: old entries below h, then the    *)
(* new one, and no more than Window of them.                               *)
LEMMA RecordedWindow ==
  ASSUME NEW win \in Seq(Entries), Ascends(win), NEW h \in Nat, NEW hash \in Hashes, hash # Null
  PROVE  LET new == Recorded(win, h, hash)
         IN  /\ new \in Seq(Entries) /\ Ascends(new) /\ Len(new) <= Window
             /\ \A i \in 1..Len(new) :
                  \/ new[i] = [height |-> h, hash |-> hash]
                  \/ new[i].height < h /\ \E j \in 1..Len(win) : new[i] = win[j]
  <1> DEFINE low == Popped(win, h)
             entry == [height |-> h, hash |-> hash]
             all == Append(low, entry)
             m == Len(all) + 1 - Smaller(Len(all), Window)
             new == SubSeq(all, m, Len(all))
  <1>1. /\ low \in Seq(Entries) /\ Ascends(low) /\ Len(low) \in Nat
        /\ \A i \in 1..Len(low) : low[i].height < h /\ \E j \in 1..Len(win) : low[i] = win[j]
    BY PoppedWindow, LenProperties
  <1>2. entry \in Entries /\ entry.height = h
    BY DEF Entries
  <1> HIDE DEF low, entry
  <1>3. /\ all \in Seq(Entries) /\ Len(all) = Len(low) + 1
        /\ \A i \in 1..Len(low) : all[i] = low[i]
        /\ all[Len(low) + 1] = entry
    BY <1>1, <1>2, AppendProperties
  <1> HIDE DEF all
  <1>4. Ascends(all)
    <2> SUFFICES ASSUME NEW i \in 1..Len(all), NEW j \in 1..Len(all), i < j
                 PROVE  all[i].height < all[j].height
      BY DEF Ascends
    <2>1. i \in 1..Len(low) /\ all[i] = low[i]
      BY <1>1, <1>3
    <2>2. CASE j = Len(low) + 1
      BY <1>1, <1>2, <1>3, <2>1, <2>2
    <2>3. CASE j # Len(low) + 1
      <3>1. j \in 1..Len(low) /\ all[j] = low[j]
        BY <1>1, <1>3, <2>3
      <3>2. QED
        BY <1>1, <2>1, <3>1 DEF Ascends
    <2>4. QED
      BY <2>2, <2>3
  <1>5. /\ m \in Nat \ {0} /\ Len(all) \in Nat /\ Window \in Nat \ {0}
        /\ Len(all) - m + 1 <= Window /\ m <= Len(all)
    <2> DEFINE s == Smaller(Len(all), Window)
    <2>1. Len(all) \in Nat \ {0} /\ Window \in Nat \ {0}
      BY <1>1, <1>3, SizesAssumption
    <2>2. s \in Nat \ {0} /\ s <= Len(all) /\ s <= Window
      BY <2>1 DEF Smaller
    <2>3. m = Len(all) + 1 - s
      OBVIOUS
    <2> HIDE DEF m, s
    <2>4. QED
      BY <2>1, <2>2, <2>3
  <1> HIDE DEF m
  <1>6. /\ new \in Seq(Entries) /\ Ascends(new) /\ Len(new) = Len(all) - m + 1
        /\ \A i \in 1..Len(new) : new[i] = all[m + i - 1] /\ m + i - 1 \in 1..Len(all)
    BY <1>3, <1>4, <1>5, PartOf
  <1>7. ASSUME NEW k \in 1..Len(all)
        PROVE  all[k] = entry \/ (all[k].height < h /\ \E j \in 1..Len(win) : all[k] = win[j])
    <2>1. CASE k = Len(low) + 1
      BY <1>3, <2>1
    <2>2. CASE k # Len(low) + 1
      <3>1. k \in 1..Len(low)
        BY <1>1, <1>3, <2>2
      <3>2. QED
        BY <1>1, <1>3, <3>1
    <2>3. QED
      BY <2>1, <2>2
  <1>8. Recorded(win, h, hash) = new
    BY DEF Recorded, Trimmed, low, entry, all, m
  <1>9. QED
    BY <1>5, <1>6, <1>7, <1>8 DEF entry

-----------------------------------------------------------------------------
(* The two calls that move the scan position, field by field. *)

ScansTo(new, wal, h, b, hash) ==
  /\ new.lastScanned = h /\ new.lastScannedHash = hash
  /\ new.pending = wal.pending \ b.spends
  /\ new.trail = {e \in wal.trail : e.height # h} \cup {[height |-> h, hash |-> b.hash]}
  /\ new.scannedHashes = Recorded(wal.scannedHashes, h, hash)
  /\ new.skipped = wal.skipped \ {h}
  /\ new.utxos = [o \in Outs |->
       IF o \in b.spends THEN Null
       ELSE IF o \in b.pays THEN [height |-> h, coinbase |-> o \in Coinbase]
       ELSE wal.utxos[o]]

ResetsTo(new, wal, h) ==
  /\ new.lastScanned = h /\ new.lastScannedHash = HashAt(wal.scannedHashes, h)
  /\ new.pending = wal.pending
  /\ new.trail = {e \in wal.trail : e.height <= h}
  /\ new.scannedHashes = Popped(wal.scannedHashes, h + 1)
  /\ new.skipped = {g \in wal.skipped : g <= h}
  /\ new.utxos = [o \in Outs |-> IF o \in Above(wal, h) THEN Null ELSE wal.utxos[o]]

LEMMA ScanBlockIs ==
  ASSUME NEW wal \in Wallets, WindowOK(wal), NEW h \in Nat, NEW b \in Blocks,
         NEW hash \in Hashes \cup {Null}, NEW new, new = scanBlock(wal, h, b, hash)
  PROVE  new \in Wallets /\ WindowOK(new) /\ ScansTo(new, wal, h, b, hash)
  <1>1. /\ wal.scannedHashes \in Seq(Entries) /\ wal.pending \subseteq Outs
        /\ wal.trail \subseteq Entries /\ wal.skipped \subseteq Nat
        /\ wal.utxos \in [Outs -> [height : Nat, coinbase : BOOLEAN] \cup {Null}]
        /\ Ascends(wal.scannedHashes) /\ Len(wal.scannedHashes) <= Window
    BY DEF Wallets, WindowOK
  <1>2. b.hash \in Hashes /\ Null \notin Hashes
    BY ChainAssumption DEF Hashes
  <1>3. [height |-> h, hash |-> b.hash] \in Entries
    BY <1>2 DEF Entries
  <1> DEFINE win == Recorded(wal.scannedHashes, h, hash)
             utxos == [o \in Outs |->
                         IF o \in b.spends THEN Null
                         ELSE IF o \in b.pays THEN [height |-> h, coinbase |-> o \in Coinbase]
                         ELSE wal.utxos[o]]
             trail == {e \in wal.trail : e.height # h} \cup {[height |-> h, hash |-> b.hash]}
  <1>4. win \in Seq(Entries) /\ Ascends(win) /\ Len(win) <= Window
    <2>1. CASE hash = Null
      BY <1>1, <2>1 DEF Recorded
    <2>2. CASE hash # Null
      BY <1>1, <2>2, RecordedWindow
    <2>3. QED
      BY <2>1, <2>2
  <1>5. utxos \in [Outs -> [height : Nat, coinbase : BOOLEAN] \cup {Null}]
    BY <1>1
  <1>6. trail \subseteq Entries
    BY <1>1, <1>3
  <1>7. new = [wal EXCEPT !.utxos = utxos, !.pending = @ \ b.spends, !.lastScanned = h,
                          !.lastScannedHash = hash, !.scannedHashes = win, !.trail = trail,
                          !.skipped = @ \ {h}]
    BY DEF scanBlock
  <1> HIDE DEF win, utxos, trail
  <1>8. /\ new.lastScanned = h /\ new.lastScannedHash = hash
        /\ new.pending = wal.pending \ b.spends /\ new.trail = trail
        /\ new.scannedHashes = win /\ new.utxos = utxos /\ new.skipped = wal.skipped \ {h}
        /\ new \in Wallets
    BY <1>1, <1>4, <1>5, <1>6, <1>7 DEF Wallets
  <1>9. WindowOK(new)
    BY <1>4, <1>8 DEF WindowOK
  <1>10. QED
    BY <1>8, <1>9 DEF ScansTo, win, utxos, trail

(* The hash restored at the fork is that of a window entry.                *)
LEMMA HashAtIs ==
  ASSUME NEW win \in Seq(Entries), NEW h \in Nat
  PROVE  \/ HashAt(win, h) = Null /\ \A i \in 1..Len(win) : win[i].height # h
         \/ \E i \in 1..Len(win) : win[i] = [height |-> h, hash |-> HashAt(win, h)]
  <1> DEFINE at == {i \in DOMAIN win : win[i].height = h}
  <1>1. DOMAIN win = 1..Len(win)
    BY LenProperties
  <1>2. CASE at = {}
    BY <1>1, <1>2 DEF HashAt
  <1>3. CASE at # {}
    <2>1. PICK i \in at : HashAt(win, h) = win[i].hash
      BY <1>3 DEF HashAt
    <2>2. i \in 1..Len(win) /\ win[i].height = h
      BY <1>1
    <2>3. win[i] \in Entries
      BY <2>2, ElementOfSeq
    <2>4. win[i] = [height |-> h, hash |-> HashAt(win, h)]
      BY <2>1, <2>2, <2>3 DEF Entries
    <2>5. QED
      BY <2>2, <2>4
  <1>4. QED
    BY <1>2, <1>3

LEMMA ResetScanIs ==
  ASSUME NEW wal \in Wallets, WindowOK(wal), NEW h \in Nat, NEW new, new = resetScan(wal, h)
  PROVE  new \in Wallets /\ WindowOK(new) /\ ResetsTo(new, wal, h)
  <1>1. /\ wal.scannedHashes \in Seq(Entries) /\ wal.trail \subseteq Entries
        /\ wal.skipped \subseteq Nat
        /\ wal.utxos \in [Outs -> [height : Nat, coinbase : BOOLEAN] \cup {Null}]
        /\ Ascends(wal.scannedHashes) /\ Len(wal.scannedHashes) <= Window
    BY DEF Wallets, WindowOK
  <1> DEFINE win == Popped(wal.scannedHashes, h + 1)
             hash == HashAt(wal.scannedHashes, h)
             utxos == [o \in Outs |-> IF o \in Above(wal, h) THEN Null ELSE wal.utxos[o]]
             trail == {e \in wal.trail : e.height <= h}
             skipped == {g \in wal.skipped : g <= h}
  <1>2. win \in Seq(Entries) /\ Ascends(win) /\ Len(win) <= Len(wal.scannedHashes)
    BY <1>1, PoppedWindow
  <1>3. Len(win) <= Window
    <2>1. Len(win) \in Nat /\ Len(wal.scannedHashes) \in Nat /\ Window \in Nat
      BY <1>1, <1>2, LenProperties, SizesAssumption
    <2> HIDE DEF win
    <2>2. QED
      BY <1>1, <1>2, <2>1
  <1>4. hash \in Hashes \cup {Null}
    <2>1. CASE hash = Null
      BY <2>1
    <2>2. CASE \E i \in 1..Len(wal.scannedHashes) :
                 wal.scannedHashes[i] = [height |-> h, hash |-> hash]
      <3> HIDE DEF hash
      <3>1. PICK i \in 1..Len(wal.scannedHashes) :
               wal.scannedHashes[i] = [height |-> h, hash |-> hash]
        BY <2>2
      <3>2. wal.scannedHashes[i] \in Entries
        BY <1>1, ElementOfSeq
      <3>3. QED
        BY <3>1, <3>2 DEF Entries
    <2>3. QED
      BY <1>1, <2>1, <2>2, HashAtIs
  <1>5. utxos \in [Outs -> [height : Nat, coinbase : BOOLEAN] \cup {Null}]
    BY <1>1
  <1>6. trail \subseteq Entries
    BY <1>1
  <1>7. /\ new = [wal EXCEPT !.utxos = utxos, !.pending = wal.pending, !.scannedHashes = win,
                          !.lastScanned = h, !.lastScannedHash = hash, !.trail = trail,
                          !.skipped = skipped]
        /\ skipped \subseteq Nat
    BY <1>1 DEF resetScan, PendingKept
  <1> HIDE DEF win, hash, utxos, trail, skipped
  <1>8. /\ new.lastScanned = h /\ new.lastScannedHash = hash /\ new.pending = wal.pending
        /\ new.trail = trail /\ new.scannedHashes = win /\ new.utxos = utxos
        /\ new.skipped = skipped /\ new \in Wallets
    BY <1>1, <1>2, <1>4, <1>5, <1>6, <1>7 DEF Wallets
  <1>9. WindowOK(new)
    BY <1>2, <1>3, <1>8 DEF WindowOK
  <1>10. QED
    BY <1>8, <1>9 DEF ResetsTo, win, hash, utxos, trail, skipped

-----------------------------------------------------------------------------
(* The blocks of a chunk, one after another. *)

(* Before the first block, and from one to the next.                       *)
Started == [wal |-> Skipping, ok |-> TRUE, spent |-> {}]

After(prior, h) ==
  LET b == run.fetched[h]
  IN  IF prior.ok /\ Continues(prior.wal, h, b)
      THEN [wal |-> scanBlock(prior.wal, h, b, b.hash), ok |-> TRUE,
            spent |-> prior.spent \cup b.spends]
      ELSE [prior EXCEPT !.ok = FALSE]

LEMMA ScannedExists ==
  ASSUME NEW lo \in Int, NEW hi \in Int, lo - 1 <= hi
  PROVE  \E f : f = [h \in (lo - 1)..hi |-> IF h < lo THEN Started ELSE After(f[h - 1], h)]
  <1> DEFINE Solves(f, n) ==
               f = [h \in (lo - 1)..(lo - 1 + n) |-> IF h < lo THEN Started ELSE After(f[h - 1], h)]
             S == {n \in Nat : \E f : Solves(f, n)}
  <1>1. 0 \in S
    <2> DEFINE f == [h \in (lo - 1)..(lo - 1) |-> Started]
    <2>1. lo - 1 + 0 = lo - 1 /\ \A h \in (lo - 1)..(lo - 1) : h < lo
      OBVIOUS
    <2>2. Solves(f, 0)
      BY <2>1
    <2>3. QED
      BY <2>2
  <1>2. ASSUME NEW n \in Nat, n \in S PROVE n + 1 \in S
    <2>1. PICK f : Solves(f, n)
      BY <1>2
    <2> DEFINE m == lo - 1 + (n + 1)
               g == [h \in (lo - 1)..m |-> IF h = m THEN After(f[h - 1], h) ELSE f[h]]
    <2>2. ASSUME NEW h \in (lo - 1)..m
          PROVE  g[h] = IF h < lo THEN Started ELSE After(g[h - 1], h)
      <3>1. CASE h = m
        <4>1. ~(h < lo) /\ h - 1 \in (lo - 1)..m /\ h - 1 # m
          BY <3>1
        <4>2. g[h - 1] = f[h - 1]
          BY <4>1
        <4>3. QED
          BY <3>1, <4>1, <4>2
      <3>2. CASE h # m
        <4>1. h \in (lo - 1)..(lo - 1 + n)
          BY <3>2
        <4>2. f[h] = IF h < lo THEN Started ELSE After(f[h - 1], h)
          BY <2>1, <4>1
        <4>3. g[h] = f[h]
          BY <3>2
        <4>4. ~(h < lo) => g[h - 1] = f[h - 1]
          <5>1. ~(h < lo) => h - 1 \in (lo - 1)..m /\ h - 1 # m
            BY <3>2
          <5>2. QED
            BY <5>1
        <4>5. QED
          BY <4>2, <4>3, <4>4
      <3>3. QED
        BY <3>1, <3>2
    <2>3. g = [h \in (lo - 1)..m |-> IF h < lo THEN Started ELSE After(g[h - 1], h)]
      <3> DEFINE k == [h \in (lo - 1)..m |-> IF h < lo THEN Started ELSE After(g[h - 1], h)]
      <3>1. \A h \in (lo - 1)..m : g[h] = k[h]
        BY <2>2
      <3>2. g = [h \in (lo - 1)..m |-> g[h]] /\ k = [h \in (lo - 1)..m |-> k[h]]
        OBVIOUS
      <3> HIDE DEF g, k
      <3>3. g = k
        BY <3>1, <3>2
      <3>4. QED
        BY <3>3 DEF k
    <2>4. Solves(g, n + 1)
      BY <2>3
    <2> HIDE DEF g, Solves
    <2>5. QED
      BY <2>4
  <1> HIDE DEF S
  <1>3. Nat \subseteq S
    BY <1>1, <1>2, SetInduction
  <1>4. hi - lo + 1 \in S
    BY <1>3
  <1>5. PICK f : Solves(f, hi - lo + 1)
    BY <1>4 DEF S
  <1>6. lo - 1 + (hi - lo + 1) = hi
    OBVIOUS
  <1>7. QED
    BY <1>5, <1>6

(* What holds of the start and is carried from each block to the next      *)
(* holds of every part of the chunk: S[h] is what may be reached at h.     *)
LEMMA ScannedStepwise ==
  ASSUME run.from \in Nat, To \in Nat, run.from <= To, NEW S,
         Started \in S[run.from - 1],
         \A h \in run.from..To : \A p \in S[h - 1] : After(p, h) \in S[h]
  PROVE  \A top \in (run.from - 1)..To : ScannedTo(top) \in S[top]
  <1> DEFINE lo == run.from
             Solves(f) ==
               f = [h \in (lo - 1)..To |-> IF h < lo THEN Started ELSE After(f[h - 1], h)]
             f == CHOOSE f : Solves(f)
             T == {h \in (lo - 1)..To : f[h] \in S[h]}
  <1>1. \E g : Solves(g)
    <2>1. lo \in Int /\ To \in Int /\ lo - 1 <= To
      OBVIOUS
    <2>2. QED
      BY <2>1, ScannedExists
  <1>2. Solves(f)
    BY <1>1
  <1>3. \A top : ScannedTo(top) = f[top]
    BY DEF ScannedTo, After, Started
  <1> HIDE DEF f
  <1>4. \A h \in (lo - 1)..To : f[h] = IF h < lo THEN Started ELSE After(f[h - 1], h)
    BY <1>2
  <1>5. lo - 1 \in T
    <2>1. lo - 1 \in (lo - 1)..To /\ lo - 1 < lo
      OBVIOUS
    <2>2. f[lo - 1] = Started
      BY <1>4, <2>1
    <2>3. QED
      BY <2>1, <2>2
  <1>6. ASSUME NEW h \in (lo - 1 + 1)..To, h - 1 \in T PROVE h \in T
    <2>1. h \in lo..To /\ h \in (lo - 1)..To /\ ~(h < lo)
      OBVIOUS
    <2>2. f[h] = After(f[h - 1], h) /\ f[h - 1] \in S[h - 1]
      BY <1>4, <1>6, <2>1
    <2>3. QED
      BY <2>1, <2>2
  <1>7. lo - 1 \in Int /\ To \in Int /\ lo - 1 <= To
    OBVIOUS
  <1> HIDE DEF T
  <1>8. (lo - 1)..To \subseteq T
    BY <1>5, <1>6, <1>7, IntervalInduction
  <1>9. QED
    BY <1>3, <1>8 DEF T

-----------------------------------------------------------------------------
(* Typing, and a window that load() accepts as to order and size. *)

Runs(F) == [pc : {"idle", "count", "tip", "walk", "fetch"}, fromHeight : Nat, tip : Nat,
            from : Nat, asked : [height : Nat, hash : Hashes \cup {Null}], entry : Nat,
            fetched : F]

RunOK(r) ==
  /\ r \in Runs({r.fetched})
  /\ r.fetched \in [DOMAIN r.fetched -> Blocks]
  /\ DOMAIN r.fetched \subseteq r.from..Smaller(r.from + Chunk - 1, r.tip)
  /\ r.pc = "fetch" => 0 < r.from /\ r.from <= r.tip
  /\ r.pc # "fetch" => r.fetched = <<>>
  /\ r.pc = "walk" => r.entry > 0

WalletOK(wal) == wal \in Wallets /\ WindowOK(wal)

NodeOK == /\ branch \in Chains /\ height \in 1..Len(branch)
          /\ reorgs \in Nat /\ faults \in Nat /\ restarts \in Nat

SyncOK == /\ RunOK(run) /\ outcome \in {"none", "resolved", "failed", "diverged"}
          /\ during \subseteq Chains

(* A fetch has something to fetch, which makes Scanned well defined.       *)
TypeInv ==
  /\ WalletOK(w)
  /\ disk \in [wal : Wallets, sends : SUBSET Sends] /\ WindowOK(disk.wal)
  /\ sends \subseteq Sends
  /\ SyncOK /\ NodeOK

LEMMA ChunkIs ==
  ASSUME RunOK(run), run.pc = "fetch"
  PROVE  /\ run.from \in Nat /\ 0 < run.from /\ run.tip \in Nat /\ To \in Nat
         /\ run.from <= To /\ To <= run.tip
  <1>1. /\ run.from \in Nat /\ 0 < run.from /\ run.tip \in Nat /\ run.from <= run.tip
        /\ Chunk \in Nat \ {0}
    BY SizesAssumption DEF RunOK, Runs
  <1>2. QED
    BY <1>1 DEF To, Smaller

(* The whole chunk, and what was scanned of it before block h.             *)
LEMMA PartsOfChunk ==
  ASSUME RunOK(run), run.pc = "fetch"
  PROVE  /\ Scanned = ScannedTo(To) /\ To \in (run.from - 1)..To
         /\ \A h \in run.from..(To + 1) : h - 1 \in (run.from - 1)..To
  <1>1. run.from \in Nat /\ To \in Nat /\ run.from <= To
    BY ChunkIs
  <1>2. QED
    BY <1>1 DEF Scanned

(* Where a scan starts, nothing but the heights passed over has changed.   *)
LEMMA SkippingIs ==
  ASSUME w \in Wallets, WindowOK(w)
  PROVE  /\ Skipping \in Wallets /\ WindowOK(Skipping)
         /\ Skipping.utxos = w.utxos /\ Skipping.pending = w.pending
         /\ Skipping.lastScanned = w.lastScanned /\ Skipping.trail = w.trail
         /\ Skipping.lastScannedHash = w.lastScannedHash
         /\ Skipping.scannedHashes = w.scannedHashes
         /\ Skipping.skipped = w.skipped \cup ((w.lastScanned + 1)..(run.fromHeight - 1))
  <1> DEFINE passed == (w.lastScanned + 1)..(run.fromHeight - 1)
  <1>1. passed \subseteq Nat
    BY DEF Wallets
  <1>2. Skipping = [w EXCEPT !.skipped = @ \cup passed]
    BY DEF Skipping
  <1> HIDE DEF passed
  <1>3. /\ Skipping \in Wallets /\ Skipping.scannedHashes = w.scannedHashes
        /\ Skipping.utxos = w.utxos /\ Skipping.pending = w.pending
        /\ Skipping.lastScanned = w.lastScanned /\ Skipping.trail = w.trail
        /\ Skipping.lastScannedHash = w.lastScannedHash
        /\ Skipping.skipped = w.skipped \cup passed
    BY <1>1, <1>2 DEF Wallets
  <1>4. QED
    BY <1>3 DEF WindowOK, passed

(* A chunk with all its blocks, whatever these are.                        *)
States == [wal : Wallets, ok : BOOLEAN, spent : SUBSET Outs]

LEMMA AfterIs ==
  ASSUME NEW p \in States, WindowOK(p.wal), NEW h \in Nat, run.fetched[h] \in Blocks
  PROVE  /\ After(p, h) \in States /\ WindowOK(After(p, h).wal)
         /\ \/ After(p, h).wal = p.wal /\ After(p, h).spent = p.spent /\ ~After(p, h).ok
            \/ /\ p.ok /\ Continues(p.wal, h, run.fetched[h])
               /\ After(p, h).wal = scanBlock(p.wal, h, run.fetched[h], run.fetched[h].hash)
               /\ After(p, h).spent = p.spent \cup run.fetched[h].spends
               /\ After(p, h).ok
  <1> DEFINE b == run.fetched[h]
             new == scanBlock(p.wal, h, b, b.hash)
  <1>1. b \in Blocks /\ b.hash \in Hashes \cup {Null} /\ b.spends \subseteq Outs
    BY ChainAssumption DEF Hashes
  <1>2. p.wal \in Wallets /\ p.ok \in BOOLEAN /\ p.spent \subseteq Outs
    BY DEF States
  <1>3. new \in Wallets /\ WindowOK(new)
    <2>1. new = scanBlock(p.wal, h, b, b.hash)
      OBVIOUS
    <2> HIDE DEF new, b
    <2>2. QED
      BY <1>1, <1>2, <2>1, ScanBlockIs
  <1>4. After(p, h) = IF p.ok /\ Continues(p.wal, h, b)
                      THEN [wal |-> new, ok |-> TRUE, spent |-> p.spent \cup b.spends]
                      ELSE [p EXCEPT !.ok = FALSE]
    BY DEF After
  <1> HIDE DEF new, b
  <1>5. CASE p.ok /\ Continues(p.wal, h, b)
    <2>1. After(p, h) = [wal |-> new, ok |-> TRUE, spent |-> p.spent \cup b.spends]
      BY <1>4, <1>5
    <2>2. QED
      BY <1>1, <1>2, <1>3, <1>5, <2>1 DEF States, new, b
  <1>6. CASE ~(p.ok /\ Continues(p.wal, h, b))
    <2>1. After(p, h) = [p EXCEPT !.ok = FALSE]
      BY <1>4, <1>6
    <2>2. After(p, h).wal = p.wal /\ After(p, h).spent = p.spent /\ After(p, h).ok = FALSE
      BY <2>1 DEF States
    <2>3. After(p, h) \in States
      BY <2>1 DEF States
    <2>4. QED
      BY <2>2, <2>3
  <1>7. QED
    BY <1>5, <1>6

(* The reservations a chunk clears are those of what it saw spent.         *)
LEMMA ScannedTyped ==
  ASSUME TypeInv, run.pc = "fetch", Have = run.from..To, NEW top \in (run.from - 1)..To
  PROVE  /\ ScannedTo(top) \in States /\ WindowOK(ScannedTo(top).wal)
         /\ ScannedTo(top).wal.pending = w.pending \ ScannedTo(top).spent
  <1> DEFINE Good(p) == WindowOK(p.wal) /\ p.wal.pending = w.pending \ p.spent
             S == [h \in (run.from - 1)..To |-> {p \in States : Good(p)}]
  <1>1. run.from \in Nat /\ To \in Nat /\ run.from <= To
    BY ChunkIs DEF TypeInv, SyncOK
  <1>2. Started \in S[run.from - 1]
    <2>1. w \in Wallets /\ WindowOK(w)
      BY DEF TypeInv, WalletOK
    <2>2. /\ Started \in States /\ WindowOK(Started.wal) /\ Started.spent = {}
          /\ Started.wal.pending = w.pending
      BY <2>1, SkippingIs DEF Started, States
    <2>3. run.from - 1 \in (run.from - 1)..To
      BY <1>1
    <2>4. QED
      BY <2>1, <2>2, <2>3
  <1>3. ASSUME NEW h \in run.from..To, NEW p \in S[h - 1] PROVE After(p, h) \in S[h]
    <2>1. h \in Nat /\ h \in (run.from - 1)..To /\ h - 1 \in (run.from - 1)..To
      BY <1>1
    <2>2. p \in States /\ WindowOK(p.wal) /\ p.wal.pending = w.pending \ p.spent
      BY <2>1
    <2>3. run.fetched[h] \in Blocks
      BY <2>1 DEF TypeInv, SyncOK, RunOK, Runs, Have
    <2>4. /\ After(p, h) \in States /\ WindowOK(After(p, h).wal)
          /\ \/ After(p, h).wal = p.wal /\ After(p, h).spent = p.spent
             \/ /\ After(p, h).wal = scanBlock(p.wal, h, run.fetched[h], run.fetched[h].hash)
                /\ After(p, h).spent = p.spent \cup run.fetched[h].spends
      BY <2>1, <2>2, <2>3, AfterIs
    <2>5. scanBlock(p.wal, h, run.fetched[h], run.fetched[h].hash).pending
            = p.wal.pending \ run.fetched[h].spends
      <3> DEFINE b == run.fetched[h]
                 new == scanBlock(p.wal, h, b, b.hash)
      <3>1. p.wal \in Wallets /\ b \in Blocks /\ b.hash \in Hashes \cup {Null}
        BY <2>2, <2>3 DEF States, Hashes
      <3>2. new = scanBlock(p.wal, h, b, b.hash)
        OBVIOUS
      <3> HIDE DEF new, b, S
      <3>3. new.pending = p.wal.pending \ b.spends
        <4>1. ScansTo(new, p.wal, h, b, b.hash)
          BY <2>1, <2>2, <3>1, <3>2, ScanBlockIs
        <4>2. QED
          BY <4>1 DEF ScansTo
      <3>4. QED
        BY <3>3 DEF new, b
    <2>6. After(p, h).wal.pending = w.pending \ After(p, h).spent
      BY <2>2, <2>4, <2>5
    <2>7. QED
      BY <2>1, <2>4, <2>6
  <1> HIDE DEF S
  <1>4. ScannedTo(top) \in S[top]
    BY <1>1, <1>2, <1>3, ScannedStepwise
  <1>5. QED
    BY <1>4 DEF S

(* A run of sync that has fetched nothing.                                 *)
LEMMA Unfetched ==
  ASSUME NEW r, r \in Runs({<<>>}),
         r.pc = "fetch" => 0 < r.from /\ r.from <= r.tip, r.pc = "walk" => r.entry > 0
  PROVE  RunOK(r)
  <1>1. r.fetched = <<>> /\ DOMAIN r.fetched = {}
    BY DEF Runs
  <1>2. <<>> \in [{} -> Blocks]
    <2>1. [x \in {} |-> x] = <<>>
      OBVIOUS
    <2>2. QED
      BY <2>1
  <1>3. r.fetched \in [DOMAIN r.fetched -> Blocks]
    BY <1>1, <1>2
  <1>4. r \in Runs({r.fetched})
    BY <1>1 DEF Runs
  <1>5. QED
    BY <1>1, <1>3, <1>4 DEF RunOK

LEMMA IdleIs ==
  Idle \in Runs({<<>>})
  BY DEF Idle, Runs

LEMMA IdleOK == RunOK(Idle) /\ Idle.pc = "idle"
  <1>1. Idle.pc = "idle"
    BY DEF Idle
  <1>2. QED
    BY <1>1, IdleIs, Unfetched

LEMMA SettleOK ==
  ASSUME NEW kind \in {"none", "resolved", "failed", "diverged"}, Settle(kind)
  PROVE  SyncOK'
  <1>1. RunOK(run')
    BY IdleOK DEF Settle
  <1>2. RunOK(run)'
    BY <1>1 DEF RunOK
  <1>3. QED
    BY <1>2 DEF SyncOK, Settle

LEMMA ContinueOK ==
  ASSUME SyncOK, NEW phase, RunOK(phase), Continue(phase)
  PROVE  SyncOK'
  <1>1. run' = phase
    BY DEF Continue
  <1>2. RunOK(run')
    BY <1>1
  <1>3. RunOK(run)'
    BY <1>2 DEF RunOK
  <1>4. QED
    BY <1>3 DEF SyncOK, Continue

(* Where a scan starts, and that it leaves no height up to the tip.        *)
LEMMA FirstHeightIs ==
  ASSUME RunOK(run), NEW wal \in Wallets
  PROVE  /\ FirstHeight(wal) \in Nat /\ wal.lastScanned \in Nat /\ run.fromHeight \in Nat
         /\ wal.lastScanned + 1 <= FirstHeight(wal) /\ run.fromHeight <= FirstHeight(wal)
         /\ FirstHeight(wal) = wal.lastScanned + 1 \/ FirstHeight(wal) = run.fromHeight
  <1>1. wal.lastScanned \in Nat /\ run.fromHeight \in Nat
    BY DEF Wallets, RunOK, Runs
  <1>2. QED
    BY <1>1 DEF FirstHeight, Larger

LEMMA ScanFromOK ==
  ASSUME SyncOK, NEW wal \in Wallets, NEW tip \in Nat, ScanFrom(wal, tip)
  PROVE  SyncOK'
  <1> DEFINE from == FirstHeight(wal)
             passed == run.fromHeight
  <1>1. from \in Nat /\ 0 < from /\ passed \in Nat
    BY FirstHeightIs DEF SyncOK
  <1>2. CASE from <= tip
    <2> DEFINE phase == [Idle EXCEPT !.pc = "fetch", !.fromHeight = passed, !.tip = tip,
                                     !.from = from]
    <2>1. Continue(phase)
      BY <1>2 DEF ScanFrom
    <2> HIDE DEF from, passed
    <2>2. /\ phase \in Runs({<<>>})
          /\ phase.pc = "fetch" /\ 0 < phase.from /\ phase.from <= phase.tip
      BY <1>1, <1>2, IdleIs DEF Runs
    <2> HIDE DEF phase
    <2>3. RunOK(phase)
      BY <2>2, Unfetched
    <2>4. QED
      BY <2>1, <2>3, ContinueOK
  <1>3. CASE ~(from <= tip)
    BY <1>3, SettleOK DEF ScanFrom
  <1>4. QED
    BY <1>2, <1>3

LEMMA WalkFromOK ==
  ASSUME SyncOK, WalletOK(w), NEW i \in Nat, WalkFrom(i), run.pc # "fetch"
  PROVE  SyncOK'
  <1>1. CASE i = 0
    BY <1>1, SettleOK DEF WalkFrom
  <1>2. CASE i # 0 /\ i \in DOMAIN w.scannedHashes
    <2> DEFINE phase == [run EXCEPT !.pc = "walk", !.entry = i, !.asked = w.scannedHashes[i]]
    <2>1. w.scannedHashes[i] \in Entries
      <3>1. w.scannedHashes \in Seq(Entries)
        BY DEF WalletOK, Wallets
      <3>2. QED
        BY <1>2, <3>1, ElementOfSeq, LenProperties
    <2>2. w.scannedHashes[i] \in [height : Nat, hash : Hashes \cup {Null}]
      BY <2>1 DEF Entries
    <2>3. RunOK(run)
      BY DEF SyncOK
    <2>4. /\ phase.pc = "walk" /\ phase.entry = i /\ i > 0
          /\ phase \in Runs({<<>>})
      <3> DEFINE entry == w.scannedHashes[i]
      <3>1. entry \in [height : Nat, hash : Hashes \cup {Null}] /\ i > 0
        BY <1>2, <2>2
      <3>2. run \in Runs({<<>>})
        BY <2>3 DEF RunOK, Runs
      <3> HIDE DEF entry
      <3>3. phase = [run EXCEPT !.pc = "walk", !.entry = i, !.asked = entry]
        BY DEF entry
      <3> HIDE DEF phase
      <3>4. QED
        BY <3>1, <3>2, <3>3 DEF Runs
    <2>5. Continue(phase)
      BY <1>2 DEF WalkFrom
    <2> HIDE DEF phase
    <2>6. RunOK(phase)
      BY <2>4, Unfetched
    <2>7. QED
      BY <2>5, <2>6, ContinueOK
  <1>3. CASE i # 0 /\ i \notin DOMAIN w.scannedHashes
    BY <1>3, SettleOK DEF WalkFrom
  <1>4. QED
    BY <1>1, <1>2, <1>3

(* The node has a block at every height up to its tip but the genesis.     *)
LEMMA BlockOf ==
  ASSUME NodeOK, NEW h \in Nat \ {0}, h <= height
  PROVE  h \in 1..Len(branch) /\ branch[h] \in Blocks
  <1>1. branch \in Seq(Blocks) /\ Len(branch) \in Nat
    BY ChainAssumption, LenProperties DEF NodeOK
  <1>2. h \in 1..Len(branch)
    BY <1>1 DEF NodeOK
  <1>3. QED
    BY <1>1, <1>2, ElementOfSeq

LEMMA WalletNext == ASSUME WalletOK(w') PROVE WalletOK(w)'
  BY DEF WalletOK, WindowOK, Ascends

LEMMA SyncStays == ASSUME SyncOK, UNCHANGED sync PROVE SyncOK'
  <1>1. run' = run /\ outcome' = outcome /\ during' = during
    BY DEF sync
  <1>2. RunOK(run')
    BY <1>1 DEF SyncOK
  <1>3. RunOK(run)'
    BY <1>2 DEF RunOK
  <1>4. QED
    BY <1>1, <1>3 DEF SyncOK

LEMMA NodeStays == ASSUME NodeOK, UNCHANGED <<restarts, node>> PROVE NodeOK'
  BY DEF NodeOK, node

DiskOK == disk \in [wal : Wallets, sends : SUBSET Sends] /\ WindowOK(disk.wal)

LEMMA DiskStays == ASSUME DiskOK, UNCHANGED disk PROVE DiskOK'
  BY DEF DiskOK, WindowOK, Ascends

LEMMA ObservedTyped ==
  ASSUME sends \subseteq Sends, NEW spent
  PROVE  Observed(spent) \subseteq Sends
  BY DEF Observed, Sends

LEMMA InitTyped == ASSUME Init PROVE TypeInv
  <1>1. Empty \in Wallets
    <2>1. Gap \in Nat /\ 0 \in 0..Gap
      BY SizesAssumption
    <2>2. <<>> \in Seq(Entries)
      BY EmptySeq
    <2>3. QED
      BY <2>1, <2>2 DEF Empty, Wallets
  <1>2. WindowOK(Empty)
    <2>1. Empty.scannedHashes = <<>> /\ Len(<<>>) = 0 /\ 0 <= Window
      BY SizesAssumption, EmptySeq DEF Empty
    <2>2. QED
      BY <2>1 DEF WindowOK, Ascends
  <1>3. w = Empty /\ disk = [wal |-> Empty, sends |-> {}] /\ run = Idle /\ outcome = "none"
        /\ during = {} /\ sends = {} /\ NodeOK
    BY DEF Init, NodeOK
  <1>4. SyncOK
    BY <1>3, IdleOK DEF SyncOK
  <1>5. QED
    BY <1>1, <1>2, <1>3, <1>4 DEF TypeInv, WalletOK

(* The steps of sync between two awaits.                                   *)
LEMMA ProgressTyped == ASSUME TypeInv, Progress PROVE TypeInv'
  <1>1. /\ WalletOK(w) /\ w \in Wallets /\ WindowOK(w) /\ DiskOK /\ SyncOK /\ NodeOK
        /\ RunOK(run) /\ sends \subseteq Sends /\ height \in Nat /\ w.lastScanned \in Nat
    <2>1. Len(branch) \in Nat /\ height \in Nat
      BY ChainAssumption, LenProperties DEF TypeInv, NodeOK
    <2>2. QED
      BY <2>1 DEF TypeInv, DiskOK, SyncOK, WalletOK, Wallets
  <1>2. run.tip \in Nat /\ run.entry \in Nat /\ run.asked.height \in Nat
    BY <1>1 DEF RunOK, Runs
  <1>3. SUFFICES WalletOK(w') /\ SyncOK' /\ sends' \subseteq Sends /\ UNCHANGED <<disk, restarts>>
                 /\ NodeOK'
    BY <1>1, <1>3, WalletNext, DiskStays DEF TypeInv, DiskOK
  <1>4. CASE GetBlockCount
    <2>1. UNCHANGED <<w, disk, restarts, node, sends>>
      BY <1>4 DEF GetBlockCount, durable
    <2>2. SyncOK'
      <3>1. CASE Checkable(w)
        <4> DEFINE phase == [run EXCEPT !.pc = "tip", !.tip = height, !.asked.height = w.lastScanned]
        <4>1. Continue(phase)
          BY <1>4, <3>1 DEF GetBlockCount
        <4>2. run.fetched = <<>>
          BY <1>1, <1>4 DEF RunOK, Runs, GetBlockCount
        <4>3. /\ phase.pc = "tip"
              /\ phase \in Runs({<<>>})
          BY <1>1, <4>2 DEF RunOK, Runs
        <4>4. RunOK(phase)
          BY <4>3, Unfetched
        <4>5. QED
          BY <1>1, <4>1, <4>4, ContinueOK
      <3>2. CASE ~Checkable(w)
        <4>1. ScanFrom(w, height)
          BY <1>4, <3>2 DEF GetBlockCount
        <4>2. QED
          BY <1>1, <4>1, ScanFromOK
      <3>3. QED
        BY <3>1, <3>2
    <2>3. QED
      BY <1>1, <2>1, <2>2, NodeStays
  <1>5. CASE TipConfirmed
    <2>1. UNCHANGED <<w, disk, restarts, node, sends>> /\ ScanFrom(w, run.tip)
      BY <1>5 DEF TipConfirmed, durable
    <2>2. SyncOK'
      BY <1>1, <1>2, <2>1, ScanFromOK
    <2>3. QED
      BY <1>1, <2>1, <2>2, NodeStays
  <1>6. CASE TipContradicted
    <2>1. /\ UNCHANGED <<w, disk, restarts, node, sends>>
          /\ WalkFrom(Len(w.scannedHashes)) /\ run.pc = "tip"
      BY <1>6 DEF TipContradicted, Answer, durable
    <2>2. Len(w.scannedHashes) \in Nat
      BY <1>1, LenProperties DEF Wallets
    <2>3. SyncOK'
      BY <1>1, <2>1, <2>2, WalkFromOK
    <2>4. QED
      BY <1>1, <2>1, <2>3, NodeStays
  <1>7. CASE WalkOn
    <2>1. /\ UNCHANGED <<w, disk, restarts, node, sends>>
          /\ WalkFrom(run.entry - 1) /\ run.pc = "walk"
      BY <1>7 DEF WalkOn, Answer, durable
    <2>2. run.entry - 1 \in Nat
      BY <1>1, <1>2, <2>1 DEF RunOK, Runs
    <2>3. SyncOK'
      BY <1>1, <2>1, <2>2, WalkFromOK
    <2>4. QED
      BY <1>1, <2>1, <2>3, NodeStays
  <1>8. CASE WalkFinds
    <2>1. UNCHANGED <<disk, restarts, node, sends>>
      BY <1>8 DEF WalkFinds, durable
    <2>2. CASE run.asked.height <= w.lastScanned
      <3>1. w' = resetScan(w, run.asked.height) /\ ScanFrom(w', run.tip)
        BY <1>8, <2>2 DEF WalkFinds
      <3>2. w' \in Wallets /\ WindowOK(w')
        BY <1>1, <1>2, <3>1, ResetScanIs
      <3>3. SyncOK'
        BY <1>1, <1>2, <3>1, <3>2, ScanFromOK
      <3>4. QED
        BY <1>1, <2>1, <3>2, <3>3, NodeStays DEF WalletOK
    <2>3. CASE ~(run.asked.height <= w.lastScanned)
      <3>1. w' = w /\ Settle("failed")
        BY <1>8, <2>3 DEF WalkFinds
      <3>2. SyncOK'
        BY <3>1, SettleOK
      <3>3. QED
        BY <1>1, <2>1, <3>1, <3>2, NodeStays
    <2>4. QED
      BY <2>2, <2>3
  <1>9. ASSUME NEW h \in Heights, FetchBlock(h) PROVE WalletOK(w') /\ SyncOK'
          /\ sends' \subseteq Sends /\ UNCHANGED <<disk, restarts>> /\ NodeOK'
    <2> DEFINE got == [g \in Have \cup {h} |-> IF g = h THEN branch[h] ELSE run.fetched[g]]
               phase == [run EXCEPT !.fetched = got]
    <2>1. /\ UNCHANGED <<w, disk, restarts, node, sends>> /\ Continue(phase)
          /\ run.pc = "fetch" /\ h \in run.from..To /\ h <= height
      BY <1>9 DEF FetchBlock, durable
    <2>2. run.from \in Nat /\ To \in Nat /\ h \in Nat \ {0}
      BY <1>1, <2>1, ChunkIs
    <2>3. branch[h] \in Blocks
      BY <1>1, <2>1, <2>2, BlockOf
    <2>4. got \in [Have \cup {h} -> Blocks] /\ DOMAIN got = Have \cup {h}
      BY <1>1, <2>3 DEF RunOK, Runs, Have
    <2>5. Have \cup {h} \subseteq run.from..Smaller(run.from + Chunk - 1, run.tip)
      BY <1>1, <2>1 DEF RunOK, Runs, Have, To
    <2> HIDE DEF got
    <2>6. /\ phase.fetched = got /\ phase.from = run.from /\ phase.tip = run.tip
          /\ phase.pc = "fetch"
          /\ phase \in Runs({got})
      BY <1>1, <2>1 DEF RunOK, Runs
    <2> HIDE DEF phase
    <2>7. RunOK(phase)
      BY <1>1, <2>1, <2>4, <2>5, <2>6 DEF RunOK, Runs
    <2>8. SyncOK'
      BY <1>1, <2>1, <2>7, ContinueOK
    <2>9. QED
      BY <1>1, <2>1, <2>8, NodeStays
  <1>10. CASE ScanChunk
    <2>1. /\ UNCHANGED <<disk, restarts, node>> /\ run.pc = "fetch" /\ Have = run.from..To
          /\ w' = Scanned.wal /\ sends' = Observed(Scanned.spent)
          /\ IF ~Scanned.ok THEN Settle("diverged")
             ELSE IF To < run.tip THEN Continue(NextChunk(To + 1))
             ELSE Settle("resolved")
      BY <1>10 DEF ScanChunk, durable
    <2>2. WalletOK(w')
      BY <1>1, <2>1, PartsOfChunk, ScannedTyped DEF WalletOK, States
    <2>3. sends' \subseteq Sends
      BY <1>1, <2>1, ObservedTyped
    <2>4. SyncOK'
      <3>1. CASE Settle("diverged") \/ Settle("resolved")
        BY <3>1, SettleOK
      <3>2. CASE To < run.tip /\ Continue(NextChunk(To + 1))
        <4>1. To \in Nat /\ To + 1 <= run.tip
          BY <1>1, <1>2, <2>1, <3>2, ChunkIs
        <4>2. /\ NextChunk(To + 1) \in Runs({<<>>})
              /\ NextChunk(To + 1).pc = "fetch" /\ NextChunk(To + 1).from = To + 1
              /\ NextChunk(To + 1).tip = run.tip
          <5> DEFINE from == To + 1
          <5>1. from \in Nat
            BY <4>1
          <5>2. NextChunk(To + 1) = [run EXCEPT !.from = from, !.fetched = <<>>]
            BY DEF NextChunk
          <5> HIDE DEF from
          <5>3. /\ NextChunk(To + 1) \in Runs({<<>>})
                /\ NextChunk(To + 1).pc = "fetch" /\ NextChunk(To + 1).from = from
                /\ NextChunk(To + 1).tip = run.tip
            BY <1>1, <2>1, <5>1, <5>2 DEF RunOK, Runs
          <5>4. QED
            BY <5>3 DEF from
        <4>3. RunOK(NextChunk(To + 1))
          BY <4>1, <4>2, Unfetched
        <4>4. QED
          BY <1>1, <3>2, <4>3, ContinueOK
      <3>3. QED
        BY <2>1, <3>1, <3>2
    <2>5. QED
      BY <1>1, <2>1, <2>2, <2>3, <2>4, NodeStays
  <1>11. ASSUME NEW h \in run.from..(To + 1), ScanBreaks(h) PROVE WalletOK(w') /\ SyncOK'
          /\ sends' \subseteq Sends /\ UNCHANGED <<disk, restarts>> /\ NodeOK'
    <2>1. /\ UNCHANGED <<disk, restarts, branch, height, reorgs>> /\ faults' = faults + 1
          /\ run.pc = "fetch" /\ Have = run.from..To /\ Settle("failed")
          /\ w' = ScannedTo(h - 1).wal /\ sends' = Observed(ScannedTo(h - 1).spent)
      BY <1>11 DEF ScanBreaks, durable
    <2>2. WalletOK(w')
      BY <1>1, <2>1, PartsOfChunk, ScannedTyped DEF WalletOK, States
    <2>3. sends' \subseteq Sends
      BY <1>1, <2>1, ObservedTyped
    <2>4. SyncOK' /\ NodeOK'
      BY <1>1, <2>1, SettleOK DEF NodeOK
    <2>5. QED
      BY <2>1, <2>2, <2>3, <2>4
  <1>12. CASE SyncFails
    <2>1. /\ UNCHANGED <<w, disk, restarts, branch, height, reorgs, sends>>
          /\ Settle("failed") /\ (faults' = faults \/ faults' = faults + 1)
      BY <1>12 DEF SyncFails, durable
    <2>2. SyncOK'
      BY <2>1, SettleOK
    <2>3. NodeOK'
      BY <1>1, <2>1 DEF NodeOK
    <2>4. QED
      BY <1>1, <2>1, <2>2, <2>3
  <1>13. QED
    BY <1>4, <1>5, <1>6, <1>7, <1>8, <1>9, <1>10, <1>11, <1>12 DEF Progress

(* The application's calls that leave position, window and history alone. *)
LEMMA Bookkept ==
  ASSUME WalletOK(w), NEW new, new \in Wallets, new.scannedHashes = w.scannedHashes
  PROVE  WalletOK(new)
  BY DEF WalletOK, WindowOK

LEMMA HeightsAreNat == Heights \subseteq Nat
  BY DEF Heights

LEMMA ApplicationTyped == ASSUME TypeInv, Application PROVE TypeInv'
  <1>1. /\ WalletOK(w) /\ w \in Wallets /\ WindowOK(w) /\ DiskOK /\ SyncOK /\ NodeOK
        /\ RunOK(run) /\ sends \subseteq Sends
    BY DEF TypeInv, DiskOK, SyncOK, WalletOK
  <1>2. SUFFICES WalletOK(w') /\ SyncOK' /\ sends' \subseteq Sends /\ DiskOK' /\ NodeOK'
    BY <1>2, WalletNext DEF TypeInv, DiskOK
  <1>3. ASSUME NEW fromHeight \in FromHeights, SyncStart(fromHeight)
        PROVE  WalletOK(w') /\ SyncOK' /\ sends' \subseteq Sends /\ DiskOK' /\ NodeOK'
    <2> DEFINE phase == [Idle EXCEPT !.pc = "count", !.fromHeight = fromHeight]
    <2>1. /\ UNCHANGED <<w, disk, restarts, node, sends, outcome>>
          /\ run' = phase /\ during' = {branch}
      BY <1>3 DEF SyncStart, durable
    <2>2. /\ phase.pc = "count"
          /\ phase \in Runs({<<>>})
      BY IdleIs, FromAssumption DEF Runs
    <2> HIDE DEF phase
    <2>3. RunOK(run')
      BY <2>1, <2>2, Unfetched
    <2>4. RunOK(run)'
      BY <2>3 DEF RunOK
    <2>5. during' \subseteq Chains
      BY <1>1, <2>1 DEF NodeOK
    <2>6. SyncOK'
      BY <1>1, <2>1, <2>4, <2>5 DEF SyncOK
    <2>7. QED
      BY <1>1, <2>1, <2>6, NodeStays, DiskStays
  <1>4. ASSUME NEW h \in Heights, Reset(h)
        PROVE  WalletOK(w') /\ SyncOK' /\ sends' \subseteq Sends /\ DiskOK' /\ NodeOK'
    <2>1. /\ UNCHANGED <<run, during, disk, restarts, node, sends>>
          /\ w' = resetScan(w, h) /\ outcome' = "none"
      BY <1>4 DEF Reset, durable
    <2>2. h \in Nat
      BY HeightsAreNat
    <2>3. WalletOK(w')
      BY <1>1, <2>1, <2>2, ResetScanIs DEF WalletOK
    <2>4. RunOK(run')
      BY <1>1, <2>1
    <2>5. RunOK(run)'
      BY <2>4 DEF RunOK
    <2>6. SyncOK'
      BY <1>1, <2>1, <2>5 DEF SyncOK
    <2>7. QED
      BY <1>1, <2>1, <2>3, <2>6, NodeStays, DiskStays
  <1>5. ASSUME NEW h \in Heights, NEW hash \in Hashes \cup {Null}, FeedBlock(h, hash)
        PROVE  WalletOK(w') /\ SyncOK' /\ sends' \subseteq Sends /\ DiskOK' /\ NodeOK'
    <2>1. /\ UNCHANGED <<sync, disk, restarts, node>> /\ h \in 1..height
          /\ w' = scanBlock(w, h, branch[h], hash) /\ sends' = Observed(branch[h].spends)
      BY <1>5 DEF FeedBlock, durable
    <2>2. h \in Nat /\ branch[h] \in Blocks
      <3>1. h \in Nat \ {0} /\ h <= height
        BY <2>1, HeightsAreNat
      <3>2. QED
        BY <1>1, <3>1, BlockOf
    <2>3. w' \in Wallets /\ WindowOK(w')
      <3> DEFINE b == branch[h]
      <3>1. b \in Blocks /\ w' = scanBlock(w, h, b, hash)
        BY <2>1, <2>2
      <3> HIDE DEF b
      <3>2. QED
        BY <1>1, <2>2, <3>1, ScanBlockIs
    <2>4. sends' \subseteq Sends
      BY <1>1, <2>1, ObservedTyped
    <2>5. QED
      BY <1>1, <2>1, <2>3, <2>4, SyncStays, NodeStays, DiskStays DEF WalletOK
  <1>6. ASSUME NEW O \in SUBSET Supplied, NEW S \in SUBSET SpentOnChain, scan(O, S)
        PROVE  WalletOK(w') /\ SyncOK' /\ sends' \subseteq Sends /\ DiskOK' /\ NodeOK'
    <2> DEFINE utxos == [o \in Outs |-> IF o \in S THEN Null
                                        ELSE IF o \in O THEN [height |-> 0, coinbase |-> FALSE]
                                        ELSE w.utxos[o]]
    <2>1. /\ UNCHANGED <<sync, disk, restarts, node>> /\ sends' = Observed(S)
          /\ w' = [w EXCEPT !.utxos = utxos, !.pending = @ \ S]
      BY <1>6 DEF scan, durable
    <2>2. utxos \in [Outs -> [height : Nat, coinbase : BOOLEAN] \cup {Null}]
      BY <1>1 DEF Wallets
    <2> HIDE DEF utxos
    <2>3. w' \in Wallets /\ w'.scannedHashes = w.scannedHashes
      BY <1>1, <2>1, <2>2 DEF Wallets
    <2>4. WalletOK(w')
      BY <1>1, <2>3, Bookkept
    <2>5. sends' \subseteq Sends
      BY <1>1, <2>1, ObservedTyped
    <2>6. QED
      BY <1>1, <2>1, <2>4, <2>5, SyncStays, NodeStays, DiskStays
  <1>7. CASE newAddress
    <2>1. /\ UNCHANGED <<sync, disk, restarts, node, sends>> /\ w.nextExternal < Gap
          /\ w' = [w EXCEPT !.nextExternal = @ + 1]
      BY <1>7 DEF newAddress, durable
    <2>2. w.nextExternal + 1 \in 0..Gap
      BY <1>1, <2>1, SizesAssumption DEF Wallets
    <2>3. w' \in Wallets /\ w'.scannedHashes = w.scannedHashes
      BY <1>1, <2>1, <2>2 DEF Wallets
    <2>4. WalletOK(w')
      BY <1>1, <2>3, Bookkept
    <2>5. QED
      BY <1>1, <2>1, <2>4, SyncStays, NodeStays, DiskStays
  <1>8. ASSUME NEW N \in SUBSET Selectable, NEW change \in 0..1, buildSend(N, change)
        PROVE  WalletOK(w') /\ SyncOK' /\ sends' \subseteq Sends /\ DiskOK' /\ NodeOK'
    <2>1. /\ UNCHANGED <<sync, disk, restarts, node>>
          /\ w.nextChange + change <= Gap
          /\ w' = [w EXCEPT !.pending = @ \cup N, !.nextChange = @ + change]
          /\ sends' = sends \cup {[inputs |-> N, status |-> "open"]}
      BY <1>8 DEF buildSend, durable
    <2>2. w.nextChange + change \in 0..Gap
      BY <1>1, <2>1, SizesAssumption DEF Wallets
    <2>3. N \subseteq Outs
      BY DEF Selectable, Tracked
    <2>4. w.pending \cup N \subseteq Outs
      BY <1>1, <2>3 DEF Wallets
    <2>5. w' \in Wallets /\ w'.scannedHashes = w.scannedHashes
      BY <1>1, <2>1, <2>2, <2>4 DEF Wallets
    <2>6. WalletOK(w')
      BY <1>1, <2>5, Bookkept
    <2>7. sends' \subseteq Sends
      BY <1>1, <2>1, <2>3 DEF Sends
    <2>8. QED
      BY <1>1, <2>1, <2>6, <2>7, SyncStays, NodeStays, DiskStays
  <1>9. ASSUME NEW s \in sends, markSpent(s)
        PROVE  WalletOK(w') /\ SyncOK' /\ sends' \subseteq Sends /\ DiskOK' /\ NodeOK'
    <2> DEFINE utxos == [o \in Outs |-> IF o \in s.inputs THEN Null ELSE w.utxos[o]]
    <2>1. /\ UNCHANGED <<sync, disk, restarts, node>>
          /\ w' = [w EXCEPT !.utxos = utxos, !.pending = @ \ s.inputs]
          /\ sends' = (sends \ {s}) \cup {[s EXCEPT !.status = "marked"]}
      BY <1>9 DEF markSpent, durable
    <2>2. utxos \in [Outs -> [height : Nat, coinbase : BOOLEAN] \cup {Null}]
      BY <1>1 DEF Wallets
    <2> HIDE DEF utxos
    <2>3. w' \in Wallets /\ w'.scannedHashes = w.scannedHashes
      BY <1>1, <2>1, <2>2 DEF Wallets
    <2>4. WalletOK(w')
      BY <1>1, <2>3, Bookkept
    <2>5. s \in Sends
      BY <1>1
    <2>6. sends' \subseteq Sends
      BY <1>1, <2>1, <2>5 DEF Sends
    <2>7. QED
      BY <1>1, <2>1, <2>4, <2>6, SyncStays, NodeStays, DiskStays
  <1>10. ASSUME NEW s \in sends, release(s)
        PROVE  WalletOK(w') /\ SyncOK' /\ sends' \subseteq Sends /\ DiskOK' /\ NodeOK'
    <2>1. /\ UNCHANGED <<sync, disk, restarts, node>>
          /\ w' = [w EXCEPT !.pending = @ \ s.inputs] /\ sends' = sends \ {s}
      BY <1>10 DEF release, durable
    <2>2. w' \in Wallets /\ w'.scannedHashes = w.scannedHashes
      BY <1>1, <2>1 DEF Wallets
    <2>3. WalletOK(w')
      BY <1>1, <2>2, Bookkept
    <2>4. QED
      BY <1>1, <2>1, <2>3, SyncStays, NodeStays, DiskStays
  <1>11. CASE save
    <2>1. UNCHANGED <<w, sync, restarts, node, sends>> /\ disk' = [wal |-> w, sends |-> sends]
      BY <1>11 DEF save, Image
    <2>2. disk' \in [wal : Wallets, sends : SUBSET Sends] /\ disk'.wal = w
      BY <1>1, <2>1
    <2>3. DiskOK'
      BY <1>1, <2>2 DEF DiskOK, WindowOK, Ascends
    <2>4. QED
      BY <1>1, <2>1, <2>3, SyncStays, NodeStays
  <1>12. CASE Restart
    <2>1. /\ UNCHANGED <<disk, node>> /\ Settle("none") /\ restarts' = restarts + 1
          /\ w' = disk.wal /\ sends' = disk.sends
      BY <1>12 DEF Restart
    <2>2. SyncOK'
      BY <2>1, SettleOK
    <2>3. NodeOK'
      BY <1>1, <2>1 DEF NodeOK, node
    <2>4. WalletOK(w') /\ sends' \subseteq Sends
      BY <1>1, <2>1 DEF DiskOK, WalletOK
    <2>5. QED
      BY <1>1, <2>1, <2>2, <2>3, <2>4, DiskStays
  <1>13. QED
    BY <1>3, <1>4, <1>5, <1>6, <1>7, <1>8, <1>9, <1>10, <1>11, <1>12
       DEF Application, ManualReset, StartSync

LEMMA NodeTyped == ASSUME TypeInv, Grow \/ Reorg PROVE TypeInv'
  <1>1. /\ WalletOK(w) /\ DiskOK /\ SyncOK /\ NodeOK /\ RunOK(run) /\ sends \subseteq Sends
    BY DEF TypeInv, DiskOK, SyncOK
  <1>2. CASE Grow
    <2>1. /\ UNCHANGED <<w, sync, disk, restarts, branch, reorgs, faults, sends>>
          /\ height < Len(branch) /\ height' = height + 1
      BY <1>2 DEF Grow, durable
    <2>2. Len(branch) \in Nat
      BY <1>1, ChainAssumption, LenProperties DEF NodeOK
    <2>3. NodeOK'
      BY <1>1, <2>1, <2>2 DEF NodeOK
    <2>4. QED
      BY <1>1, <2>1, <2>3, WalletNext, SyncStays, DiskStays DEF TypeInv, DiskOK
  <1>3. CASE Reorg
    <2>1. /\ UNCHANGED <<w, run, outcome, disk, restarts, faults, sends>>
          /\ reorgs' = reorgs + 1 /\ branch' \in Chains /\ height' \in 1..Len(branch')
          /\ during' = IF Busy THEN during \cup {branch'} ELSE during
      BY <1>3 DEF Reorg, durable
    <2>2. NodeOK'
      BY <1>1, <2>1 DEF NodeOK
    <2>3. RunOK(run')
      BY <1>1, <2>1
    <2>4. RunOK(run)'
      BY <2>3 DEF RunOK
    <2>5. SyncOK'
      BY <1>1, <2>1, <2>4 DEF SyncOK
    <2>6. QED
      BY <1>1, <2>1, <2>2, <2>5, WalletNext, DiskStays DEF TypeInv, DiskOK
  <1>4. QED
    BY <1>2, <1>3

LEMMA TypesStay == ASSUME TypeInv, UNCHANGED vars PROVE TypeInv'
  <1>1. UNCHANGED <<w, sync, disk, restarts, node, sends>>
    BY DEF vars, durable
  <1>2. WalletOK(w') /\ DiskOK
    BY <1>1 DEF TypeInv, DiskOK
  <1>3. QED
    BY <1>1, <1>2, WalletNext, SyncStays, NodeStays, DiskStays DEF TypeInv, DiskOK

LEMMA TypingStep == TypeInv /\ [Next]_vars => TypeInv'
  BY ProgressTyped, ApplicationTyped, NodeTyped, TypesStay DEF Next

(* Every step keeps the types, and the wallet's window ascending and no    *)
(* longer than REORG_WINDOW, whatever the application feeds or resets and  *)
(* whenever.                                                               *)
THEOREM WalletTypes == Spec => []TypeInv
  <1>1. Init => TypeInv
    BY InitTyped
  <1>2. TypeInv /\ [Next]_vars => TypeInv'
    BY TypingStep
  <1>3. QED
    BY <1>1, <1>2, PTL DEF Spec

(* TypeOK, for every chain, window and chunk size.                         *)
THEOREM WalletTyping == Spec => []TypeOK
  <1>1. TypeInv => TypeOK
    BY DEF TypeInv, TypeOK, WalletOK, SyncOK, RunOK, Runs, NodeOK, Have, To
  <1>2. QED
    BY <1>1, WalletTypes, PTL

-----------------------------------------------------------------------------
(* Reservations. *)

(* An output of a send in S that is marked spent, or was seen spent.       *)
GoneFrom(S, o) == \E t \in S : t.status # "open" /\ o \in t.inputs

(* OpenSendsHold output by output, of a wallet and the sends it knows.     *)
Reserves(wal, S) ==
  \A s \in S : s.status = "open" =>
    /\ \A o \in s.inputs : o \in wal.pending \/ GoneFrom(S, o)
    /\ \A t \in S, o \in s.inputs : t.status = "open" /\ s # t /\ o \in t.inputs => GoneFrom(S, o)

(* A saved state restores wallet and sends together.                       *)
SendsInv == Reserves(w, sends) /\ Reserves(disk.wal, disk.sends)

(* What is seen spent loses its reservation and settles its sends at once. *)
LEMMA ObservedReserves ==
  ASSUME sends \subseteq Sends, Reserves(w, sends), NEW spent, NEW new,
         new.pending = w.pending \ spent
  PROVE  Reserves(new, Observed(spent))
  <1> DEFINE seen(s) == [s EXCEPT !.status = IF s.inputs \cap spent = {} THEN @ ELSE "settled"]
  <1>1. \A s \in sends : /\ seen(s) \in Observed(spent) /\ seen(s).inputs = s.inputs
                         /\ seen(s).status = IF s.inputs \cap spent = {} THEN s.status ELSE "settled"
    BY DEF Observed, Sends
  <1>2. \A x \in Observed(spent) : \E s \in sends : x = seen(s)
    BY DEF Observed
  <1> HIDE DEF seen
  <1>3. \A o : GoneFrom(sends, o) => GoneFrom(Observed(spent), o)
    BY <1>1 DEF GoneFrom
  <1>4. \A s \in sends, o \in spent : o \in s.inputs => GoneFrom(Observed(spent), o)
    <2> SUFFICES ASSUME NEW s \in sends, NEW o \in spent, o \in s.inputs
                 PROVE  GoneFrom(Observed(spent), o)
      OBVIOUS
    <2>1. s.inputs \cap spent # {}
      OBVIOUS
    <2>2. seen(s).status = "settled" /\ seen(s).inputs = s.inputs /\ seen(s) \in Observed(spent)
      BY <1>1, <2>1
    <2>3. QED
      BY <2>2 DEF GoneFrom
  <1>5. ASSUME NEW x \in Observed(spent), x.status = "open"
        PROVE  /\ \A o \in x.inputs : o \in new.pending \/ GoneFrom(Observed(spent), o)
               /\ \A y \in Observed(spent), o \in x.inputs :
                    y.status = "open" /\ x # y /\ o \in y.inputs => GoneFrom(Observed(spent), o)
    <2>1. PICK s \in sends : x = seen(s)
      BY <1>2
    <2>2. x.inputs = s.inputs /\ s.status = "open"
      BY <1>1, <1>5, <2>1
    <2>3. ASSUME NEW o \in x.inputs PROVE o \in new.pending \/ GoneFrom(Observed(spent), o)
      BY <1>3, <1>4, <2>2 DEF Reserves
    <2>4. ASSUME NEW y \in Observed(spent), NEW o \in x.inputs,
                 y.status = "open", x # y, o \in y.inputs
          PROVE  GoneFrom(Observed(spent), o)
      <3>1. PICK t \in sends : y = seen(t)
        BY <1>2
      <3>2. y.inputs = t.inputs /\ t.status = "open" /\ s # t
        BY <1>1, <2>1, <2>4, <3>1
      <3>3. QED
        BY <1>3, <2>2, <2>4, <3>2 DEF Reserves
    <2>5. QED
      BY <2>3, <2>4
  <1>6. QED
    BY <1>5 DEF Reserves

LEMMA ReservesStays ==
  ASSUME NEW a, NEW b, NEW S, Reserves(a, S), a.pending \subseteq b.pending
  PROVE  Reserves(b, S)
  BY DEF Reserves

LEMMA SendsInit == ASSUME Init PROVE SendsInv
  BY DEF Init, SendsInv, Reserves

LEMMA SendsStep == ASSUME TypeInv, SendsInv, [Next]_vars PROVE SendsInv'
  <1>1. WalletOK(w) /\ w \in Wallets /\ WindowOK(w) /\ SyncOK /\ NodeOK /\ sends \subseteq Sends
    BY DEF TypeInv, WalletOK
  <1>2. SUFFICES Reserves(w', sends') /\ Reserves(disk'.wal, disk'.sends)
    BY DEF SendsInv, Reserves, GoneFrom
  <1>3. CASE UNCHANGED <<w, sends>> /\ UNCHANGED disk
    BY <1>3 DEF SendsInv
  <1>4. CASE UNCHANGED disk /\ Reserves(w', sends')
    BY <1>4 DEF SendsInv
  <1>5. ASSUME Progress PROVE UNCHANGED disk /\ Reserves(w', sends')
    <2>1. CASE GetBlockCount \/ TipConfirmed \/ TipContradicted \/ WalkOn \/ SyncFails
      BY <2>1 DEF GetBlockCount, TipConfirmed, TipContradicted, WalkOn, SyncFails, durable, SendsInv
    <2>2. ASSUME NEW h \in Heights, FetchBlock(h) PROVE UNCHANGED disk /\ Reserves(w', sends')
      BY <2>2 DEF FetchBlock, durable, SendsInv
    <2>3. CASE WalkFinds
      <3>1. UNCHANGED <<disk, sends>> /\ (w' = w \/ w' = resetScan(w, run.asked.height))
        BY <2>3 DEF WalkFinds, durable
      <3>2. run.asked.height \in Nat
        BY <1>1 DEF SyncOK, RunOK, Runs
      <3>3. w'.pending = w.pending
        <4>1. CASE w' = w
          BY <4>1
        <4>2. CASE w' = resetScan(w, run.asked.height)
          <5>1. ResetsTo(w', w, run.asked.height)
            BY <1>1, <3>2, <4>2, ResetScanIs
          <5>2. QED
            BY <5>1 DEF ResetsTo
        <4>3. QED
          BY <3>1, <4>1, <4>2
      <3>4. Reserves(w', sends)
        BY <3>3, ReservesStays DEF SendsInv
      <3>5. QED
        BY <3>1, <3>4
    <2>4. CASE ScanChunk
      <3>1. /\ UNCHANGED disk /\ run.pc = "fetch" /\ Have = run.from..To
            /\ w' = Scanned.wal /\ sends' = Observed(Scanned.spent)
        BY <2>4 DEF ScanChunk, durable
      <3>2. w'.pending = w.pending \ Scanned.spent
        BY <1>1, <3>1, PartsOfChunk, ScannedTyped DEF SyncOK
      <3>3. Reserves(w', Observed(Scanned.spent))
        BY <1>1, <3>2, ObservedReserves DEF SendsInv
      <3>4. QED
        BY <3>1, <3>3
    <2>5. ASSUME NEW h \in run.from..(To + 1), ScanBreaks(h)
          PROVE  UNCHANGED disk /\ Reserves(w', sends')
      <3> DEFINE part == ScannedTo(h - 1)
      <3>1. /\ UNCHANGED disk /\ run.pc = "fetch" /\ Have = run.from..To
            /\ w' = part.wal /\ sends' = Observed(part.spent)
        BY <2>5 DEF ScanBreaks, durable
      <3>2. part.wal.pending = w.pending \ part.spent
        BY <1>1, <3>1, PartsOfChunk, ScannedTyped DEF SyncOK
      <3> HIDE DEF part
      <3>3. Reserves(w', Observed(part.spent))
        BY <1>1, <3>1, <3>2, ObservedReserves DEF SendsInv
      <3>4. QED
        BY <3>1, <3>3
    <2>6. QED
      BY <1>5, <2>1, <2>2, <2>3, <2>4, <2>5 DEF Progress
  <1>6. CASE StartSync
    BY <1>6, <1>3 DEF StartSync, SyncStart, durable
  <1>7. ASSUME NEW h \in Heights, Reset(h) PROVE UNCHANGED disk /\ Reserves(w', sends')
    <2>1. UNCHANGED <<disk, sends>> /\ w' = resetScan(w, h) /\ h \in Nat
      BY <1>7, HeightsAreNat DEF Reset, durable
    <2>2. ResetsTo(w', w, h)
      BY <1>1, <2>1, ResetScanIs
    <2>3. w'.pending = w.pending
      BY <2>2 DEF ResetsTo
    <2>4. Reserves(w', sends)
      BY <2>3, ReservesStays DEF SendsInv
    <2>5. QED
      BY <2>1, <2>4
  <1>8. ASSUME NEW h \in Heights, NEW hash \in Hashes \cup {Null}, FeedBlock(h, hash)
        PROVE  UNCHANGED disk /\ Reserves(w', sends')
    <2> DEFINE b == branch[h]
    <2>1. /\ UNCHANGED disk /\ h \in 1..height
          /\ w' = scanBlock(w, h, b, hash) /\ sends' = Observed(b.spends)
      BY <1>8 DEF FeedBlock, durable
    <2>2. h \in Nat /\ b \in Blocks
      <3>1. h \in Nat \ {0} /\ h <= height
        BY <2>1, HeightsAreNat
      <3>2. QED
        BY <1>1, <3>1, BlockOf
    <2> HIDE DEF b
    <2>3. ScansTo(w', w, h, b, hash)
      BY <1>1, <2>1, <2>2, ScanBlockIs
    <2>4. w'.pending = w.pending \ b.spends
      BY <2>3 DEF ScansTo
    <2>5. Reserves(w', Observed(b.spends))
      BY <1>1, <2>4, ObservedReserves DEF SendsInv
    <2>6. QED
      BY <2>1, <2>5
  <1>9. ASSUME NEW O \in SUBSET Supplied, NEW S \in SUBSET SpentOnChain, scan(O, S)
        PROVE  UNCHANGED disk /\ Reserves(w', sends')
    <2> DEFINE utxos == [o \in Outs |-> IF o \in S THEN Null
                                        ELSE IF o \in O THEN [height |-> 0, coinbase |-> FALSE]
                                        ELSE w.utxos[o]]
    <2>1. /\ UNCHANGED disk /\ sends' = Observed(S)
          /\ w' = [w EXCEPT !.utxos = utxos, !.pending = @ \ S]
      BY <1>9 DEF scan, durable
    <2> HIDE DEF utxos
    <2>2. w'.pending = w.pending \ S
      BY <1>1, <2>1 DEF Wallets
    <2>3. Reserves(w', Observed(S))
      BY <1>1, <2>2, ObservedReserves DEF SendsInv
    <2>4. QED
      BY <2>1, <2>3
  <1>10. CASE newAddress
    <2>1. UNCHANGED <<disk, sends>> /\ w' = [w EXCEPT !.nextExternal = @ + 1]
      BY <1>10 DEF newAddress, durable
    <2>2. w'.pending = w.pending
      BY <1>1, <2>1 DEF Wallets
    <2>3. Reserves(w', sends)
      BY <2>2, ReservesStays DEF SendsInv
    <2>4. QED
      BY <1>4, <2>1, <2>3
  <1>11. ASSUME NEW N \in SUBSET Selectable, NEW change \in 0..1, buildSend(N, change)
         PROVE  UNCHANGED disk /\ Reserves(w', sends')
    <2> DEFINE new == [inputs |-> N, status |-> "open"]
    <2>1. /\ UNCHANGED disk
          /\ w' = [w EXCEPT !.pending = @ \cup N, !.nextChange = @ + change]
          /\ sends' = sends \cup {new}
      BY <1>11 DEF buildSend, durable
    <2>2. w'.pending = w.pending \cup N
      BY <1>1, <2>1 DEF Wallets
    <2>3. new.inputs = N /\ new.status = "open"
      OBVIOUS
    <2>4. N \cap w.pending = {}
      BY DEF Selectable
    <2> HIDE DEF new
    <2>5. \A o : GoneFrom(sends, o) => GoneFrom(sends', o)
      BY <2>1 DEF GoneFrom
    <2>6. ASSUME NEW s \in sends', s.status = "open", NEW o \in s.inputs
          PROVE  o \in w'.pending \/ GoneFrom(sends', o)
      BY <2>1, <2>2, <2>3, <2>5, <2>6 DEF SendsInv, Reserves
    <2>7. ASSUME NEW s \in sends', s.status = "open", NEW o \in s.inputs,
                 NEW t \in sends', t.status = "open", s # t, o \in t.inputs
          PROVE  GoneFrom(sends', o)
      <3>1. CASE s = new \/ t = new
        <4>1. o \in N /\ \E u \in sends : u.status = "open" /\ o \in u.inputs
          BY <2>1, <2>3, <2>7, <3>1
        <4>2. o \notin w.pending
          BY <2>4, <4>1
        <4>3. GoneFrom(sends, o)
          BY <4>1, <4>2 DEF SendsInv, Reserves
        <4>4. QED
          BY <2>5, <4>3
      <3>2. CASE s # new /\ t # new
        <4>1. s \in sends /\ t \in sends
          BY <2>1, <3>2
        <4>2. GoneFrom(sends, o)
          BY <2>7, <4>1 DEF SendsInv, Reserves
        <4>3. QED
          BY <2>5, <4>2
      <3>3. QED
        BY <3>1, <3>2
    <2>8. QED
      BY <2>1, <2>6, <2>7 DEF Reserves
  <1>12. ASSUME NEW s \in sends, markSpent(s) PROVE UNCHANGED disk /\ Reserves(w', sends')
    <2> DEFINE marked == [s EXCEPT !.status = "marked"]
    <2>1. /\ UNCHANGED disk
          /\ w' = [w EXCEPT !.utxos = [o \in Outs |-> IF o \in s.inputs THEN Null ELSE @[o]],
                            !.pending = @ \ s.inputs]
          /\ sends' = (sends \ {s}) \cup {marked}
      BY <1>12 DEF markSpent, durable
    <2>2. w'.pending = w.pending \ s.inputs
      BY <1>1, <2>1 DEF Wallets
    <2>3. marked.inputs = s.inputs /\ marked.status = "marked"
      BY <1>1 DEF Sends
    <2> HIDE DEF marked
    <2>4. \A o \in s.inputs : GoneFrom(sends', o)
      BY <2>1, <2>3 DEF GoneFrom
    <2>5. \A o : GoneFrom(sends, o) => GoneFrom(sends', o)
      BY <2>1, <2>4 DEF GoneFrom
    <2>6. \A t \in sends' : t.status = "open" => t \in sends
      BY <2>1, <2>3
    <2>7. QED
      BY <2>1, <2>2, <2>4, <2>5, <2>6 DEF SendsInv, Reserves
  <1>13. ASSUME NEW s \in sends, release(s) PROVE UNCHANGED disk /\ Reserves(w', sends')
    <2>1. /\ UNCHANGED disk /\ s.status = "open"
          /\ w' = [w EXCEPT !.pending = @ \ s.inputs] /\ sends' = sends \ {s}
      BY <1>13 DEF release, durable
    <2>2. w'.pending = w.pending \ s.inputs
      BY <1>1, <2>1 DEF Wallets
    <2>3. \A o : GoneFrom(sends, o) => GoneFrom(sends', o)
      BY <2>1 DEF GoneFrom
    <2>4. QED
      BY <2>1, <2>2, <2>3 DEF SendsInv, Reserves
  <1>14. CASE save
    <2>1. UNCHANGED <<w, sends>> /\ disk' = [wal |-> w, sends |-> sends]
      BY <1>14 DEF save, Image
    <2>2. QED
      BY <2>1 DEF SendsInv
  <1>15. CASE Restart
    BY <1>15 DEF Restart, SendsInv
  <1>16. CASE Grow \/ Reorg
    BY <1>16, <1>3 DEF Grow, Reorg, durable
  <1>17. CASE UNCHANGED vars
    BY <1>17, <1>3 DEF vars, durable
  <1>18. CASE Application
    <2>1. CASE ManualReset
      BY <2>1, <1>4, <1>7 DEF ManualReset
    <2>2. QED
      BY <1>18, <2>1, <1>4, <1>6, <1>8, <1>9, <1>10, <1>11, <1>12, <1>13, <1>14, <1>15
         DEF Application
  <1>19. QED
    BY <1>4, <1>5, <1>16, <1>17, <1>18 DEF Next

(* Through reorgs, re-scans, resets at any moment, crashes and restores:   *)
(* the inputs of an open send stay reserved and no two open sends share    *)
(* one, up to outputs that were already marked or seen spent.  The same    *)
(* holds of every saved state with the sends known when it was written.    *)
THEOREM ReservationsHold == Spec => []OpenSendsHold
  <1>1. Init => TypeInv /\ SendsInv
    BY InitTyped, SendsInit
  <1>2. TypeInv /\ SendsInv /\ [Next]_vars => TypeInv' /\ SendsInv'
    BY TypingStep, SendsStep
  <1>3. SendsInv => OpenSendsHold
    <2> SUFFICES ASSUME SendsInv PROVE OpenSendsHold
      OBVIOUS
    <2>1. \A o : GoneFrom(sends, o) => o \in SeenSpent
      BY DEF GoneFrom, SeenSpent
    <2>2. QED
      BY <2>1 DEF SendsInv, Reserves, OpenSendsHold
  <1>4. QED
    BY <1>1, <1>2, <1>3, PTL DEF Spec

-----------------------------------------------------------------------------
(* The hashes a walk-back trusts. *)

(* Every window entry, and the hash of the position, names a block the     *)
(* wallet still counts as scanned, not above the position.                 *)
Trusted(wal) ==
  /\ \A i \in 1..Len(wal.scannedHashes) :
       wal.scannedHashes[i].height <= wal.lastScanned /\ wal.scannedHashes[i] \in wal.trail
  /\ wal.lastScannedHash # Null =>
       [height |-> wal.lastScanned, hash |-> wal.lastScannedHash] \in wal.trail

TrustInv == Trusted(w) /\ Trusted(disk.wal)

(* Blocks without a hash leave entries above the position in the window.   *)
HashesKnown == Feeding => ~Hashless

LEMMA ScanTrusted ==
  ASSUME NEW wal \in Wallets, WindowOK(wal), Trusted(wal), NEW h \in Nat, NEW b \in Blocks,
         NEW new, new = scanBlock(wal, h, b, b.hash)
  PROVE  Trusted(new)
  <1>1. b.hash \in Hashes /\ b.hash # Null
    BY ChainAssumption DEF Hashes
  <1>2. new \in Wallets /\ ScansTo(new, wal, h, b, b.hash)
    BY <1>1, ScanBlockIs
  <1> DEFINE old == wal.scannedHashes  win == new.scannedHashes
             entry == [height |-> h, hash |-> b.hash]
  <1>3. /\ win = Recorded(old, h, b.hash) /\ new.lastScanned = h /\ new.lastScannedHash = b.hash
        /\ new.trail = {e \in wal.trail : e.height # h} \cup {entry}
    BY <1>2 DEF ScansTo
  <1>4. old \in Seq(Entries) /\ Ascends(old) /\ \A j \in 1..Len(old) : old[j] \in wal.trail
    BY DEF Wallets, WindowOK, Trusted
  <1>5. \A i \in 1..Len(win) : \/ win[i] = entry
                               \/ win[i].height < h /\ \E j \in 1..Len(old) : win[i] = old[j]
    BY <1>1, <1>3, <1>4, RecordedWindow
  <1>6. win \in Seq(Entries)
    BY <1>1, <1>3, <1>4, RecordedWindow
  <1>7. entry.height = h
    OBVIOUS
  <1> HIDE DEF win, old, entry
  <1>8. ASSUME NEW i \in 1..Len(win) PROVE win[i].height <= h /\ win[i] \in new.trail
    <2>1. CASE win[i] = entry
      BY <1>3, <1>7, <2>1
    <2>2. CASE win[i].height < h /\ \E j \in 1..Len(old) : win[i] = old[j]
      <3>1. win[i] \in Entries
        BY <1>6, ElementOfSeq
      <3>2. win[i].height \in Nat
        BY <3>1 DEF Entries
      <3>3. win[i].height <= h /\ win[i].height # h
        BY <2>2, <3>2
      <3>4. QED
        BY <1>3, <1>4, <2>2, <3>3
    <2>3. QED
      BY <1>5, <2>1, <2>2
  <1>9. [height |-> new.lastScanned, hash |-> new.lastScannedHash] \in new.trail
    BY <1>3 DEF entry
  <1>10. QED
    BY <1>3, <1>8, <1>9 DEF Trusted, win

LEMMA ResetTrusted ==
  ASSUME NEW wal \in Wallets, WindowOK(wal), Trusted(wal), NEW h \in Nat,
         NEW new, new = resetScan(wal, h)
  PROVE  Trusted(new)
  <1>1. new \in Wallets /\ ResetsTo(new, wal, h)
    BY ResetScanIs
  <1> DEFINE old == wal.scannedHashes  win == new.scannedHashes
             entry == [height |-> h, hash |-> HashAt(old, h)]
  <1>2. /\ win = Popped(old, h + 1) /\ new.lastScanned = h
        /\ new.lastScannedHash = HashAt(old, h)
        /\ new.trail = {e \in wal.trail : e.height <= h}
    BY <1>1 DEF ResetsTo
  <1>3. old \in Seq(Entries) /\ Ascends(old) /\ \A j \in 1..Len(old) : old[j] \in wal.trail
    BY DEF Wallets, WindowOK, Trusted
  <1>4. \/ HashAt(old, h) = Null
        \/ \E i \in 1..Len(old) : old[i] = entry
    BY <1>3, HashAtIs
  <1>5. entry.height = h
    OBVIOUS
  <1>6. h + 1 \in Nat
    OBVIOUS
  <1> HIDE DEF win, old, entry
  <1>7. /\ win \in Seq(Entries)
        /\ \A i \in 1..Len(win) : win[i].height < h + 1 /\ \E j \in 1..Len(old) : win[i] = old[j]
    BY <1>2, <1>3, <1>6, PoppedWindow
  <1>8. ASSUME NEW i \in 1..Len(win) PROVE win[i].height <= h /\ win[i] \in new.trail
    <2>1. win[i] \in Entries
      BY <1>7, ElementOfSeq
    <2>2. win[i].height \in Nat
      BY <2>1 DEF Entries
    <2>3. win[i].height <= h
      BY <1>7, <2>2
    <2>4. QED
      BY <1>2, <1>3, <1>7, <2>3
  <1>9. new.lastScannedHash # Null =>
          [height |-> new.lastScanned, hash |-> new.lastScannedHash] \in new.trail
    <2> SUFFICES ASSUME new.lastScannedHash # Null
                 PROVE  [height |-> new.lastScanned, hash |-> new.lastScannedHash] \in new.trail
      OBVIOUS
    <2>1. entry \in wal.trail /\ entry.height <= h
      BY <1>2, <1>3, <1>4, <1>5
    <2>2. QED
      BY <1>2, <2>1 DEF entry
  <1>10. QED
    BY <1>2, <1>8, <1>9 DEF Trusted, win

LEMMA ScannedTrusted ==
  ASSUME TypeInv, Trusted(w), run.pc = "fetch", Have = run.from..To,
         NEW top \in (run.from - 1)..To
  PROVE  Trusted(ScannedTo(top).wal)
  <1> DEFINE Good(p) == WindowOK(p.wal) /\ Trusted(p.wal)
             S == [h \in (run.from - 1)..To |-> {p \in States : Good(p)}]
  <1>1. run.from \in Nat /\ To \in Nat /\ run.from <= To
    BY ChunkIs DEF TypeInv, SyncOK
  <1>2. Started \in S[run.from - 1]
    <2>1. w \in Wallets /\ WindowOK(w)
      BY DEF TypeInv, WalletOK
    <2>2. Started \in States /\ WindowOK(Started.wal) /\ Trusted(Started.wal)
      BY <2>1, SkippingIs DEF Started, States, Trusted
    <2>3. run.from - 1 \in (run.from - 1)..To
      BY <1>1
    <2>4. QED
      BY <2>1, <2>2, <2>3
  <1>3. ASSUME NEW h \in run.from..To, NEW p \in S[h - 1] PROVE After(p, h) \in S[h]
    <2> DEFINE b == run.fetched[h]
               new == scanBlock(p.wal, h, b, b.hash)
    <2>1. h \in Nat /\ h \in (run.from - 1)..To /\ h - 1 \in (run.from - 1)..To
      BY <1>1
    <2>2. p \in States /\ WindowOK(p.wal) /\ Trusted(p.wal)
      BY <2>1
    <2>3. b \in Blocks
      BY <2>1 DEF TypeInv, SyncOK, RunOK, Runs, Have
    <2>4. /\ After(p, h) \in States /\ WindowOK(After(p, h).wal)
          /\ After(p, h).wal = p.wal \/ After(p, h).wal = new
      BY <2>1, <2>2, <2>3, AfterIs
    <2>5. Trusted(new)
      <3>1. p.wal \in Wallets /\ new = scanBlock(p.wal, h, b, b.hash)
        BY <2>2 DEF States
      <3> HIDE DEF new, b, S
      <3>2. QED
        BY <2>1, <2>2, <2>3, <3>1, ScanTrusted
    <2>6. Trusted(After(p, h).wal)
      BY <2>2, <2>4, <2>5
    <2>7. QED
      BY <2>1, <2>4, <2>6
  <1> HIDE DEF S
  <1>4. ScannedTo(top) \in S[top]
    BY <1>1, <1>2, <1>3, ScannedStepwise
  <1>5. QED
    BY <1>4 DEF S

LEMMA TrustedStays ==
  ASSUME NEW a, NEW b, Trusted(a), a.scannedHashes = b.scannedHashes,
         a.lastScanned = b.lastScanned, a.lastScannedHash = b.lastScannedHash, a.trail = b.trail
  PROVE  Trusted(b)
  BY DEF Trusted

LEMMA TrustInit == ASSUME Init PROVE TrustInv
  <1>1. w = Empty /\ disk.wal = Empty
    BY DEF Init
  <1>2. Len(<<>>) = 0
    BY EmptySeq
  <1>3. Trusted(Empty)
    BY <1>2 DEF Trusted, Empty
  <1>4. QED
    BY <1>1, <1>3 DEF TrustInv

(* The calls that neither scan nor reset: at most they forget an output,   *)
(* or track one the application supplied, at height 0.                     *)
SameChain(new, old) ==
  /\ new.scannedHashes = old.scannedHashes /\ new.lastScanned = old.lastScanned
  /\ new.lastScannedHash = old.lastScannedHash /\ new.trail = old.trail
  /\ new.skipped = old.skipped
  /\ \A o \in Outs : \/ new.utxos[o] = old.utxos[o] \/ new.utxos[o] = Null
                     \/ new.utxos[o] = [height |-> 0, coinbase |-> FALSE]

Bookkeeping ==
  \/ \E O \in SUBSET Supplied, S \in SUBSET SpentOnChain : scan(O, S)
  \/ newAddress
  \/ \E N \in SUBSET Selectable, change \in 0..1 : buildSend(N, change)
  \/ \E s \in sends : markSpent(s) \/ release(s)

LEMMA BookkeepingIs ==
  ASSUME TypeInv, Bookkeeping
  PROVE  SameChain(w', w) /\ UNCHANGED <<sync, disk, restarts, node>>
  <1>1. w \in Wallets
    BY DEF TypeInv, WalletOK
  <1>2. ASSUME NEW O \in SUBSET Supplied, NEW S \in SUBSET SpentOnChain, scan(O, S)
        PROVE  SameChain(w', w) /\ UNCHANGED <<sync, disk, restarts, node>>
    <2> DEFINE utxos == [o \in Outs |-> IF o \in S THEN Null
                                        ELSE IF o \in O THEN [height |-> 0, coinbase |-> FALSE]
                                        ELSE w.utxos[o]]
    <2>1. /\ UNCHANGED <<sync, disk, restarts, node>>
          /\ w' = [w EXCEPT !.utxos = utxos, !.pending = @ \ S]
      BY <1>2 DEF scan, durable
    <2>2. \A o \in Outs : \/ utxos[o] = w.utxos[o] \/ utxos[o] = Null
                          \/ utxos[o] = [height |-> 0, coinbase |-> FALSE]
      OBVIOUS
    <2> HIDE DEF utxos
    <2>3. SameChain(w', w)
      BY <1>1, <2>1, <2>2 DEF SameChain, Wallets
    <2>4. QED
      BY <2>1, <2>3
  <1>3. CASE newAddress
    <2>1. /\ UNCHANGED <<sync, disk, restarts, node>>
          /\ w' = [w EXCEPT !.nextExternal = @ + 1]
      BY <1>3 DEF newAddress, durable
    <2>2. SameChain(w', w)
      BY <1>1, <2>1 DEF SameChain, Wallets
    <2>3. QED
      BY <2>1, <2>2
  <1>4. ASSUME NEW N \in SUBSET Selectable, NEW change \in 0..1, buildSend(N, change)
        PROVE  SameChain(w', w) /\ UNCHANGED <<sync, disk, restarts, node>>
    <2>1. /\ UNCHANGED <<sync, disk, restarts, node>>
          /\ w' = [w EXCEPT !.pending = @ \cup N, !.nextChange = @ + change]
      BY <1>4 DEF buildSend, durable
    <2>2. SameChain(w', w)
      BY <1>1, <2>1 DEF SameChain, Wallets
    <2>3. QED
      BY <2>1, <2>2
  <1>5. ASSUME NEW s \in sends, markSpent(s)
        PROVE  SameChain(w', w) /\ UNCHANGED <<sync, disk, restarts, node>>
    <2> DEFINE utxos == [o \in Outs |-> IF o \in s.inputs THEN Null ELSE w.utxos[o]]
    <2>1. /\ UNCHANGED <<sync, disk, restarts, node>>
          /\ w' = [w EXCEPT !.utxos = utxos, !.pending = @ \ s.inputs]
      BY <1>5 DEF markSpent, durable
    <2>2. \A o \in Outs : utxos[o] = w.utxos[o] \/ utxos[o] = Null
      OBVIOUS
    <2> HIDE DEF utxos
    <2>3. SameChain(w', w)
      BY <1>1, <2>1, <2>2 DEF SameChain, Wallets
    <2>4. QED
      BY <2>1, <2>3
  <1>6. ASSUME NEW s \in sends, release(s)
        PROVE  SameChain(w', w) /\ UNCHANGED <<sync, disk, restarts, node>>
    <2>1. UNCHANGED <<sync, disk, restarts, node>> /\ w' = [w EXCEPT !.pending = @ \ s.inputs]
      BY <1>6 DEF release, durable
    <2>2. SameChain(w', w)
      BY <1>1, <2>1 DEF SameChain, Wallets
    <2>3. QED
      BY <2>1, <2>2
  <1>7. QED
    BY <1>2, <1>3, <1>4, <1>5, <1>6 DEF Bookkeeping

LEMMA TrustStep == ASSUME TypeInv, TrustInv, HashesKnown, [Next]_vars PROVE TrustInv'
  <1>1. WalletOK(w) /\ w \in Wallets /\ WindowOK(w) /\ SyncOK /\ NodeOK
    BY DEF TypeInv, WalletOK
  <1>2. SUFFICES Trusted(w') /\ Trusted(disk'.wal)
    BY DEF TrustInv, Trusted
  <1>3. CASE UNCHANGED <<w, disk>>
    BY <1>3 DEF TrustInv
  <1>4. CASE UNCHANGED disk /\ Trusted(w')
    BY <1>4 DEF TrustInv
  <1>5. CASE Progress
    <2>1. CASE GetBlockCount \/ TipConfirmed \/ TipContradicted \/ WalkOn \/ SyncFails
      BY <1>3, <2>1 DEF GetBlockCount, TipConfirmed, TipContradicted, WalkOn, SyncFails, durable
    <2>2. ASSUME NEW h \in Heights, FetchBlock(h) PROVE UNCHANGED <<w, disk>>
      BY <2>2 DEF FetchBlock, durable
    <2>3. CASE WalkFinds
      <3>1. UNCHANGED disk /\ (w' = w \/ w' = resetScan(w, run.asked.height))
        BY <2>3 DEF WalkFinds, durable
      <3>2. run.asked.height \in Nat
        BY <1>1 DEF SyncOK, RunOK, Runs
      <3>3. w' = resetScan(w, run.asked.height) => Trusted(w')
        BY <1>1, <3>2, ResetTrusted DEF TrustInv
      <3>4. QED
        BY <1>3, <1>4, <3>1, <3>3
    <2>4. CASE ScanChunk
      <3>1. /\ UNCHANGED disk /\ run.pc = "fetch" /\ Have = run.from..To /\ w' = Scanned.wal
        BY <2>4 DEF ScanChunk, durable
      <3>2. QED
        BY <1>1, <1>4, <3>1, PartsOfChunk, ScannedTrusted DEF TrustInv, SyncOK
    <2>5. ASSUME NEW h \in run.from..(To + 1), ScanBreaks(h) PROVE UNCHANGED disk /\ Trusted(w')
      <3>1. /\ UNCHANGED disk /\ run.pc = "fetch" /\ Have = run.from..To
            /\ w' = ScannedTo(h - 1).wal
        BY <2>5 DEF ScanBreaks, durable
      <3>2. QED
        BY <1>1, <3>1, PartsOfChunk, ScannedTrusted DEF TrustInv, SyncOK
    <2>6. QED
      BY <1>3, <1>4, <1>5, <2>1, <2>2, <2>3, <2>4, <2>5 DEF Progress
  <1>6. CASE StartSync
    BY <1>3, <1>6 DEF StartSync, SyncStart, durable
  <1>7. ASSUME NEW h \in Heights, Reset(h) PROVE UNCHANGED disk /\ Trusted(w')
    <2>1. UNCHANGED disk /\ w' = resetScan(w, h) /\ h \in Nat
      BY <1>7, HeightsAreNat DEF Reset, durable
    <2>2. QED
      BY <1>1, <2>1, ResetTrusted DEF TrustInv
  <1>8. ASSUME NEW h \in Heights, NEW hash \in Hashes \cup {Null}, FeedBlock(h, hash)
        PROVE  UNCHANGED disk /\ Trusted(w')
    <2> DEFINE b == branch[h]
    <2>1. UNCHANGED disk /\ h \in 1..height /\ w' = scanBlock(w, h, b, b.hash)
      BY <1>8 DEF FeedBlock, durable, HashesKnown
    <2>2. h \in Nat /\ b \in Blocks
      <3>1. h \in Nat \ {0} /\ h <= height
        BY <2>1, HeightsAreNat
      <3>2. QED
        BY <1>1, <3>1, BlockOf
    <2> HIDE DEF b
    <2>3. QED
      BY <1>1, <2>1, <2>2, ScanTrusted DEF TrustInv
  <1>9. CASE Bookkeeping
    <2>1. SameChain(w', w) /\ UNCHANGED disk
      BY <1>9, BookkeepingIs
    <2>2. Trusted(w')
      BY <2>1, TrustedStays DEF SameChain, TrustInv
    <2>3. QED
      BY <1>4, <2>1, <2>2
  <1>10. CASE save
    <2>1. UNCHANGED w /\ disk' = [wal |-> w, sends |-> sends]
      BY <1>10 DEF save, Image
    <2>2. QED
      BY <2>1 DEF TrustInv
  <1>11. CASE Restart
    BY <1>11 DEF Restart, TrustInv
  <1>12. CASE Grow \/ Reorg \/ UNCHANGED vars
    BY <1>3, <1>12 DEF Grow, Reorg, vars, durable
  <1>13. CASE Application
    BY <1>13, <1>4, <1>6, <1>7, <1>8, <1>9, <1>10, <1>11 DEF Application, ManualReset, Bookkeeping
  <1>14. QED
    BY <1>5, <1>12, <1>13 DEF Next

LEMMA HashesTrusted == HashesKnown => (Spec => []TrustInv)
  <1> SUFFICES ASSUME HashesKnown PROVE Spec => []TrustInv
    OBVIOUS
  <1>1. Init => TypeInv /\ TrustInv
    BY InitTyped, TrustInit
  <1>2. TypeInv /\ TrustInv /\ [Next]_vars => TypeInv' /\ TrustInv'
    BY TypingStep, TrustStep
  <1>3. QED
    BY <1>1, <1>2, PTL DEF Spec

(* What is saved can be loaded, provided no block is fed without a hash:   *)
(* the window ascends, is no longer than REORG_WINDOW, and has nothing     *)
(* above the position, after any feeding, replaying and resetting.         *)
THEOREM SavedStatesLoad == HashesKnown => (Spec => []SavedStateLoads)
  <1> SUFFICES ASSUME HashesKnown PROVE Spec => []SavedStateLoads
    OBVIOUS
  <1>1. Spec => []TrustInv
    BY HashesTrusted
  <1>2. TypeInv /\ TrustInv => SavedStateLoads
    <2> SUFFICES ASSUME TypeInv, TrustInv PROVE SavedStateLoads
      OBVIOUS
    <2>1. /\ w.scannedHashes \in Seq(Entries) /\ Ascends(w.scannedHashes)
          /\ Len(w.scannedHashes) <= Window
      BY DEF TypeInv, WalletOK, WindowOK, Wallets
    <2>2. DOMAIN w.scannedHashes = 1..Len(w.scannedHashes) /\ Len(w.scannedHashes) \in Nat
      BY <2>1, LenProperties
    <2>3. ASSUME NEW i \in 1..Len(w.scannedHashes), i > 1
          PROVE  w.scannedHashes[i - 1].height < w.scannedHashes[i].height
      <3>1. i - 1 \in 1..Len(w.scannedHashes) /\ i - 1 < i
        BY <2>2, <2>3
      <3>2. QED
        BY <2>1, <3>1 DEF Ascends
    <2>4. QED
      BY <2>1, <2>2, <2>3 DEF SavedStateLoads, Loadable, TrustInv, Trusted
  <1>3. QED
    BY <1>1, <1>2, WalletTypes, PTL

(* A walk-back compares the node with the blocks the tracked outputs came  *)
(* from: no stale hash is left in the window or restored by a reset.       *)
THEOREM WindowIsTrue == HashesKnown => (Spec => []WindowTrue)
  <1> SUFFICES ASSUME HashesKnown PROVE Spec => []WindowTrue
    OBVIOUS
  <1>1. Spec => []TrustInv
    BY HashesTrusted
  <1>2. TypeInv /\ TrustInv => WindowTrue
    <2> SUFFICES ASSUME TypeInv, TrustInv PROVE WindowTrue
      OBVIOUS
    <2>1. DOMAIN w.scannedHashes = 1..Len(w.scannedHashes)
      BY LenProperties DEF TypeInv, WalletOK, Wallets
    <2>2. QED
      BY <2>1 DEF WindowTrue, TrustInv, Trusted
  <1>3. QED
    BY <1>1, <1>2, WalletTypes, PTL

-----------------------------------------------------------------------------
(* Chains. *)

LEMMA ChainIs ==
  ASSUME NEW c \in Chains
  PROVE  /\ c \in Seq(Blocks) /\ Len(c) \in Nat
         /\ \A i \in 1..Len(c) : c[i] \in Blocks
  BY ChainAssumption, LenProperties, ElementOfSeq

(* The block a wallet knows by its height and hash.                        *)
LEMMA BlockIs ==
  ASSUME NEW c \in Chains, NEW i \in 1..Len(c), NEW e, e.hash = c[i].hash
  PROVE  Block(e) = c[i]
  <1>1. c[i] \in Blocks
    BY ChainIs
  <1>2. ASSUME NEW b \in Blocks, b.hash = e.hash PROVE b = c[i]
    <2>1. PICK d \in Chains : \E j \in 1..Len(d) : b = d[j]
      BY DEF Blocks
    <2>2. PICK j \in 1..Len(d) : b = d[j]
      BY <2>1
    <2>3. QED
      BY <1>2, <2>2, ChainAssumption
  <1> DEFINE b == CHOOSE x \in Blocks : x.hash = e.hash
  <1>3. b \in Blocks /\ b.hash = e.hash
    BY <1>1
  <1>4. b = c[i]
    BY <1>2, <1>3
  <1>5. QED
    BY <1>4 DEF Block

-----------------------------------------------------------------------------
(* A wallet that only syncs. *)

LEMMA BlockOnChain ==
  ASSUME NEW c \in Chains, NEW e, e.height \in Nat \ {0}, OnChain(e, c)
  PROVE  e.height \in 1..Len(c) /\ Block(e) = c[e.height] /\ c[e.height].hash = e.hash
  <1>1. e.height \in 1..Len(c) /\ c[e.height].hash = e.hash
    BY ChainIs DEF OnChain
  <1>2. QED
    BY <1>1, BlockIs

(* One block at a height, and each followed by a child of it.              *)
Linked(wal) ==
  \A e, f \in wal.trail : /\ e.height = f.height => e = f
                          /\ f.height = e.height + 1 => Block(f).prev = e.hash

Rooted(wal) ==
  \A o \in Outs :
    wal.utxos[o] # Null /\ wal.utxos[o].height > 0 =>
      /\ \E e \in wal.trail : e.height = wal.utxos[o].height /\ o \in Block(e).pays
      /\ \A e \in wal.trail : wal.utxos[o].height <= e.height => o \notin Block(e).spends

(* The block at the scan position, if it was scanned, is of chain c.       *)
Topped(wal, c) == \A e \in wal.trail : e.height = wal.lastScanned => OnChain(e, c)

(* Once the hash of the position is lost, the block there is one that      *)
(* every chain shares: the next sync will not look back.                   *)
OneChain(wal) ==
  /\ \A e \in wal.trail : e.height \in 1..wal.lastScanned /\ \E c \in Chains : OnChain(e, c)
  /\ \A h \in 1..wal.lastScanned : h \in wal.skipped \/ \E e \in wal.trail : e.height = h
  /\ Linked(wal)
  /\ wal.lastScannedHash = Null => \A c \in Chains : Topped(wal, c)
  /\ Rooted(wal)

(* What is scanned without a hole below a block of a chain is of that      *)
(* chain: a step down from block to parent, as long as there is one.       *)
LEMMA StretchOnChain ==
  ASSUME NEW wal \in Wallets, OneChain(wal), NEW c \in Chains,
         NEW e \in wal.trail, OnChain(e, c),
         NEW f \in wal.trail, f.height <= e.height, Unbroken(wal, f.height, e.height)
  PROVE  OnChain(f, c)
  <1> DEFINE n == e.height  m == f.height
             S == {k \in 0..(n - m) : \A g \in wal.trail : g.height = n - k => OnChain(g, c)}
  <1>1. n \in Nat /\ m \in Nat /\ m >= 1 /\ m <= n /\ Len(c) \in Nat
    BY ChainIs DEF OneChain, Wallets
  <1>2. \A i \in m..n : \E g \in wal.trail : g.height = i
    BY DEF Unbroken
  <1>3. \A g \in wal.trail : g.height = n => g = e
    BY DEF OneChain, Linked
  <1> HIDE DEF n, m
  <1>4. 0 \in S
    <2>1. 0 \in 0..(n - m) /\ n - 0 = n
      BY <1>1
    <2>2. QED
      BY <1>3, <2>1
  <1>5. ASSUME NEW k \in (0 + 1)..(n - m), k - 1 \in S PROVE k \in S
    <2> DEFINE i == n - k
    <2>1. /\ i \in Nat /\ i >= 1 /\ i + 1 \in m..n /\ n - (k - 1) = i + 1 /\ k \in 0..(n - m)
      BY <1>1
    <2> HIDE DEF i
    <2>2. PICK above \in wal.trail : above.height = i + 1
      BY <1>2, <2>1
    <2>3. OnChain(above, c)
      BY <1>5, <2>1, <2>2
    <2>4. i + 1 \in 1..Len(c) /\ Block(above) = c[i + 1]
      BY <2>1, <2>2, <2>3, BlockOnChain
    <2>5. c[i + 1].prev = c[i].hash
      <3>1. i + 1 > 1 /\ (i + 1) - 1 = i
        BY <2>1
      <3>2. QED
        BY <2>4, <3>1, ChainAssumption
    <2>6. ASSUME NEW g \in wal.trail, g.height = i PROVE OnChain(g, c)
      <3>1. Block(above).prev = g.hash
        BY <2>2, <2>6 DEF OneChain, Linked
      <3>2. i <= Len(c)
        BY <1>1, <2>1, <2>4
      <3>3. QED
        BY <2>4, <2>5, <2>6, <3>1, <3>2 DEF OnChain
    <2>7. QED
      BY <2>1, <2>6 DEF i
  <1>6. 0..(n - m) \subseteq S
    <2>1. 0 \in Int /\ n - m \in Int /\ 0 <= n - m
      BY <1>1
    <2> HIDE DEF S
    <2>2. QED
      BY <1>4, <1>5, <2>1, IntervalInduction
  <1>7. n - m \in S /\ n - (n - m) = m
    <2>1. n - m \in 0..(n - m) /\ n - (n - m) = m
      BY <1>1
    <2> HIDE DEF S
    <2>2. QED
      BY <1>6, <2>1
  <1>8. QED
    BY <1>7 DEF m

(* So the block at the position decides for all that reaches up to it.     *)
LEMMA LatestFollows ==
  ASSUME NEW wal \in Wallets, OneChain(wal), NEW c \in Chains, Topped(wal, c)
  PROVE  \A e \in Latest(wal) : OnChain(e, c)
  <1> SUFFICES ASSUME NEW e \in Latest(wal) PROVE OnChain(e, c)
    OBVIOUS
  <1>1. e \in wal.trail /\ Unbroken(wal, e.height, wal.lastScanned)
    BY DEF Latest
  <1>2. wal.lastScanned \in Nat /\ e.height \in 1..wal.lastScanned
    BY <1>1 DEF Wallets, OneChain
  <1>3. wal.lastScanned \in e.height..wal.lastScanned
    BY <1>2
  <1>4. PICK top \in wal.trail : top.height = wal.lastScanned
    BY <1>1, <1>3 DEF Unbroken
  <1>5. OnChain(top, c)
    BY <1>4 DEF Topped
  <1>6. QED
    BY <1>1, <1>2, <1>4, <1>5, StretchOnChain

LEMMA ScanChain ==
  ASSUME NEW wal \in Wallets, WindowOK(wal), Trusted(wal), OneChain(wal),
         NEW c \in Chains, NEW h \in 1..Len(c), wal.lastScanned < h,
         (wal.lastScanned + 1)..(h - 1) \subseteq wal.skipped,
         Continues(wal, h, c[h]), NEW new, new = scanBlock(wal, h, c[h], c[h].hash)
  PROVE  OneChain(new) /\ Topped(new, c) /\ new.lastScanned = h
  <1> DEFINE b == c[h]
             top == [height |-> h, hash |-> b.hash]
  <1>1. /\ Len(c) \in Nat /\ h \in Nat \ {0} /\ wal.lastScanned \in Nat
        /\ b \in Blocks /\ b.hash \in Hashes /\ b.hash # Null
        /\ \A e \in wal.trail : e.height \in Nat
    BY ChainIs, ChainAssumption DEF Wallets, Hashes, Entries
  <1>2. ScansTo(new, wal, h, b, b.hash)
    BY <1>1, ScanBlockIs
  <1>3. /\ new.lastScanned = h /\ new.lastScannedHash = b.hash
        /\ new.trail = {e \in wal.trail : e.height # h} \cup {top}
        /\ new.skipped = wal.skipped \ {h}
        /\ \A o \in Outs : new.utxos[o] =
             IF o \in b.spends THEN Null
             ELSE IF o \in b.pays THEN [height |-> h, coinbase |-> o \in Coinbase]
             ELSE wal.utxos[o]
    BY <1>2 DEF ScansTo
  <1>4. top.height = h /\ top.hash = b.hash /\ top \in new.trail
    BY <1>3
  <1>5. OnChain(top, c) /\ Block(top) = b
    <2>1. OnChain(top, c)
      BY <1>1, <1>4 DEF OnChain
    <2>2. QED
      BY <1>1, <1>4, <2>1, BlockOnChain
  <1>6. \A e \in wal.trail : /\ e \in new.trail /\ e.height < h /\ e.height >= 1
                             /\ e.height <= wal.lastScanned
    BY <1>1, <1>3 DEF OneChain
  <1>7. \A e \in new.trail : e = top \/ e \in wal.trail
    BY <1>3
  <1> HIDE DEF top
  <1>8. ASSUME NEW e \in wal.trail, h = e.height + 1 PROVE b.prev = e.hash
    <2>1. e.height = wal.lastScanned /\ h = wal.lastScanned + 1 /\ h > 1 /\ h - 1 = e.height
      BY <1>1, <1>6, <1>8
    <2>2. CASE wal.lastScannedHash = Null
      <3>1. OnChain(e, c)
        BY <2>1, <2>2 DEF OneChain, Topped
      <3>2. c[h].prev = c[h - 1].hash
        BY <2>1, ChainAssumption
      <3>3. QED
        BY <2>1, <3>1, <3>2 DEF OnChain
    <2>3. CASE wal.lastScannedHash # Null
      <3> DEFINE last == [height |-> wal.lastScanned, hash |-> wal.lastScannedHash]
      <3>1. last \in wal.trail /\ last.height = e.height /\ last.hash = wal.lastScannedHash
        BY <2>1, <2>3 DEF Trusted
      <3> HIDE DEF last
      <3>2. last = e
        BY <3>1 DEF OneChain, Linked
      <3>3. QED
        BY <2>1, <2>3, <3>1, <3>2 DEF Continues
    <2>4. QED
      BY <2>2, <2>3
  <1> HIDE DEF b
  <1>9. Linked(new)
    <2> SUFFICES ASSUME NEW e \in new.trail, NEW f \in new.trail
                 PROVE  /\ e.height = f.height => e = f
                        /\ f.height = e.height + 1 => Block(f).prev = e.hash
      BY DEF Linked
    <2>1. CASE e \in wal.trail /\ f \in wal.trail
      BY <2>1 DEF OneChain, Linked
    <2>2. CASE e = top
      BY <1>1, <1>4, <1>6, <1>7, <2>2
    <2>3. CASE e \in wal.trail /\ f = top
      BY <1>1, <1>4, <1>5, <1>6, <1>8, <2>3
    <2>4. QED
      BY <1>7, <2>1, <2>2, <2>3
  <1>10. ASSUME NEW i \in 1..h PROVE i \in new.skipped \/ \E e \in new.trail : e.height = i
    <2>1. CASE i = h
      BY <1>4, <2>1
    <2>2. CASE i \in 1..wal.lastScanned
      <3>1. i # h
        BY <1>1, <2>2
      <3>2. QED
        BY <1>3, <1>6, <2>2, <3>1 DEF OneChain
    <2>3. CASE i \in (wal.lastScanned + 1)..(h - 1)
      <3>1. i # h
        BY <1>1, <2>3
      <3>2. QED
        BY <1>3, <2>3, <3>1
    <2>4. QED
      BY <1>1, <2>1, <2>2, <2>3
  <1>11. ASSUME NEW e \in new.trail
         PROVE  e.height \in 1..h /\ \E d \in Chains : OnChain(e, d)
    BY <1>1, <1>4, <1>5, <1>6, <1>7 DEF OneChain
  <1>12. Topped(new, c)
    <2>1. \A e \in new.trail : e.height = h => e = top
      BY <1>1, <1>6, <1>7
    <2>2. QED
      BY <1>3, <1>5, <2>1 DEF Topped
  <1>13. Rooted(new)
    <2> SUFFICES ASSUME NEW o \in Outs, new.utxos[o] # Null, new.utxos[o].height > 0
                 PROVE  LET u == new.utxos[o]
                        IN  /\ \E e \in new.trail : e.height = u.height /\ o \in Block(e).pays
                            /\ \A e \in new.trail : u.height <= e.height => o \notin Block(e).spends
      BY DEF Rooted
    <2>1. o \notin b.spends
      BY <1>3
    <2>2. CASE o \in b.pays
      <3>1. new.utxos[o] = [height |-> h, coinbase |-> o \in Coinbase]
        BY <1>3, <2>1, <2>2
      <3>2. new.utxos[o].height = h
        BY <3>1
      <3>3. \A e \in new.trail : h <= e.height => e = top
        BY <1>1, <1>6, <1>7
      <3>4. QED
        BY <1>4, <1>5, <2>1, <2>2, <3>2, <3>3
    <2>3. CASE o \notin b.pays
      <3>1. new.utxos[o] = wal.utxos[o]
        BY <1>3, <2>1, <2>3
      <3>2. QED
        BY <1>5, <1>6, <1>7, <2>1, <3>1 DEF OneChain, Rooted
    <2>4. QED
      BY <2>2, <2>3
  <1>14. new.lastScannedHash # Null
    BY <1>1, <1>3
  <1>15. QED
    BY <1>3, <1>9, <1>10, <1>11, <1>12, <1>13, <1>14 DEF OneChain

(* A reset either keeps the hash of a known block or goes below every      *)
(* fork, which is what a reset by hand is advised to do.                   *)
LEMMA ResetChain ==
  ASSUME NEW wal \in Wallets, WindowOK(wal), OneChain(wal), NEW h \in Nat, h <= wal.lastScanned,
         \/ HashAt(wal.scannedHashes, h) # Null
         \/ \A e \in wal.trail, c \in Chains : e.height <= h => OnChain(e, c),
         NEW new, new = resetScan(wal, h)
  PROVE  OneChain(new) /\ new.lastScanned = h
  <1>1. ResetsTo(new, wal, h)
    BY ResetScanIs
  <1>2. /\ new.lastScanned = h /\ new.lastScannedHash = HashAt(wal.scannedHashes, h)
        /\ new.trail = {e \in wal.trail : e.height <= h}
        /\ new.skipped = {g \in wal.skipped : g <= h}
        /\ \A o \in Outs : new.utxos[o] = IF o \in Above(wal, h) THEN Null ELSE wal.utxos[o]
    BY <1>1 DEF ResetsTo
  <1>3. /\ wal.lastScanned \in Nat /\ \A e \in wal.trail : e.height \in Nat
        /\ \A o \in Outs : wal.utxos[o] # Null => wal.utxos[o].height \in Nat
    BY DEF Wallets, Entries
  <1>4. \A e \in new.trail : /\ e.height \in 1..h /\ e \in wal.trail
                             /\ \E c \in Chains : OnChain(e, c)
    BY <1>2, <1>3 DEF OneChain
  <1>5. \A i \in 1..h : i \in new.skipped \/ \E e \in new.trail : e.height = i
    <2> SUFFICES ASSUME NEW i \in 1..h PROVE i \in new.skipped \/ \E e \in new.trail : e.height = i
      OBVIOUS
    <2>1. i \in 1..wal.lastScanned /\ i <= h
      BY <1>3
    <2>2. QED
      BY <1>2, <2>1 DEF OneChain
  <1>6. Linked(new)
    BY <1>4 DEF OneChain, Linked
  <1>7. new.lastScannedHash = Null => \A c \in Chains : Topped(new, c)
    BY <1>2, <1>4 DEF Topped
  <1>8. Rooted(new)
    <2> SUFFICES ASSUME NEW o \in Outs, new.utxos[o] # Null, new.utxos[o].height > 0
                 PROVE  LET u == new.utxos[o]
                        IN  /\ \E e \in new.trail : e.height = u.height /\ o \in Block(e).pays
                            /\ \A e \in new.trail : u.height <= e.height => o \notin Block(e).spends
      BY DEF Rooted
    <2>1. o \notin Above(wal, h) /\ new.utxos[o] = wal.utxos[o]
      BY <1>2
    <2>2. new.utxos[o].height <= h
      BY <1>3, <2>1 DEF Above, Tracked
    <2>3. LET u == new.utxos[o]
          IN  /\ \E e \in wal.trail : e.height = u.height /\ o \in Block(e).pays
              /\ \A e \in wal.trail : u.height <= e.height => o \notin Block(e).spends
      BY <2>1 DEF OneChain, Rooted
    <2>4. QED
      BY <1>2, <1>4, <2>2, <2>3
  <1>9. QED
    BY <1>2, <1>4, <1>5, <1>6, <1>7, <1>8 DEF OneChain

(* What the sync in progress knows: a position and a window nobody else    *)
(* moves, and blocks of branches the node was on since it started.         *)
Fetching ==
  /\ Busy => branch \in during
  /\ run.pc = "count" => run.tip = 0
  /\ run.pc = "tip" => Checkable(w) /\ run.asked.height = w.lastScanned
  /\ run.pc = "walk" => /\ run.entry \in DOMAIN w.scannedHashes
                        /\ run.asked = w.scannedHashes[run.entry]
  /\ run.pc = "fetch" =>
       /\ run.from = FirstHeight(w)
       /\ \A h \in Have : \E c \in during : h \in 1..Len(c) /\ run.fetched[h] = c[h]

ChainInv == OneChain(w) /\ OneChain(disk.wal) /\ Fetching

(* The application neither feeds blocks nor resets during a sync.          *)
OnlySyncs == ~Feeding /\ ~Interfering

LEMMA SkippingChain ==
  ASSUME TypeInv, Trusted(w), OneChain(w)
  PROVE  /\ Trusted(Skipping) /\ OneChain(Skipping)
         /\ Skipping.lastScanned < FirstHeight(w)
         /\ (Skipping.lastScanned + 1)..(FirstHeight(w) - 1) \subseteq Skipping.skipped
  <1> DEFINE passed == (w.lastScanned + 1)..(run.fromHeight - 1)
  <1>1. w \in Wallets /\ WindowOK(w) /\ RunOK(run)
    BY DEF TypeInv, WalletOK, SyncOK
  <1>2. /\ Skipping.utxos = w.utxos /\ Skipping.lastScanned = w.lastScanned
        /\ Skipping.trail = w.trail /\ Skipping.lastScannedHash = w.lastScannedHash
        /\ Skipping.scannedHashes = w.scannedHashes
        /\ Skipping.skipped = w.skipped \cup passed
    BY <1>1, SkippingIs
  <1>3. /\ FirstHeight(w) \in Nat /\ w.lastScanned \in Nat /\ run.fromHeight \in Nat
        /\ w.lastScanned + 1 <= FirstHeight(w)
        /\ FirstHeight(w) = w.lastScanned + 1 \/ FirstHeight(w) = run.fromHeight
    BY <1>1, FirstHeightIs
  <1>4. (w.lastScanned + 1)..(FirstHeight(w) - 1) \subseteq passed
    BY <1>3
  <1>5. w.lastScanned < FirstHeight(w)
    BY <1>3
  <1> HIDE DEF passed
  <1>6. Trusted(Skipping) /\ Linked(Skipping) /\ Rooted(Skipping)
    BY <1>2 DEF Trusted, OneChain, Linked, Rooted
  <1>7. QED
    BY <1>2, <1>4, <1>5, <1>6 DEF OneChain, Topped

LEMMA ScannedChain ==
  ASSUME TypeInv, Trusted(w), OneChain(w), Fetching, run.pc = "fetch", Have = run.from..To,
         NEW top \in (run.from - 1)..To
  PROVE  /\ OneChain(ScannedTo(top).wal)
         /\ ScannedTo(top).ok /\ run.from <= top =>
              /\ ScannedTo(top).wal.lastScanned = top
              /\ \E c \in during : Topped(ScannedTo(top).wal, c)
  <1> DEFINE Reached(h, p) ==
               IF h < run.from
               THEN /\ p.wal.lastScanned < run.from
                    /\ (p.wal.lastScanned + 1)..(run.from - 1) \subseteq p.wal.skipped
               ELSE p.wal.lastScanned = h /\ \E c \in during : Topped(p.wal, c)
             Good(h, p) == /\ WindowOK(p.wal) /\ Trusted(p.wal) /\ OneChain(p.wal)
                           /\ p.ok => Reached(h, p)
             S == [h \in (run.from - 1)..To |-> {p \in States : Good(h, p)}]
  <1>1. /\ run.from \in Nat /\ To \in Nat /\ run.from <= To /\ w.lastScanned \in Nat
        /\ during \subseteq Chains /\ run.from = FirstHeight(w)
    BY ChunkIs DEF TypeInv, SyncOK, WalletOK, Wallets, Fetching
  <1>2. Started \in S[run.from - 1]
    <2>1. w \in Wallets /\ WindowOK(w)
      BY DEF TypeInv, WalletOK
    <2>2. /\ Started \in States /\ Started.wal = Skipping /\ WindowOK(Started.wal)
      BY <2>1, SkippingIs DEF Started, States
    <2>3. /\ Trusted(Skipping) /\ OneChain(Skipping) /\ Skipping.lastScanned < run.from
          /\ (Skipping.lastScanned + 1)..(run.from - 1) \subseteq Skipping.skipped
      BY <1>1, SkippingChain
    <2>4. run.from - 1 \in (run.from - 1)..To /\ run.from - 1 < run.from
      BY <1>1
    <2>5. QED
      BY <2>2, <2>3, <2>4
  <1>3. ASSUME NEW h \in run.from..To, NEW p \in S[h - 1] PROVE After(p, h) \in S[h]
    <2> DEFINE b == run.fetched[h]
    <2>1. /\ h \in Nat /\ h \in (run.from - 1)..To /\ h - 1 \in (run.from - 1)..To
          /\ ~(h < run.from) /\ h - 1 < h
      BY <1>1
    <2>2. /\ p \in States /\ p.wal \in Wallets /\ WindowOK(p.wal) /\ Trusted(p.wal)
          /\ OneChain(p.wal)
          /\ p.ok => Reached(h - 1, p)
      BY <2>1 DEF States
    <2>3. p.ok => /\ p.wal.lastScanned < h
                  /\ (p.wal.lastScanned + 1)..(h - 1) \subseteq p.wal.skipped
      <3>1. CASE h - 1 < run.from
        <4>1. h = run.from
          BY <1>1, <2>1, <3>1
        <4>2. QED
          BY <2>2, <3>1, <4>1
      <3>2. CASE ~(h - 1 < run.from)
        <4>1. p.ok => p.wal.lastScanned = h - 1
          BY <2>2, <3>2
        <4>2. p.ok => (p.wal.lastScanned + 1)..(h - 1) = {} /\ p.wal.lastScanned < h
          BY <2>1, <4>1
        <4>3. QED
          BY <4>2
      <3>3. QED
        BY <3>1, <3>2
    <2> HIDE DEF S, Reached
    <2>4. PICK c \in during : h \in 1..Len(c) /\ b = c[h]
      BY DEF Fetching
    <2>5. c \in Chains /\ c[h] \in Blocks
      BY <1>1, <2>4, ChainIs
    <2>6. /\ After(p, h) \in States /\ WindowOK(After(p, h).wal)
          /\ \/ After(p, h).wal = p.wal /\ ~After(p, h).ok
             \/ /\ p.ok /\ Continues(p.wal, h, b)
                /\ After(p, h).wal = scanBlock(p.wal, h, b, b.hash)
      BY <2>1, <2>2, <2>4, <2>5, AfterIs
    <2>7. CASE After(p, h).wal = p.wal /\ ~After(p, h).ok
      BY <2>1, <2>2, <2>6, <2>7 DEF S
    <2>8. CASE /\ p.ok /\ Continues(p.wal, h, b)
               /\ After(p, h).wal = scanBlock(p.wal, h, b, b.hash)
      <3> DEFINE new == After(p, h).wal
      <3>1. new = scanBlock(p.wal, h, c[h], c[h].hash) /\ Continues(p.wal, h, c[h])
        BY <2>4, <2>8
      <3> HIDE DEF new, b
      <3>2. OneChain(new) /\ Topped(new, c) /\ new.lastScanned = h
        BY <2>2, <2>3, <2>4, <2>5, <2>8, <3>1, ScanChain
      <3>3. Trusted(new)
        BY <2>1, <2>2, <2>5, <3>1, ScanTrusted
      <3>4. Good(h, After(p, h))
        BY <2>1, <2>4, <2>6, <3>2, <3>3 DEF new, Reached
      <3> HIDE DEF Good
      <3>5. QED
        BY <2>1, <2>6, <3>4 DEF S
    <2>9. QED
      BY <2>6, <2>7, <2>8
  <1> HIDE DEF S
  <1>4. ScannedTo(top) \in S[top]
    BY <1>1, <1>2, <1>3, ScannedStepwise
  <1>5. run.from <= top => ~(top < run.from)
    BY <1>1
  <1>6. QED
    BY <1>4, <1>5 DEF S

LEMMA ChainInit == ASSUME Init PROVE ChainInv
  <1>1. w = Empty /\ disk.wal = Empty /\ run = Idle
    BY DEF Init
  <1>2. Empty.trail = {} /\ Empty.lastScanned = 0 /\ Empty.utxos = [o \in Outs |-> Null]
    BY DEF Empty
  <1>3. OneChain(Empty)
    <2> DEFINE E == Empty
    <2>1. \A h \in 1..E.lastScanned : FALSE
      BY <1>2
    <2>2. Rooted(E)
      BY <1>2 DEF Rooted
    <2> HIDE DEF E
    <2>3. E.trail = {}
      BY <1>2 DEF E
    <2>4. OneChain(E)
      BY <2>1, <2>2, <2>3 DEF OneChain, Linked, Topped
    <2>5. QED
      BY <2>4 DEF E
  <1>4. Fetching
    BY <1>1, IdleOK DEF Fetching, Busy
  <1>5. QED
    BY <1>1, <1>3, <1>4 DEF ChainInv

LEMMA OneChainNext == ASSUME OneChain(w') PROVE OneChain(w)'
  BY DEF OneChain, Linked, Topped, OnChain, Rooted, Block, Blocks

(* The call settles, or begins to fetch where the wallet now is.           *)
LEMMA SettleFetching == ASSUME NEW kind, Settle(kind) PROVE Fetching'
  BY IdleOK DEF Settle, Fetching, Busy

LEMMA ScanFromFetching ==
  ASSUME w' \in Wallets, NEW tip \in Nat, ScanFrom(w', tip), UNCHANGED branch,
         Busy, branch \in during
  PROVE  Fetching'
  <1> DEFINE from == FirstHeight(w')
             passed == run.fromHeight
  <1>1. from = Larger(passed, w'.lastScanned + 1)
    BY DEF FirstHeight
  <1>2. CASE from <= tip
    <2> DEFINE phase == [Idle EXCEPT !.pc = "fetch", !.fromHeight = passed, !.tip = tip,
                                     !.from = from]
    <2>1. Continue(phase)
      BY <1>2 DEF ScanFrom
    <2> HIDE DEF from, passed
    <2>2. /\ phase.pc = "fetch" /\ phase.fromHeight = passed /\ phase.from = from
          /\ phase.fetched = <<>>
      BY DEF Idle
    <2> HIDE DEF phase
    <2>3. run' = phase /\ during' = during /\ DOMAIN <<>> = {}
      BY <2>1 DEF Continue
    <2>4. QED
      BY <1>1, <2>2, <2>3 DEF Fetching, Have, FirstHeight
  <1>3. CASE ~(from <= tip)
    BY <1>3, SettleFetching DEF ScanFrom
  <1>4. QED
    BY <1>2, <1>3

LEMMA WalkFromFetching ==
  ASSUME RunOK(run), NEW i, WalkFrom(i), UNCHANGED <<w, branch>>, branch \in during
  PROVE  Fetching'
  <1>1. CASE i # 0 /\ i \in DOMAIN w.scannedHashes
    <2> DEFINE entry == w.scannedHashes[i]
               phase == [run EXCEPT !.pc = "walk", !.entry = i, !.asked = entry]
    <2>1. Continue(phase)
      BY <1>1 DEF WalkFrom
    <2> HIDE DEF entry
    <2>2. phase.pc = "walk" /\ phase.entry = i /\ phase.asked = entry
      BY DEF RunOK, Runs
    <2> HIDE DEF phase
    <2>3. run' = phase /\ during' = during
      BY <2>1 DEF Continue
    <2>4. QED
      BY <1>1, <2>2, <2>3 DEF Fetching, entry
  <1>2. CASE ~(i # 0 /\ i \in DOMAIN w.scannedHashes)
    BY <1>2, SettleFetching DEF WalkFrom
  <1>3. QED
    BY <1>1, <1>2

(* What else may happen while a sync is suspended.                         *)
LEMMA FetchingStays ==
  ASSUME Fetching, UNCHANGED run, during \subseteq during',
         w'.lastScanned = w.lastScanned, w'.lastScannedHash = w.lastScannedHash,
         w'.scannedHashes = w.scannedHashes, Busy => branch' \in during'
  PROVE  Fetching'
  BY DEF Fetching, Busy, Have, Checkable, FirstHeight

LEMMA SameChainOneChain ==
  ASSUME NEW a, NEW b, OneChain(a), SameChain(b, a)
  PROVE  OneChain(b)
  <1>1. Rooted(b)
    BY DEF OneChain, Rooted, SameChain
  <1>2. Linked(b) /\ \A c : Topped(a, c) => Topped(b, c)
    BY DEF OneChain, Linked, Topped, SameChain
  <1>3. QED
    BY <1>1, <1>2 DEF OneChain, SameChain

(* The hash of a window entry is found again by a reset to its height.     *)
LEMMA HashIsKept ==
  ASSUME WalletOK(w), NEW i \in DOMAIN w.scannedHashes
  PROVE  /\ w.scannedHashes[i] \in Entries
         /\ HashAt(w.scannedHashes, w.scannedHashes[i].height) # Null
  <1> DEFINE win == w.scannedHashes
  <1>1. win \in Seq(Entries)
    BY DEF WalletOK, Wallets
  <1>2. i \in 1..Len(win) /\ \A j \in 1..Len(win) : win[j] \in Entries
    BY <1>1, LenProperties, ElementOfSeq
  <1> HIDE DEF win
  <1>3. win[i].height \in Nat
    BY <1>2 DEF Entries
  <1> DEFINE hash == HashAt(win, win[i].height)
  <1>4. \/ hash = Null /\ \A j \in 1..Len(win) : win[j].height # win[i].height
        \/ \E j \in 1..Len(win) : win[j] = [height |-> win[i].height, hash |-> hash]
    BY <1>1, <1>3, HashAtIs
  <1> HIDE DEF hash
  <1>5. PICK j \in 1..Len(win) : win[j] = [height |-> win[i].height, hash |-> hash]
    BY <1>2, <1>4
  <1>6. hash \in Hashes
    BY <1>2, <1>5 DEF Entries
  <1>7. hash # Null
    BY <1>6, ChainAssumption
  <1>8. QED
    BY <1>2, <1>7 DEF win, hash

LEMMA WalkFindsIs ==
  ASSUME TypeInv, OneChain(w), Fetching, WalkFinds
  PROVE  /\ UNCHANGED <<disk, branch>> /\ OneChain(w') /\ w' \in Wallets
         /\ \/ Settle("failed")
            \/ /\ w' = resetScan(w, run.asked.height) /\ ScanFrom(w', run.tip)
               /\ run.asked \in Entries /\ w'.lastScanned = run.asked.height
  <1>1. WalletOK(w) /\ w \in Wallets /\ WindowOK(w) /\ run.pc = "walk"
    BY DEF TypeInv, WalletOK, WalkFinds, Answer
  <1>2. run.entry \in DOMAIN w.scannedHashes /\ run.asked = w.scannedHashes[run.entry]
    BY <1>1 DEF Fetching
  <1>3. run.asked \in Entries /\ HashAt(w.scannedHashes, run.asked.height) # Null
    BY <1>1, <1>2, HashIsKept
  <1>4. run.asked.height \in Nat
    BY <1>3 DEF Entries
  <1>5. UNCHANGED <<disk, branch>>
    BY DEF WalkFinds, durable, node
  <1>6. CASE run.asked.height <= w.lastScanned
    <2>1. w' = resetScan(w, run.asked.height) /\ ScanFrom(w', run.tip)
      BY <1>6 DEF WalkFinds
    <2>2. w' \in Wallets
      BY <1>1, <1>4, <2>1, ResetScanIs
    <2>3. OneChain(w') /\ w'.lastScanned = run.asked.height
      BY <1>1, <1>3, <1>4, <1>6, <2>1, ResetChain
    <2>4. QED
      BY <1>3, <1>5, <2>1, <2>2, <2>3
  <1>7. CASE ~(run.asked.height <= w.lastScanned)
    BY <1>1, <1>5, <1>7 DEF WalkFinds
  <1>8. QED
    BY <1>6, <1>7

LEMMA ChainStep ==
  ASSUME TypeInv, TrustInv, ChainInv, OnlySyncs, [Next]_vars
  PROVE  ChainInv'
  <1>1. /\ w \in Wallets /\ WindowOK(w) /\ SyncOK /\ NodeOK /\ RunOK(run) /\ Trusted(w)
        /\ OneChain(w) /\ OneChain(disk.wal) /\ Fetching
        /\ run.tip \in Nat /\ height \in Nat
    <2>1. height \in Nat
      BY ChainIs DEF TypeInv, NodeOK
    <2>2. QED
      BY <2>1 DEF TypeInv, WalletOK, SyncOK, RunOK, Runs, TrustInv, ChainInv
  <1>2. SUFFICES OneChain(w') /\ OneChain(disk'.wal) /\ Fetching'
    BY OneChainNext DEF ChainInv, OneChain, Linked, Topped, OnChain, Rooted, Block, Blocks
  <1>3. CASE UNCHANGED <<disk, w>> /\ Fetching'
    BY <1>1, <1>3
  <1>4. run.pc # "idle" => branch \in during
    BY <1>1 DEF Fetching, Busy
  <1>5. CASE Progress
    <2>1. CASE GetBlockCount
      <3>1. UNCHANGED <<disk, w, branch>> /\ run.pc = "count"
        BY <2>1 DEF GetBlockCount, durable, node
      <3>2. CASE Checkable(w)
        <4> DEFINE last == w.lastScanned
                   phase == [run EXCEPT !.pc = "tip", !.tip = height, !.asked.height = last]
        <4>1. run' = phase /\ during' = during
          BY <2>1, <3>2 DEF GetBlockCount, Continue
        <4> HIDE DEF last
        <4>2. phase.pc = "tip" /\ phase.asked.height = last
          BY <1>1 DEF RunOK, Runs
        <4> HIDE DEF phase
        <4>3. Fetching'
          BY <1>4, <3>1, <3>2, <4>1, <4>2 DEF Fetching, Checkable, last
        <4>4. QED
          BY <1>3, <3>1, <4>3
      <3>3. CASE ~Checkable(w)
        <4>1. ScanFrom(w', height)
          BY <2>1, <3>1, <3>3 DEF GetBlockCount
        <4>2. Fetching'
          BY <1>1, <1>4, <3>1, <4>1, ScanFromFetching DEF Busy
        <4>3. QED
          BY <1>3, <3>1, <4>2
      <3>4. QED
        BY <3>2, <3>3
    <2>2. CASE TipConfirmed
      <3>1. UNCHANGED <<disk, w, branch>> /\ run.pc = "tip" /\ ScanFrom(w', run.tip)
        BY <2>2 DEF TipConfirmed, Answer, durable, node
      <3>2. Fetching'
        BY <1>1, <1>4, <3>1, ScanFromFetching DEF Busy
      <3>3. QED
        BY <1>3, <3>1, <3>2
    <2>3. CASE TipContradicted \/ WalkOn
      <3>1. /\ UNCHANGED <<disk, w, branch>> /\ run.pc # "idle"
            /\ \E i : WalkFrom(i)
        BY <2>3 DEF TipContradicted, WalkOn, Answer, durable, node
      <3>2. Fetching'
        BY <1>1, <1>4, <3>1, WalkFromFetching
      <3>3. QED
        BY <1>3, <3>1, <3>2
    <2>4. CASE WalkFinds
      <3>1. /\ UNCHANGED <<disk, branch>> /\ OneChain(w') /\ w' \in Wallets
            /\ Settle("failed") \/ ScanFrom(w', run.tip)
        BY <1>1, <2>4, WalkFindsIs
      <3>2. run.pc = "walk"
        BY <2>4 DEF WalkFinds, Answer
      <3>3. Fetching'
        BY <1>1, <1>4, <3>1, <3>2, ScanFromFetching, SettleFetching DEF Busy
      <3>4. QED
        BY <1>1, <3>1, <3>3
    <2>5. ASSUME NEW h \in Heights, FetchBlock(h) PROVE UNCHANGED <<disk, w>> /\ Fetching'
      <3> DEFINE got == [g \in Have \cup {h} |-> IF g = h THEN branch[h] ELSE run.fetched[g]]
                 phase == [run EXCEPT !.fetched = got]
      <3>1. /\ UNCHANGED <<disk, w, branch>> /\ run' = phase /\ during' = during
            /\ run.pc = "fetch" /\ h \in run.from..To /\ h <= height
        BY <2>5 DEF FetchBlock, Continue, durable, node
      <3>2. h \in 1..Len(branch)
        <4>1. run.from \in Nat /\ 0 < run.from /\ To \in Nat
          BY <1>1, <3>1, ChunkIs
        <4>2. h \in Nat \ {0}
          BY <3>1, <4>1
        <4>3. QED
          BY <1>1, <3>1, <4>2, BlockOf
      <3>3. \A g \in DOMAIN got : \E c \in during : g \in 1..Len(c) /\ got[g] = c[g]
        BY <1>1, <1>4, <3>1, <3>2 DEF Fetching
      <3> HIDE DEF got
      <3>4. /\ phase.pc = "fetch" /\ phase.from = run.from /\ phase.fetched = got
            /\ phase.fromHeight = run.fromHeight
        BY <1>1, <3>1 DEF RunOK, Runs
      <3> HIDE DEF phase
      <3>5. Fetching'
        BY <1>1, <1>4, <3>1, <3>3, <3>4 DEF Fetching, Have, FirstHeight
      <3>6. QED
        BY <3>1, <3>5
    <2>6. CASE ScanChunk
      <3>1. /\ UNCHANGED <<disk, branch>> /\ run.pc = "fetch" /\ Have = run.from..To
            /\ w' = Scanned.wal
            /\ IF ~Scanned.ok THEN Settle("diverged")
               ELSE IF To < run.tip THEN Continue(NextChunk(To + 1))
               ELSE Settle("resolved")
        BY <2>6 DEF ScanChunk, durable, node
      <3>2. OneChain(w') /\ (Scanned.ok => w'.lastScanned = To)
        BY <1>1, <3>1, PartsOfChunk, ChunkIs, ScannedChain
      <3>3. CASE Scanned.ok /\ Continue(NextChunk(To + 1))
        <4> DEFINE next == To + 1
        <4>1. run' = [run EXCEPT !.from = next, !.fetched = <<>>] /\ during' = during
          BY <3>3 DEF Continue, NextChunk
        <4> HIDE DEF next
        <4>2. /\ run'.pc = "fetch" /\ run'.from = next /\ run'.fetched = <<>>
              /\ run'.fromHeight = run.fromHeight
          BY <1>1, <3>1, <4>1 DEF RunOK, Runs
        <4>3. DOMAIN <<>> = {}
          OBVIOUS
        <4>4. Larger(run.fromHeight, To + 1) = To + 1
          <5>1. run.fromHeight \in Nat /\ run.fromHeight <= run.from
            BY <1>1, <3>1, FirstHeightIs DEF Fetching
          <5>2. To \in Nat /\ run.from \in Nat /\ run.from <= To
            BY <1>1, <3>1, ChunkIs
          <5>3. QED
            BY <5>1, <5>2 DEF Larger
        <4>5. run'.from = FirstHeight(w)'
          BY <3>2, <3>3, <4>2, <4>4 DEF FirstHeight, next
        <4>6. Fetching'
          BY <1>4, <3>1, <3>2, <3>3, <4>1, <4>2, <4>3, <4>5 DEF Fetching, Have, FirstHeight
        <4>7. QED
          BY <1>1, <3>1, <3>2, <4>6
      <3>4. CASE Settle("diverged") \/ Settle("resolved")
        BY <1>1, <3>1, <3>2, <3>4, SettleFetching
      <3>5. QED
        BY <3>1, <3>3, <3>4
    <2>7. ASSUME NEW h \in run.from..(To + 1), ScanBreaks(h)
          PROVE  UNCHANGED disk /\ OneChain(w') /\ Fetching'
      <3>1. /\ UNCHANGED disk /\ run.pc = "fetch" /\ Have = run.from..To
            /\ w' = ScannedTo(h - 1).wal /\ Settle("failed")
        BY <2>7 DEF ScanBreaks, durable
      <3>2. OneChain(w')
        BY <1>1, <3>1, PartsOfChunk, ScannedChain
      <3>3. QED
        BY <3>1, <3>2, SettleFetching
    <2>8. CASE SyncFails
      BY <1>3, <2>8, SettleFetching DEF SyncFails, durable
    <2>9. QED
      BY <1>1, <1>3, <1>5, <2>1, <2>2, <2>3, <2>4, <2>5, <2>6, <2>7, <2>8 DEF Progress
  <1>6. CASE StartSync
    <2> PICK fromHeight \in FromHeights : SyncStart(fromHeight)
      BY <1>6 DEF StartSync
    <2>1. /\ UNCHANGED <<disk, w, branch>> /\ during' = {branch}
          /\ run' = [Idle EXCEPT !.pc = "count", !.fromHeight = fromHeight]
      BY DEF SyncStart, durable, node
    <2>2. run'.pc = "count" /\ run'.tip = 0
      BY <2>1 DEF Idle
    <2>3. Fetching'
      BY <2>1, <2>2 DEF Fetching
    <2>4. QED
      BY <1>3, <2>1, <2>3
  <1>7. CASE ManualReset
    <2>1. PICK h \in Heights : Reset(h)
      BY <1>7 DEF ManualReset
    <2>2. /\ UNCHANGED <<disk, run, during, branch>> /\ w' = resetScan(w, h) /\ h \in Nat
          /\ ~Busy /\ h <= w.lastScanned
          /\ \A e \in w.trail, c \in Chains : e.height <= h => OnChain(e, c)
      BY <2>1, HeightsAreNat DEF Reset, Advised, durable, node, OnlySyncs
    <2>3. OneChain(w')
      BY <1>1, <2>2, ResetChain
    <2>4. Fetching'
      BY <2>2 DEF Fetching, Busy
    <2>5. QED
      BY <1>1, <2>2, <2>3, <2>4
  <1>8. CASE \E h \in Heights, hash \in Hashes \cup {Null} : FeedBlock(h, hash)
    BY <1>8 DEF FeedBlock, OnlySyncs
  <1>9. CASE Bookkeeping
    <2>1. SameChain(w', w) /\ UNCHANGED <<run, during, disk, branch>>
      BY <1>9, BookkeepingIs DEF sync, node
    <2>2. OneChain(w')
      BY <1>1, <2>1, SameChainOneChain
    <2>3. Fetching'
      BY <1>1, <1>4, <2>1, FetchingStays DEF SameChain, Busy
    <2>4. QED
      BY <1>1, <2>1, <2>2, <2>3
  <1>10. CASE save
    <2>1. UNCHANGED <<w, run, during, branch>> /\ disk' = [wal |-> w, sends |-> sends]
      BY <1>10 DEF save, Image, sync, node
    <2>2. Fetching'
      BY <1>1, <1>4, <2>1, FetchingStays DEF Busy
    <2>3. QED
      BY <1>1, <2>1, <2>2
  <1>11. CASE Restart
    BY <1>1, <1>11, SettleFetching DEF Restart
  <1>12. CASE Grow \/ Reorg \/ UNCHANGED vars
    <2>1. /\ UNCHANGED <<w, run, disk>> /\ during \subseteq during'
          /\ Busy => branch' \in during'
      BY <1>4, <1>12 DEF Grow, Reorg, vars, sync, durable, node, Busy
    <2>2. Fetching'
      BY <1>1, <2>1, FetchingStays
    <2>3. QED
      BY <1>3, <2>1, <2>2
  <1>13. CASE Application
    BY <1>6, <1>7, <1>8, <1>9, <1>10, <1>11, <1>13 DEF Application, Bookkeeping
  <1>14. QED
    BY <1>5, <1>12, <1>13 DEF Next

LEMMA ChainScanned == OnlySyncs => (Spec => []ChainInv)
  <1> SUFFICES ASSUME OnlySyncs PROVE Spec => []ChainInv
    OBVIOUS
  <1>1. HashesKnown
    BY DEF OnlySyncs, HashesKnown
  <1>2. Init => TypeInv /\ TrustInv /\ ChainInv
    BY InitTyped, TrustInit, ChainInit
  <1>3. TypeInv /\ TrustInv /\ ChainInv /\ [Next]_vars => TypeInv' /\ TrustInv' /\ ChainInv'
    BY <1>1, TypingStep, TrustStep, ChainStep
  <1>4. QED
    BY <1>2, <1>3, PTL DEF Spec

(* As long as blocks come only from sync, no height up to the position is  *)
(* missing but those a fromHeight passed over, and blocks with no hole     *)
(* between them are of one chain: through reorgs between any two RPCs of a *)
(* sync, malformed blocks, walk-backs, resets by hand below every fork,    *)
(* crashes and restores.                                                   *)
THEOREM OneChainIsScanned == OnlySyncs => (Spec => []OneChainScanned)
  <1> SUFFICES ASSUME OnlySyncs PROVE Spec => []OneChainScanned
    OBVIOUS
  <1>1. Spec => []ChainInv
    BY ChainScanned
  <1>2. TypeInv /\ ChainInv => OneChainScanned
    <2> SUFFICES ASSUME TypeInv, ChainInv PROVE OneChainScanned
      OBVIOUS
    <2>1. w \in Wallets /\ OneChain(w)
      BY DEF TypeInv, WalletOK, ChainInv
    <2>2. ASSUME NEW e \in w.trail
          PROVE  \E c \in Chains : \A f \in w.trail :
                   f.height <= e.height /\ Unbroken(w, f.height, e.height) => OnChain(f, c)
      <3>1. PICK c \in Chains : OnChain(e, c)
        BY <2>1 DEF OneChain
      <3>2. QED
        BY <2>1, <3>1, StretchOnChain
    <2>3. QED
      BY <2>1, <2>2 DEF OneChain, OneChainScanned
  <1>3. QED
    BY <1>1, <1>2, WalletTypes, PTL

(* Every scanned output that is tracked was created by a block the wallet  *)
(* still counts as scanned, and none at or above it spends it: no output   *)
(* outlives, in the wallet, the block it came from.                        *)
THEOREM OutputsFollow == OnlySyncs => (Spec => []OutputsFollowBlocks)
  <1> SUFFICES ASSUME OnlySyncs PROVE Spec => []OutputsFollowBlocks
    OBVIOUS
  <1>1. Spec => []ChainInv
    BY ChainScanned
  <1>2. ChainInv => OutputsFollowBlocks
    BY DEF ChainInv, OneChain, Rooted, OutputsFollowBlocks, Tracked
  <1>3. QED
    BY <1>1, <1>2, PTL

(* What the wallet holds when a sync resolves.                             *)
Followed(c) == /\ run.tip <= w'.lastScanned \/ run.tip < run.fromHeight
               /\ OneChain(w') /\ w' \in Wallets /\ Topped(w', c)

LEMMA ResolvedStep ==
  ASSUME TypeInv, TrustInv, ChainInv, [Next]_vars, Resolves
  PROVE  \E c \in during : Followed(c)
  <1>1. /\ w \in Wallets /\ WindowOK(w) /\ SyncOK /\ NodeOK /\ RunOK(run) /\ Trusted(w)
        /\ OneChain(w) /\ Fetching /\ run.tip \in Nat /\ w.lastScanned \in Nat
        /\ branch \in during /\ branch \in Chains
    BY DEF TypeInv, WalletOK, Wallets, SyncOK, NodeOK, RunOK, Runs, TrustInv, ChainInv,
           Fetching, Resolves
  <1>2. Busy /\ ~Busy' /\ outcome' = "resolved"
    BY DEF Resolves
  <1>3. ASSUME NEW wal \in Wallets, NEW tip \in Nat, ScanFrom(wal, tip)
        PROVE  tip <= wal.lastScanned \/ tip < run.fromHeight
    <2> DEFINE from == FirstHeight(wal)
               passed == run.fromHeight
    <2>1. /\ from \in Nat /\ wal.lastScanned \in Nat /\ passed \in Nat
          /\ from = wal.lastScanned + 1 \/ from = passed
      BY <1>1, FirstHeightIs
    <2>2. CASE from <= tip
      <3> DEFINE phase == [Idle EXCEPT !.pc = "fetch", !.fromHeight = passed, !.tip = tip,
                                       !.from = from]
      <3>1. run' = phase
        BY <1>3, <2>2 DEF ScanFrom, Continue
      <3> HIDE DEF from, passed
      <3>2. phase.pc = "fetch"
        BY DEF Idle
      <3> HIDE DEF phase
      <3>3. QED
        BY <1>2, <3>1, <3>2 DEF Busy
    <2>3. CASE ~(from <= tip)
      <3> HIDE DEF from
      <3>1. tip < from
        BY <2>1, <2>3
      <3>2. QED
        BY <2>1, <3>1
    <2>4. QED
      BY <2>2, <2>3
  <1>4. CASE GetBlockCount
    <2>1. UNCHANGED w /\ run.pc = "count" /\ run.tip = 0
      BY <1>1, <1>4 DEF GetBlockCount, Fetching
    <2>2. CASE Checkable(w)
      <3> DEFINE last == w.lastScanned
                 phase == [run EXCEPT !.pc = "tip", !.tip = height, !.asked.height = last]
      <3>1. run' = phase
        BY <1>4, <2>2 DEF GetBlockCount, Continue
      <3> HIDE DEF last
      <3>2. phase.pc = "tip"
        BY <1>1 DEF RunOK, Runs
      <3> HIDE DEF phase
      <3>3. QED
        BY <1>2, <3>1, <3>2 DEF Busy
    <2>3. CASE ~Checkable(w)
      <3>1. Topped(w, branch)
        <4>1. CASE w.lastScannedHash = Null
          BY <1>1, <4>1 DEF OneChain
        <4>2. CASE w.lastScanned = 0
          <5>1. \A e \in w.trail : FALSE
            BY <1>1, <4>2 DEF OneChain
          <5>2. QED
            BY <5>1 DEF Topped
        <4>3. QED
          BY <1>1, <2>3, <4>1, <4>2 DEF Checkable
      <3>2. QED
        BY <1>1, <2>1, <3>1 DEF Followed, Topped
    <2>4. QED
      BY <2>2, <2>3
  <1>5. CASE TipConfirmed
    <2>1. /\ UNCHANGED w /\ ScanFrom(w, run.tip) /\ run.pc = "tip"
          /\ run.asked.height <= height /\ w.lastScannedHash = branch[run.asked.height].hash
      BY <1>5 DEF TipConfirmed, Answer
    <2>2. /\ Checkable(w) /\ run.asked.height = w.lastScanned
      BY <1>1, <2>1 DEF Fetching
    <2> DEFINE last == [height |-> w.lastScanned, hash |-> w.lastScannedHash]
               n == w.lastScanned
    <2>3. last \in w.trail /\ last.height = n /\ last.hash = branch[n].hash
      BY <1>1, <2>1, <2>2 DEF Checkable, Trusted
    <2> HIDE DEF last
    <2>4. n \in 1..Len(branch)
      <3>1. n \in Nat \ {0} /\ n <= height
        BY <1>1, <2>1, <2>2 DEF Checkable
      <3>2. QED
        BY <1>1, <3>1, BlockOf
    <2>5. Topped(w, branch)
      <3>1. \A e \in w.trail : e.height = n => e = last
        BY <1>1, <2>3 DEF OneChain, Linked
      <3>2. OnChain(last, branch)
        BY <1>1, <2>3, <2>4 DEF OnChain
      <3>3. QED
        BY <3>1, <3>2 DEF Topped
    <2>6. run.tip <= w.lastScanned \/ run.tip < run.fromHeight
      BY <1>1, <1>3, <2>1
    <2>7. QED
      BY <1>1, <2>1, <2>5, <2>6 DEF Followed, Topped
  <1>6. CASE TipContradicted \/ WalkOn
    <2>1. PICK i : WalkFrom(i)
      BY <1>6 DEF TipContradicted, WalkOn
    <2>2. CASE i # 0 /\ i \in DOMAIN w.scannedHashes
      <3> DEFINE entry == w.scannedHashes[i]
                 phase == [run EXCEPT !.pc = "walk", !.entry = i, !.asked = entry]
      <3>1. run' = phase
        BY <2>1, <2>2 DEF WalkFrom, Continue
      <3> HIDE DEF entry
      <3>2. phase.pc = "walk"
        BY <1>1 DEF RunOK, Runs
      <3> HIDE DEF phase
      <3>3. QED
        BY <1>2, <3>1, <3>2 DEF Busy
    <2>3. CASE ~(i # 0 /\ i \in DOMAIN w.scannedHashes)
      BY <1>2, <2>1, <2>3 DEF WalkFrom, Settle
    <2>4. QED
      BY <2>2, <2>3
  <1>7. CASE WalkFinds
    <2>1. /\ w' = resetScan(w, run.asked.height) /\ ScanFrom(w', run.tip) /\ w' \in Wallets
          /\ run.asked \in Entries /\ w'.lastScanned = run.asked.height
      <3>1. ~Settle("failed")
        BY <1>2 DEF Settle
      <3>2. QED
        BY <1>1, <1>7, <3>1, WalkFindsIs
    <2>2. /\ run.pc = "walk" /\ run.asked.height <= height
          /\ run.asked.hash = branch[run.asked.height].hash
      BY <1>7 DEF WalkFinds, Answer
    <2> DEFINE n == run.asked.height
    <2>3. run.asked \in w.trail
      <3>1. run.entry \in DOMAIN w.scannedHashes /\ run.asked = w.scannedHashes[run.entry]
        BY <1>1, <2>2 DEF Fetching
      <3>2. DOMAIN w.scannedHashes = 1..Len(w.scannedHashes)
        BY <1>1, LenProperties DEF Wallets
      <3>3. QED
        BY <1>1, <3>1, <3>2 DEF Trusted
    <2>4. n \in 1..Len(branch) /\ n \in Nat
      <3>1. n \in Nat \ {0} /\ n <= height
        BY <1>1, <2>2, <2>3 DEF OneChain
      <3>2. QED
        BY <1>1, <3>1, BlockOf
    <2>5. w'.trail = {e \in w.trail : e.height <= n} /\ OneChain(w')
      <3>1. ResetsTo(w', w, n)
        BY <1>1, <2>1, <2>4, ResetScanIs
      <3>2. QED
        BY <1>1, <1>7, <3>1, WalkFindsIs DEF ResetsTo
    <2>6. Topped(w', branch)
      <3>1. \A e \in w'.trail : e.height = n => e = run.asked
        BY <1>1, <2>3, <2>5 DEF OneChain, Linked
      <3>2. OnChain(run.asked, branch)
        BY <2>2, <2>4 DEF OnChain
      <3>3. QED
        BY <2>1, <3>1, <3>2 DEF Topped
    <2>7. run.tip <= w'.lastScanned \/ run.tip < run.fromHeight
      BY <1>1, <1>3, <2>1
    <2>8. QED
      BY <1>1, <2>1, <2>5, <2>6, <2>7 DEF Followed
  <1>8. CASE \E h \in Heights : FetchBlock(h)
    <2>1. outcome' = outcome /\ run'.pc = "fetch"
      <3>1. PICK h \in Heights : FetchBlock(h)
        BY <1>8
      <3> DEFINE got == [g \in Have \cup {h} |-> IF g = h THEN branch[h] ELSE run.fetched[g]]
      <3>2. run' = [run EXCEPT !.fetched = got] /\ run.pc = "fetch" /\ outcome' = outcome
        BY <3>1 DEF FetchBlock, Continue
      <3> HIDE DEF got
      <3>3. QED
        BY <1>1, <3>2 DEF RunOK, Runs
    <2>2. QED
      BY <1>2, <2>1 DEF Busy
  <1>9. CASE ScanChunk
    <2>1. /\ run.pc = "fetch" /\ Have = run.from..To /\ w' = Scanned.wal
          /\ IF ~Scanned.ok THEN Settle("diverged")
             ELSE IF To < run.tip THEN Continue(NextChunk(To + 1))
             ELSE Settle("resolved")
      BY <1>9 DEF ScanChunk
    <2>2. ~Settle("diverged")
      BY <1>2 DEF Settle
    <2>3. ~Continue(NextChunk(To + 1))
      <3> DEFINE next == To + 1
      <3>1. Continue(NextChunk(next)) => run' = [run EXCEPT !.from = next, !.fetched = <<>>]
        BY DEF Continue, NextChunk
      <3> HIDE DEF next
      <3>2. Continue(NextChunk(next)) => run'.pc = "fetch"
        BY <1>1, <2>1, <3>1 DEF RunOK, Runs
      <3>3. QED
        BY <1>2, <3>2 DEF Busy, next
    <2>4. Scanned.ok /\ ~(To < run.tip)
      BY <2>1, <2>2, <2>3
    <2>5. OneChain(w') /\ w'.lastScanned = To /\ \E c \in during : Topped(w', c)
      <3>1. run.from <= To
        BY <1>1, <2>1, ChunkIs
      <3>2. QED
        BY <1>1, <2>1, <2>4, <3>1, PartsOfChunk, ScannedChain
    <2>6. w' \in Wallets
      BY <1>1, <2>1, PartsOfChunk, ScannedTyped DEF States
    <2>7. run.tip <= To
      BY <1>1, <2>1, <2>4, ChunkIs
    <2>8. QED
      BY <2>5, <2>6, <2>7 DEF Followed
  <1>10. CASE SyncFails \/ Restart \/ \E h \in run.from..(To + 1) : ScanBreaks(h)
    BY <1>2, <1>10 DEF SyncFails, Restart, ScanBreaks, Settle
  <1>11. CASE StartSync
    BY <1>2, <1>11 DEF StartSync, SyncStart, Busy
  <1>12. CASE UNCHANGED run
    BY <1>2, <1>12 DEF Busy
  <1>13. CASE Application
    <2>1. CASE ManualReset
      BY <2>1, <1>12 DEF ManualReset, Reset
    <2>2. CASE \E h \in Heights, hash \in Hashes \cup {Null} : FeedBlock(h, hash)
      BY <2>2, <1>12 DEF FeedBlock, sync
    <2>3. CASE Bookkeeping
      BY <2>3, <1>12, BookkeepingIs DEF sync
    <2>4. CASE save
      BY <2>4, <1>12 DEF save, sync
    <2>5. QED
      BY <1>10, <1>11, <1>13, <2>1, <2>2, <2>3, <2>4 DEF Application, Bookkeeping
  <1>14. CASE Grow \/ Reorg \/ UNCHANGED vars
    BY <1>12, <1>14 DEF Grow, Reorg, vars, sync
  <1>15. CASE Progress
    BY <1>4, <1>5, <1>6, <1>7, <1>8, <1>9, <1>10, <1>15 DEF Progress
  <1>16. QED
    BY <1>13, <1>14, <1>15 DEF Next

(* A sync that resolves has scanned up to the tip it was told, unless its  *)
(* fromHeight is above it, and down to the last hole a fromHeight left the *)
(* wallet is on one branch the node was on meanwhile, even when the node   *)
(* switched branches between any two of its answers.                       *)
THEOREM ResolvedFollows == OnlySyncs => (Spec => ResolvedFollowsNode)
  <1> SUFFICES ASSUME OnlySyncs PROVE Spec => ResolvedFollowsNode
    OBVIOUS
  <1>1. HashesKnown
    BY DEF OnlySyncs, HashesKnown
  <1>2. Spec => []TrustInv /\ []ChainInv
    BY <1>1, HashesTrusted, ChainScanned, PTL
  <1>3. TypeInv /\ TrustInv /\ ChainInv /\ [Next]_vars =>
          [ Resolves => /\ run.tip <= w'.lastScanned \/ run.tip < run.fromHeight
                        /\ \E c \in during : \A e \in Latest(w') : OnChain(e, c) ]_vars
    <2> SUFFICES ASSUME TypeInv, TrustInv, ChainInv, [Next]_vars, Resolves
                 PROVE  /\ run.tip <= w'.lastScanned \/ run.tip < run.fromHeight
                        /\ \E c \in during : \A e \in Latest(w') : OnChain(e, c)
      OBVIOUS
    <2>1. PICK c \in during : Followed(c)
      BY ResolvedStep
    <2>2. c \in Chains
      BY DEF TypeInv, SyncOK
    <2>3. \A e \in Latest(w') : OnChain(e, c)
      BY <2>1, <2>2, LatestFollows DEF Followed
    <2>4. QED
      BY <2>1, <2>3 DEF Followed
  <1>4. QED
    BY <1>2, <1>3, WalletTypes, PTL DEF Spec, ResolvedFollowsNode
=============================================================================
