------------------------- MODULE TransparentWallet -------------------------
(***************************************************************************)
(* The transparent wallet (wallet/src/transparent-wallet.ts): a set of     *)
(* unspent outputs kept by scanning blocks, a rolling window of block      *)
(* hashes to find the fork after a reorg, and reservations made by         *)
(* buildSend, while sync suspends at every RPC and the application's other *)
(* calls run in the gaps.                                                  *)
(*                                                                         *)
(* A block is [hash, prev, pays, spends]: the outputs to this wallet it    *)
(* creates, and those it consumes.  An outpoint (txid, vout) keeps its     *)
(* name when a reorg mines its transaction again.  Which outputs a send    *)
(* selects is arithmetic on amounts: any non-empty set of what the wallet  *)
(* offers.                                                                 *)
(***************************************************************************)
EXTENDS Naturals, Sequences, FiniteSets

CONSTANTS
  Outs,          (* outpoints that can pay this wallet                      *)
  Coinbase,      (* those created by coinbase or coinstake transactions     *)
  Maturity,      (* coinbaseMaturity(network)                               *)
  Chains,        (* what the node's active chain may be a prefix of         *)
  Null,          (* no hash, and no tracked output                          *)
  Gap,           (* addresses derived on each of the two paths              *)
  Window,        (* REORG_WINDOW                                            *)
  Chunk,         (* heights fetched at once: batchSize, at most 8           *)
  FromHeights,   (* what it passes to sync as fromHeight; 0 is the default  *)
  Supplied,      (* outpoints the application passes to addUtxo and scan    *)
  MaxSends,      (* bound: sends neither released nor forgotten             *)
  Feeding,       (* the application calls scanBlock and scan itself         *)
  Hashless,      (* blocks it feeds may lack a hash (README, deviations)    *)
  Interfering,   (* it also scans or resets while a sync is suspended       *)
  MaxReorgs, MaxFaults, MaxRestarts

ASSUME SizesAssumption == Window \in Nat \ {0} /\ Chunk \in Nat \ {0} /\ Gap \in Nat
ASSUME FromAssumption == FromHeights \subseteq Nat
ASSUME OutsAssumption == Coinbase \subseteq Outs /\ Supplied \subseteq Outs /\ Null \notin Outs

VARIABLES
  w,                (* the fields of the TransparentWallet                    *)
  run,              (* the sync in progress and its locals; busy iff not idle *)
  outcome,          (* how the last sync settled                              *)
  disk, restarts,   (* the last save(), and how often it was restored         *)
  branch, height,   (* the node's active chain is branch up to height         *)
  reorgs, faults,
  during,           (* history: branches active since the sync started        *)
  sends             (* history: the sends not given up by release()           *)

sync    == <<run, outcome, during>>
durable == <<disk, restarts>>
node    == <<branch, height, reorgs, faults>>
vars    == <<w, sync, durable, node, sends>>

Busy == run.pc # "idle"

-----------------------------------------------------------------------------
(* Chains *)

Smaller(a, b) == IF a < b THEN a ELSE b
Larger(a, b)  == IF a < b THEN b ELSE a
MaxHeight == CHOOSE h \in {Len(c) : c \in Chains} : \A c \in Chains : Len(c) <= h
Blocks == UNION {{c[h] : h \in 1..Len(c)} : c \in Chains}
Hashes == {b.hash : b \in Blocks}

(* A hash names one block, and a chain is linked by them; what is spent    *)
(* was created there before.                                               *)
ASSUME ChainAssumption ==
  /\ Chains \subseteq Seq(Blocks) /\ Null \notin Hashes
  /\ \E c \in Chains : \A d \in Chains : Len(d) <= Len(c)
  /\ \A b \in Blocks : b.pays \subseteq Outs /\ b.spends \subseteq Outs
  /\ \A c, d \in Chains : \A i \in 1..Len(c), j \in 1..Len(d) :
       c[i].hash = d[j].hash => i = j /\ c[i] = d[j]
  /\ \A c \in Chains : \A i \in 1..Len(c) : i > 1 => c[i].prev = c[i - 1].hash
  /\ \A c \in Chains : \A i, j \in 1..Len(c) : c[i].spends \cap c[j].pays # {} => j <= i

Block(e) == CHOOSE b \in Blocks : b.hash = e.hash
OnChain(e, c) == e.height <= Len(c) /\ c[e.height].hash = e.hash

-----------------------------------------------------------------------------
(* The wallet's fields: what is tracked, reserved, and known of the chain  *)

Tracked(wal) == {o \in Outs : wal.utxos[o] # Null}

Mature(wal, o) ==
  LET u == wal.utxos[o]
  IN  u.coinbase => Maturity <= wal.lastScanned + 1 - u.height

(* What buildSend selects from. *)
Selectable == {o \in Tracked(w) \ w.pending : Mature(w, o)}

(* mutant: a block is scanned whatever its parent is *)
AnyParent(wal, h, b) == TRUE

(* scanBlock's continuity check *)
Continues(wal, h, b) ==
  wal.lastScannedHash # Null /\ h = wal.lastScanned + 1 => b.prev = wal.lastScannedHash

Trimmed(win) == SubSeq(win, Len(win) + 1 - Smaller(Len(win), Window), Len(win))

(* mutant: entries at or above a re-scanned height stay in the window *)
AppendOnly(win, h, hash) ==
  IF hash = Null THEN win ELSE Trimmed(Append(win, [height |-> h, hash |-> hash]))

(* Popping the entries at or above h off the end of the window; since it   *)
(* ascends, the same ones remain as filtering leaves in resetScan.         *)
Popped(win, h) ==
  SubSeq(win, 1, CHOOSE k \in 0..Len(win) : /\ k > 0 => win[k].height < h
                                            /\ \A j \in (k + 1)..Len(win) : h <= win[j].height)

Recorded(win, h, hash) ==
  IF hash = Null THEN win
  ELSE Trimmed(Append(Popped(win, h), [height |-> h, hash |-> hash]))

(* scanBlock past its checks.  trail and skipped are history: the blocks   *)
(* the tracked outputs come from, and the heights passed over on request.  *)
scanBlock(wal, h, b, hash) ==
  [wal EXCEPT
    !.utxos = [o \in Outs |->
                 IF o \in b.spends THEN Null
                 ELSE IF o \in b.pays THEN [height |-> h, coinbase |-> o \in Coinbase]
                 ELSE @[o]],
    !.pending = @ \ b.spends,
    !.lastScanned = h,
    !.lastScannedHash = hash,
    !.scannedHashes = Recorded(@, h, hash),
    !.trail = {e \in @ : e.height # h} \cup {[height |-> h, hash |-> b.hash]},
    !.skipped = @ \ {h}]

(* mutant: the hash of the old position is kept *)
OldHash(win, h) == w.lastScannedHash

HashAt(win, h) ==
  LET at == {i \in DOMAIN win : win[i].height = h}
  IN  IF at = {} THEN Null ELSE win[CHOOSE i \in at : TRUE].hash

(* mutant: the first block above the fork is taken for a survivor *)
AboveNext(wal, h) == {o \in Tracked(wal) : wal.utxos[o].height > h + 1}

(* Supplied outputs, tracked at height 0, are never dropped. *)
Above(wal, h) == {o \in Tracked(wal) : wal.utxos[o].height > h}

(* mutant: the reservations of the outputs dropped go with them *)
ReleaseDropped(wal, dropped) == wal.pending \ dropped

(* Reservations outlive the output: the re-scan may bring it back. *)
PendingKept(wal, dropped) == wal.pending

resetScan(wal, h) ==
  LET dropped == Above(wal, h)
  IN  [wal EXCEPT
        !.utxos = [o \in Outs |-> IF o \in dropped THEN Null ELSE @[o]],
        !.pending = PendingKept(wal, dropped),
        !.scannedHashes = Popped(@, h + 1),
        !.lastScanned = h,
        !.lastScannedHash = HashAt(wal.scannedHashes, h),
        !.trail = {e \in @ : e.height <= h},
        !.skipped = {g \in @ : g <= h}]

(* load() accepts the window of a saved state. *)
Loadable(wal) ==
  LET win == wal.scannedHashes
  IN  /\ Len(win) <= Window
      /\ \A i \in DOMAIN win : /\ win[i].height <= wal.lastScanned
                               /\ i > 1 => win[i - 1].height < win[i].height

-----------------------------------------------------------------------------
Idle == [pc |-> "idle", fromHeight |-> 0, tip |-> 0, from |-> 0,
         asked |-> [height |-> 0, hash |-> Null], entry |-> 0, fetched |-> <<>>]

(* mutant: a path without the finally block *)
StayBusy(kind) == run' = run /\ outcome' = kind /\ during' = during

(* The call settles: finally { this.busy = false }. *)
Settle(kind) == run' = Idle /\ outcome' = kind /\ during' = {}
Continue(phase) == run' = phase /\ UNCHANGED <<outcome, during>>

Empty == [utxos |-> [o \in Outs |-> Null], pending |-> {}, lastScanned |-> 0,
          lastScannedHash |-> Null, scannedHashes |-> <<>>,
          nextExternal |-> 0, nextChange |-> 0, trail |-> {}, skipped |-> {}]

(* TransparentWallet.create, and a first save(). *)
Init ==
  /\ w = Empty /\ disk = [wal |-> Empty, sends |-> {}]
  /\ run = Idle /\ outcome = "none" /\ during = {}
  /\ branch \in Chains /\ height \in 1..Len(branch)
  /\ restarts = 0 /\ reorgs = 0 /\ faults = 0
  /\ sends = {}

-----------------------------------------------------------------------------
(* sync: one action per stretch of code between two awaits *)

SyncStart(fromHeight) ==
  /\ ~Busy
  /\ run' = [Idle EXCEPT !.pc = "count", !.fromHeight = fromHeight]
  /\ during' = {branch}
  /\ UNCHANGED <<w, outcome, durable, node, sends>>

FirstHeight(wal) == Larger(run.fromHeight, wal.lastScanned + 1)

(* The scan position is read once, before the loop. *)
ScanFrom(wal, tip) ==
  IF FirstHeight(wal) <= tip
  THEN Continue([Idle EXCEPT !.pc = "fetch", !.fromHeight = run.fromHeight, !.tip = tip,
                             !.from = FirstHeight(wal)])
  ELSE Settle("resolved")

(* mutant: a replaced last block is not looked for *)
NeverChecked(wal) == FALSE

Checkable(wal) == wal.lastScanned > 0 /\ wal.lastScannedHash # Null

GetBlockCount ==
  /\ run.pc = "count"
  /\ IF Checkable(w)
     THEN Continue([run EXCEPT !.pc = "tip", !.tip = height, !.asked.height = w.lastScanned])
     ELSE ScanFrom(w, height)
  /\ UNCHANGED <<w, durable, node, sends>>

(* The node's answer to getBlockHash for the height asked. *)
Answer(phase, hash) ==
  run.pc = phase /\ run.asked.height <= height /\ hash = branch[run.asked.height].hash

TipConfirmed ==
  /\ Answer("tip", w.lastScannedHash)
  /\ ScanFrom(w, run.tip)
  /\ UNCHANGED <<w, durable, node, sends>>

(* The window is walked newest to oldest, one RPC per entry. *)
WalkFrom(i) ==
  IF i = 0 THEN Settle("diverged")
  ELSE IF i \in DOMAIN w.scannedHashes
  THEN Continue([run EXCEPT !.pc = "walk", !.entry = i, !.asked = w.scannedHashes[i]])
  ELSE Settle("failed")   \* another call cut the window meanwhile: TypeError

TipContradicted ==
  /\ \E hash \in Hashes \ {w.lastScannedHash} : Answer("tip", hash)
  /\ WalkFrom(Len(w.scannedHashes))
  /\ UNCHANGED <<w, durable, node, sends>>

WalkOn ==
  /\ \E hash \in Hashes \ {run.asked.hash} : Answer("walk", hash)
  /\ WalkFrom(run.entry - 1)
  /\ UNCHANGED <<w, durable, node, sends>>

(* resetScan throws when the position moved below the fork meanwhile. *)
WalkFinds ==
  /\ Answer("walk", run.asked.hash)
  /\ IF run.asked.height <= w.lastScanned
     THEN w' = resetScan(w, run.asked.height) /\ ScanFrom(w', run.tip)
     ELSE w' = w /\ Settle("failed")
  /\ UNCHANGED <<durable, node, sends>>

To   == Smaller(run.from + Chunk - 1, run.tip)
Have == DOMAIN run.fetched

FetchBlock(h) ==
  /\ run.pc = "fetch" /\ h \in (run.from..To) \ Have /\ h <= height
  /\ Continue([run EXCEPT !.fetched =
       [g \in Have \cup {h} |-> IF g = h THEN branch[h] ELSE run.fetched[g]]])
  /\ UNCHANGED <<w, durable, node, sends>>

(* A fromHeight above the next block passes over those between.            *)
Skipping == [w EXCEPT !.skipped = @ \cup ((w.lastScanned + 1)..(run.fromHeight - 1))]

(* The blocks of a chunk up to height top, one after another up to the     *)
(* first that does not continue the chain scanned so far.                  *)
ScannedTo(top) ==
  LET upTo[h \in (run.from - 1)..To] ==
        IF h < run.from THEN [wal |-> Skipping, ok |-> TRUE, spent |-> {}]
        ELSE LET prior == upTo[h - 1]  b == run.fetched[h]
             IN  IF prior.ok /\ Continues(prior.wal, h, b)
                 THEN [wal |-> scanBlock(prior.wal, h, b, b.hash), ok |-> TRUE,
                       spent |-> prior.spent \cup b.spends]
                 ELSE [prior EXCEPT !.ok = FALSE]
  IN  upTo[top]

Scanned == ScannedTo(To)

(* A scanned spend settles the sends it belongs to or conflicts with. *)
Observed(spent) ==
  {[s EXCEPT !.status = IF s.inputs \cap spent = {} THEN @ ELSE "settled"] : s \in sends}

(* mutant: the blocks of the last chunk are not cleared *)
KeepBlocks(from) == [run EXCEPT !.from = from]

NextChunk(from) == [run EXCEPT !.from = from, !.fetched = <<>>]

ScanChunk ==
  /\ run.pc = "fetch" /\ Have = run.from..To
  /\ w' = Scanned.wal
  /\ sends' = Observed(Scanned.spent)
  /\ IF ~Scanned.ok THEN Settle("diverged")
     ELSE IF To < run.tip THEN Continue(NextChunk(To + 1))
     ELSE Settle("resolved")
  /\ UNCHANGED <<durable, node>>

(* Block h is malformed: those before it stay scanned.  Past the last one, *)
(* it is onProgress that throws.                                           *)
ScanBreaks(h) ==
  /\ run.pc = "fetch" /\ Have = run.from..To
  /\ faults < MaxFaults /\ faults' = faults + 1
  /\ ScannedTo(h - 1).ok
  /\ w' = ScannedTo(h - 1).wal
  /\ sends' = Observed(ScannedTo(h - 1).spent)
  /\ Settle("failed")
  /\ UNCHANGED <<durable, branch, height, reorgs>>

(* An await rejects: RPC or transport error, a height the chain no longer  *)
(* has.  An abort between chunks has the same effect.                      *)
SyncFails ==
  LET gone == \/ run.pc \in {"tip", "walk"} /\ height < run.asked.height
              \/ run.pc = "fetch" /\ \E h \in (run.from..To) \ Have : height < h
  IN  /\ Busy
      /\ gone \/ faults < MaxFaults
      /\ faults' = IF gone THEN faults ELSE faults + 1
      /\ Settle("failed")
      /\ UNCHANGED <<w, durable, branch, height, reorgs, sends>>

-----------------------------------------------------------------------------
(* The application *)

(* No sync holds the guard; otherwise WalletBusyError. *)
Free == ~Busy

(* scanBlock does not check it itself, nor does resetScan below. *)
Overlaps == Busy => Interfering

FeedBlock(h, hash) ==
  /\ Feeding /\ Overlaps
  /\ h \in 1..height
  /\ hash = branch[h].hash \/ (Hashless /\ hash = Null)
  /\ Continues(w, h, branch[h])
  /\ w' = scanBlock(w, h, branch[h], hash)
  /\ sends' = Observed(branch[h].spends)
  /\ UNCHANGED <<sync, durable, node>>

(* The recovery that is documented: by hand, once a sync told so, to a     *)
(* height below every fork.                                                *)
Advised(h) ==
  /\ ~Busy /\ outcome = "diverged"
  /\ \A e \in w.trail, c \in Chains : e.height <= h => OnChain(e, c)

(* An interfering application resets at any time to any height scanned.    *)
Reset(h) ==
  /\ Interfering \/ Advised(h)
  /\ h <= w.lastScanned
  /\ w' = resetScan(w, h)
  /\ outcome' = "none"
  /\ UNCHANGED <<run, during, durable, node, sends>>

SpentOnChain == UNION {branch[h].spends : h \in 1..height}

(* Outputs O the application learnt of elsewhere, still unspent, and spent *)
(* inputs S: no height, no guard.  addUtxo is the case of one output.      *)
scan(O, S) ==
  /\ O \subseteq Supplied \ (SpentOnChain \cup UNION {s.inputs : s \in sends})
  /\ S \subseteq SpentOnChain /\ (S # {} => Feeding)
  /\ w' = [w EXCEPT
       !.utxos = [o \in Outs |-> IF o \in S THEN Null
                                 ELSE IF o \in O THEN [height |-> 0, coinbase |-> FALSE]
                                 ELSE @[o]],
       !.pending = @ \ S]
  /\ sends' = Observed(S)
  /\ UNCHANGED <<sync, durable, node>>

newAddress ==
  /\ w.nextExternal < Gap
  /\ w' = [w EXCEPT !.nextExternal = @ + 1]
  /\ UNCHANGED <<sync, durable, node, sends>>

(* Select, sign and reserve; change takes the next change address. *)
buildSend(N, change) ==
  /\ Free
  /\ Cardinality(sends) < MaxSends
  /\ N # {} /\ N \subseteq Selectable
  /\ change \in 0..1 /\ w.nextChange + change <= Gap
  /\ w' = [w EXCEPT !.pending = @ \cup N, !.nextChange = @ + change]
  /\ sends' = sends \cup {[inputs |-> N, status |-> "open"]}
  /\ UNCHANGED <<sync, durable, node>>

(* The broadcast succeeded: no guard. *)
markSpent(s) ==
  /\ s.status # "marked"
  /\ w' = [w EXCEPT !.utxos = [o \in Outs |-> IF o \in s.inputs THEN Null ELSE @[o]],
                    !.pending = @ \ s.inputs]
  /\ sends' = (sends \ {s}) \cup {[s EXCEPT !.status = "marked"]}
  /\ UNCHANGED <<sync, durable, node>>

(* The broadcast was definitively rejected: no guard either. *)
release(s) ==
  /\ s.status = "open"
  /\ w' = [w EXCEPT !.pending = @ \ s.inputs]
  /\ sends' = sends \ {s}
  /\ UNCHANGED <<sync, durable, node>>

Image == w

save ==
  /\ restarts < MaxRestarts   \* a later save would never be read
  /\ disk' = [wal |-> Image, sends |-> sends]
  /\ UNCHANGED <<w, sync, restarts, node, sends>>

(* The process dies and load() restores the last save(); what was built    *)
(* since is forgotten.                                                     *)
Restart ==
  /\ restarts < MaxRestarts
  /\ restarts' = restarts + 1
  /\ Loadable(disk.wal)
  /\ w' = disk.wal /\ sends' = disk.sends
  /\ Settle("none")
  /\ UNCHANGED <<disk, node>>

-----------------------------------------------------------------------------
(* The node *)

Grow ==
  /\ height < Len(branch)
  /\ height' = height + 1
  /\ UNCHANGED <<w, sync, durable, branch, reorgs, faults, sends>>

Reorg ==
  /\ reorgs < MaxReorgs
  /\ reorgs' = reorgs + 1
  /\ branch' \in Chains \ {branch} /\ height' \in 1..Len(branch')
  /\ during' = IF Busy THEN during \cup {branch'} ELSE during
  /\ UNCHANGED <<w, run, outcome, durable, faults, sends>>

-----------------------------------------------------------------------------
Heights == 0..MaxHeight

Progress ==
  \/ GetBlockCount \/ TipConfirmed \/ TipContradicted \/ WalkOn \/ WalkFinds
  \/ (\E h \in Heights : FetchBlock(h)) \/ ScanChunk
  \/ (\E h \in run.from..(To + 1) : ScanBreaks(h)) \/ SyncFails

StartSync == \E fromHeight \in FromHeights : SyncStart(fromHeight)

ManualReset == \E h \in Heights : Reset(h)

Application ==
  \/ StartSync \/ ManualReset
  \/ \E h \in Heights, hash \in Hashes \cup {Null} : FeedBlock(h, hash)
  \/ \E O \in SUBSET Supplied, S \in SUBSET SpentOnChain : scan(O, S)
  \/ newAddress
  \/ \E N \in SUBSET Selectable, change \in 0..1 : buildSend(N, change)
  \/ \E s \in sends : markSpent(s) \/ release(s)
  \/ save \/ Restart

Next == Progress \/ Application \/ Grow \/ Reorg

Spec == Init /\ [][Next]_vars

(* Every await settles; an application that keeps syncing, and resets by   *)
(* hand once a sync told it to; a node that catches up with its branch.    *)
FairSpec ==
  /\ Spec
  /\ WF_vars(Progress) /\ WF_vars(StartSync) /\ WF_vars(Grow)
  /\ SF_vars(ManualReset)

-----------------------------------------------------------------------------
(* Properties *)

Entries == [height : Nat, hash : Hashes]

Wallets ==
  [utxos : [Outs -> [height : Nat, coinbase : BOOLEAN] \cup {Null}],
   pending : SUBSET Outs, lastScanned : Nat, lastScannedHash : Hashes \cup {Null},
   scannedHashes : Seq(Entries), nextExternal : 0..Gap, nextChange : 0..Gap,
   trail : SUBSET Entries, skipped : SUBSET Nat]

Sends == [inputs : SUBSET Outs, status : {"open", "marked", "settled"}]

TypeOK ==
  /\ w \in Wallets /\ disk \in [wal : Wallets, sends : SUBSET Sends]
  /\ run \in [pc : {"idle", "count", "tip", "walk", "fetch"}, fromHeight : Nat, tip : Nat,
             from : Nat, asked : [height : Nat, hash : Hashes \cup {Null}], entry : Nat,
             fetched : {run.fetched}]
  /\ run.fetched \in [Have -> Blocks] /\ Have \subseteq run.from..To
  /\ outcome \in {"none", "resolved", "failed", "diverged"}
  /\ branch \in Chains /\ height \in 1..Len(branch)
  /\ during \subseteq Chains /\ sends \subseteq Sends
  /\ reorgs \in Nat /\ faults \in Nat /\ restarts \in Nat

(* Whatever is scanned, replayed or reset, load() accepts what save()      *)
(* writes (CHANGELOG 0.7.0).                                               *)
SavedStateLoads == Loadable(w)

(* The hashes a walk-back will trust are those of the blocks the tracked   *)
(* outputs really came from.                                               *)
WindowTrue ==
  /\ \A i \in DOMAIN w.scannedHashes : w.scannedHashes[i] \in w.trail
  /\ w.lastScannedHash # Null =>
       [height |-> w.lastScanned, hash |-> w.lastScannedHash] \in w.trail

(* No height from a to b is missing among the blocks scanned. *)
Unbroken(wal, a, b) == \A h \in a..b : \E e \in wal.trail : e.height = h

(* The blocks scanned without a hole up to the position: all of them,      *)
(* unless a fromHeight passed over some.                                   *)
Latest(wal) == {e \in wal.trail : Unbroken(wal, e.height, wal.lastScanned)}

(* Of the heights up to the position none is missing but those a sync was  *)
(* told to pass over, and blocks with no hole between them are of one      *)
(* chain: never a mix of two branches.                                     *)
OneChainScanned ==
  /\ \A h \in 1..w.lastScanned : h \in w.skipped \/ \E e \in w.trail : e.height = h
  /\ \A e \in w.trail :
       /\ e.height \in 1..w.lastScanned
       /\ \E c \in Chains : \A f \in w.trail :
            f.height <= e.height /\ Unbroken(w, f.height, e.height) => OnChain(f, c)

(* Every scanned output that is tracked was created by a block the wallet  *)
(* still counts as scanned, and no block scanned since spends it.          *)
OutputsFollowBlocks ==
  \A o \in Tracked(w) :
    LET h == w.utxos[o].height
    IN  h > 0 => /\ \E e \in w.trail : e.height = h /\ o \in Block(e).pays
                 /\ \A e \in w.trail : h <= e.height => o \notin Block(e).spends

Resolves == Busy /\ ~Busy' /\ outcome' = "resolved"

(* A sync that resolves has scanned every block from its fromHeight to the *)
(* tip it was told, and what is scanned without a hole up to its position  *)
(* follows a branch the node was on meanwhile.                             *)
ResolvedFollowsNode ==
  [][ Resolves => /\ run.tip <= w'.lastScanned \/ run.tip < run.fromHeight
                  /\ \E c \in during : \A e \in Latest(w') : OnChain(e, c) ]_vars

(* A reorg is repaired or reported, never are orphaned outputs retained in *)
(* silence (wallet/src/transparent-wallet.ts:375-376, CHANGELOG): once a   *)
(* sync resolves, the outputs tracked are all of one branch the node was   *)
(* on meanwhile.  Not so below a hole that a fromHeight left (README,      *)
(* deviations).                                                            *)
NoOrphanRetained ==
  [][ Resolves => \E c \in during : \A o \in Tracked(w') :
        w'.utxos[o].height > 0 =>
          \E e \in w'.trail : e.height = w'.utxos[o].height /\ OnChain(e, c) ]_vars

(* Outputs of sends that were marked spent, or seen spent in a block. *)
SeenSpent == UNION {s.inputs : s \in {t \in sends : t.status # "open"}}

(* The inputs of a send stay reserved until it is marked spent, released,  *)
(* or a scanned block spends one of them, and no two open sends share one: *)
(* through reorgs, re-scans, resets, crashes and restores.  An output that *)
(* was seen spent once and is credited again by a re-scan is out of the    *)
(* promise (README, deviations).                                           *)
OpenSendsHold ==
  LET open == {s \in sends : s.status = "open"}
  IN  /\ \A s \in open : s.inputs \subseteq w.pending \cup SeenSpent
      /\ \A s, t \in open : s # t => s.inputs \cap t.inputs \subseteq SeenSpent

(* A recovery cannot double-select the inputs of a broadcast in flight     *)
(* (CHANGELOG, wallet/src/transparent-wallet.ts:301).  Not so once the     *)
(* send was marked spent or seen in a block (README, deviations).          *)
InFlightNotSelectable == \A s \in sends : s.inputs \cap Selectable = {}

UnspentOn(c, h) ==
  UNION {c[i].pays : i \in 1..h} \ UNION {c[i].spends : i \in 1..h}

(* The UTXO set heals: once a sync resolves on a branch, the wallet tracks *)
(* every output the scanned part of that branch leaves unspent.            *)
SelfHeals ==
  [][ Resolves => \E c \in during :
        /\ w'.lastScanned <= Len(c)
        /\ UnspentOn(c, w'.lastScanned) \subseteq Tracked(w') ]_vars

(* Every sync settles. *)
SyncSettles == Busy ~> ~Busy

(* Once the node has settled on a branch, syncing again and again (and a   *)
(* reset by hand when the fork is below the window) ends at its tip, with  *)
(* exactly that branch scanned down to the last hole a fromHeight left.    *)
Heals == <>[](w.lastScanned = height /\ \A e \in Latest(w) : OnChain(e, branch))

=============================================================================
