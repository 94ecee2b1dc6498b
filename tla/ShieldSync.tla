----------------------------- MODULE ShieldSync -----------------------------
(***************************************************************************)
(* The scanning half of the shield wallet (wallet/src/wallet.ts): how      *)
(* PivxWallet follows a node whose active chain grows and reorganizes      *)
(* between any two answers, how it recovers after a divergence, and what   *)
(* it keeps over a crash.                                                  *)
(*                                                                         *)
(* A chain is a sequence of blocks, a block the sequence of its shield     *)
(* transactions.  Each of those adds its own commitments, so a commitment  *)
(* tree is the sequence of the transactions added to it, and two trees     *)
(* have the same sapling root iff they are the same sequence.  A note is   *)
(* named by what its nullifier depends on: the transaction that created it *)
(* and its position in the tree.  getBlock(hash) answers the same whatever *)
(* the node's chain is by then, so a height is read when its hash is.      *)
(***************************************************************************)
EXTENDS Integers, Sequences, FiniteSets

CONSTANTS
  Txs,           (* shield transactions                                     *)
  Mine,          (* those with an output to this wallet                     *)
  SpendsOf,      (* tx -> this wallet's notes it spends                     *)
  Chains,        (* what the node's active chain may be a prefix of         *)
  Checkpoints,   (* height -> tree, as bundled; some taken on stale blocks  *)
  Activation,    (* SAPLING_ACTIVATION                                      *)
  BirthHeight,   (* where the wallet was created                            *)
  BatchSize, Concurrency,
  NoRoot,        (* a block without finalsaplingroot                        *)
  Feeding,       (* the application also calls handleBlocks                 *)
  Disciplined,   (* it reloads only as docs/usage.md says, after an error   *)
  MaxReorgs,     (* bound: changes of branch                                *)
  MaxFaults,     (* bound: failed, aborted or garbled fetches               *)
  MaxRestarts    (* bound: crashes followed by load()                       *)

ASSUME BatchAssumption == BatchSize \in Nat \ {0} /\ Concurrency \in Nat \ {0}
ASSUME SwitchAssumption == Feeding \in BOOLEAN /\ Disciplined \in BOOLEAN
ASSUME CheckpointAssumption ==
  /\ Checkpoints \in [DOMAIN Checkpoints -> Seq(Txs)]
  /\ DOMAIN Checkpoints \subseteq Nat /\ DOMAIN Checkpoints # {}
  /\ BirthHeight \in Nat
  /\ \A h \in DOMAIN Checkpoints : h < Activation =>
       Checkpoints[h] = <<>> /\ \E c \in Chains : h <= Len(c)
ASSUME ChainAssumption ==
  /\ Chains \subseteq Seq(Seq(Txs)) /\ Mine \subseteq Txs
  /\ \E c \in Chains : \A d \in Chains : Len(d) <= Len(c)
  /\ Activation \in Nat /\ NoRoot \notin Seq(Txs)
  /\ SpendsOf \in [Txs -> SUBSET [tx : Mine, pos : Nat \ {0}]]

VARIABLES
  (* fields of PivxWallet *)
  commitmentTree, lastProcessedBlock, notes, pendingSpends, startValidated,
  run,              (* the sync in progress and its locals; busy iff not idle *)
  outcome,          (* how the last sync settled                              *)
  disk, restarts,   (* the last save(), and how often it was restored         *)
  (* the node *)
  branch, height,   (* its active chain is branch up to height                *)
  reorgs, faults,
  (* history *)
  base,             (* length of the checkpoint's tree the wallet started at  *)
  finalized,        (* notes finalizeTransaction dropped                      *)
  fed,              (* whether it took blocks from handleBlocks since         *)
  during            (* the branches that were active since the sync started   *)

origin  == <<base, finalized, fed>>
tracked == <<commitmentTree, lastProcessedBlock, notes, pendingSpends, origin>>
sync    == <<run, outcome, during>>
durable == <<disk, restarts>>
node    == <<branch, height, reorgs, faults>>
vars    == <<tracked, startValidated, sync, durable, node>>

-----------------------------------------------------------------------------
(* Chains and trees *)

Smaller(a, b) == IF a < b THEN a ELSE b
MaxHeight == CHOOSE h \in {Len(c) : c \in Chains} : \A c \in Chains : Len(c) <= h

(* The shield transactions of blocks lo..hi; those below activation are    *)
(* never scanned, and hold no shield data.                                 *)
Scanned(block, lo, hi) ==
  LET upTo[h \in (lo - 1)..hi] ==
        IF h < lo THEN <<>>
        ELSE upTo[h - 1] \o (IF h >= Activation THEN block[h] ELSE <<>>)
  IN  upTo[hi]

TreeAt(chain, h) == Scanned(chain, 1, h)

(* This wallet's notes created, and spent, beyond the first `from` of tree. *)
NotesIn(tree, from) ==
  {[tx |-> tree[i], pos |-> i] : i \in {j \in (from + 1)..Len(tree) : tree[j] \in Mine}}
SpentIn(tree, from) == UNION {SpendsOf[tree[i]] : i \in (from + 1)..Len(tree)}

(* On a chain a note is spent after the transaction that created it.       *)
ASSUME CausalAssumption ==
  \A c \in Chains : \A h \in 0..Len(c) :
    LET tree == TreeAt(c, h)
    IN  \A i, j \in 1..Len(tree) :
          [tx |-> tree[j], pos |-> j] \in SpendsOf[tree[i]] => j < i

(* shield.get_closest_checkpoint: the newest not above h, else the oldest. *)
Closest(h) ==
  CHOOSE c \in DOMAIN Checkpoints :
    \A d \in DOMAIN Checkpoints : IF c <= h THEN d <= h => d <= c ELSE h < d /\ c <= d

Busy == run.pc # "idle"

-----------------------------------------------------------------------------
Idle == [pc |-> "idle", tip |-> 0, probe |-> 0, lastCp |-> 0, fetched |-> <<>>]

(* mutant: a path without the finally block *)
StayBusy(kind, h) ==
  /\ run' = IF kind = "failed" THEN run ELSE Idle
  /\ outcome' = [kind |-> kind, height |-> h] /\ during' = during

(* The call settles: finally { this.busy = false }. *)
Settle(kind, h) ==
  run' = Idle /\ outcome' = [kind |-> kind, height |-> h] /\ during' = {}

Continue(phase) == run' = phase /\ UNCHANGED <<outcome, during>>

(* What save() writes; base, finalized and fed are history. *)
Image == [tree |-> commitmentTree, last |-> lastProcessedBlock, notes |-> notes,
          pending |-> pendingSpends, base |-> base, finalized |-> finalized,
          fed |-> fed]

(* PivxWallet.create at BirthHeight, and a first save(). *)
Init ==
  /\ lastProcessedBlock = Closest(BirthHeight)
  /\ commitmentTree = Checkpoints[lastProcessedBlock]
  /\ base = Len(commitmentTree)
  /\ notes = {} /\ pendingSpends = {} /\ finalized = {} /\ fed = FALSE
  /\ startValidated = FALSE
  /\ run = Idle /\ outcome = [kind |-> "none", height |-> 0] /\ during = {}
  /\ branch \in Chains /\ height \in 1..Len(branch)
  /\ reorgs = 0 /\ faults = 0
  /\ disk = Image /\ restarts = 0

-----------------------------------------------------------------------------
(* sync: one action per stretch of code between two awaits *)

SyncStart ==
  /\ ~Busy
  /\ Disciplined => outcome.kind # "diverged"
  /\ run' = [Idle EXCEPT !.pc = "count"]
  /\ during' = {branch}
  /\ UNCHANGED <<tracked, startValidated, outcome, durable, node>>

Diverges(h) ==
  Settle("diverged", h) /\ UNCHANGED <<tracked, startValidated, durable, node>>

(* nodeSaplingRoot at h: the node's root there, but null below activation. *)
Readable(h) == h < Activation \/ h <= height
Agrees(tree, h) == h < Activation \/ tree = TreeAt(branch, h)

(* mutant: the blocks of the last batch are not cleared *)
KeepBlocks(tip, last) ==
  IF last < tip THEN Continue([run EXCEPT !.pc = "fetch", !.tip = tip])
                ELSE Settle("resolved", tip)

BatchLoop(tip, last) ==
  IF last < tip THEN Continue([Idle EXCEPT !.pc = "fetch", !.tip = tip])
                ELSE Settle("resolved", tip)

(* Once the start is validated: only at the very tip is the tree compared  *)
(* with the node's before the loop.                                        *)
AfterStart(tip, last) ==
  IF last = tip THEN Continue([Idle EXCEPT !.pc = "tip", !.tip = tip])
                ELSE BatchLoop(tip, last)

GetBlockCount ==
  /\ run.pc = "count"
  /\ IF startValidated THEN AfterStart(height, lastProcessedBlock)
     ELSE Continue([run EXCEPT !.pc = "start", !.tip = height])
  /\ UNCHANGED <<tracked, startValidated, durable, node>>

(* ensureValidCheckpoint: the wallet's own tree *)
StartConfirmed ==
  /\ run.pc = "start"
  /\ Readable(lastProcessedBlock) /\ Agrees(commitmentTree, lastProcessedBlock)
  /\ startValidated' = TRUE
  /\ AfterStart(run.tip, lastProcessedBlock)
  /\ UNCHANGED <<tracked, durable, node>>

(* mutant: a wallet that holds notes is rewound like a fresh one *)
AtCheckpoint == lastProcessedBlock \in DOMAIN Checkpoints

(* Only a wallet that sits on a checkpoint and holds nothing is rewound. *)
Fresh == AtCheckpoint /\ notes = {} /\ pendingSpends = {}

StartContradicted ==
  /\ run.pc = "start"
  /\ Readable(lastProcessedBlock) /\ ~Agrees(commitmentTree, lastProcessedBlock)
  /\ IF Fresh
     THEN /\ Continue([run EXCEPT !.pc = "walk", !.probe = lastProcessedBlock - 1,
                                  !.lastCp = lastProcessedBlock])
          /\ UNCHANGED <<tracked, startValidated, durable, node>>
     ELSE Diverges(lastProcessedBlock)

(* ensureValidCheckpoint: back over the bundled checkpoints, one per await *)
OlderExists == run.probe > 0 /\ Closest(run.probe) < run.lastCp

StartAt(cp) ==
  /\ commitmentTree' = Checkpoints[cp]
  /\ lastProcessedBlock' = cp
  /\ base' = Len(Checkpoints[cp])
  /\ finalized' = {} /\ fed' = FALSE

WalkExhausted == run.pc = "walk" /\ ~OlderExists /\ Diverges(lastProcessedBlock)

Confirmed(cp) == Agrees(Checkpoints[cp], cp)

WalkAdopts ==
  LET cp == Closest(run.probe)
  IN  /\ run.pc = "walk" /\ OlderExists
      /\ Readable(cp) /\ Confirmed(cp)
      /\ StartAt(cp)
      /\ startValidated' = TRUE
      /\ AfterStart(run.tip, cp)
      /\ UNCHANGED <<notes, pendingSpends, durable, node>>

WalkSkips ==
  LET cp == Closest(run.probe)
  IN  /\ run.pc = "walk" /\ OlderExists
      /\ Readable(cp) /\ ~Confirmed(cp)
      /\ Continue([run EXCEPT !.probe = cp - 1, !.lastCp = cp])
      /\ UNCHANGED <<tracked, startValidated, durable, node>>

(* mutant: a same-height reorg at the tip is not looked for *)
NotCompared(h) == TRUE

TipMatches(h) == Agrees(commitmentTree, h)

TipConfirmed ==
  /\ run.pc = "tip" /\ Readable(run.tip) /\ TipMatches(run.tip)
  /\ Settle("resolved", run.tip)
  /\ UNCHANGED <<tracked, startValidated, durable, node>>

TipContradicted ==
  /\ run.pc = "tip" /\ Readable(run.tip) /\ ~TipMatches(run.tip)
  /\ Diverges(run.tip)

-----------------------------------------------------------------------------
(* The batch loop *)

From == lastProcessedBlock + 1
To   == Smaller(From + BatchSize - 1, run.tip)
Have == DOMAIN run.fetched

(* Chunks of Concurrency heights are fetched one after another, the        *)
(* heights of one chunk in any order.                                      *)
Wanted(h) ==
  /\ run.pc = "fetch" /\ h \in (From..To) \ Have
  /\ \A g \in From..To : (g - From) \div Concurrency < (h - From) \div Concurrency
                         => g \in Have

Store(h, txs, root) ==
  Continue([run EXCEPT !.fetched = [g \in Have \cup {h} |->
     IF g = h THEN [txs |-> txs, root |-> root] ELSE run.fetched[g]]])

(* Only the root of the batch's last block is looked at. *)
RootOf(h) == IF h = To THEN TreeAt(branch, h) ELSE NoRoot

FetchBlock(h) ==
  /\ Wanted(h) /\ h <= height
  /\ Store(h, branch[h], RootOf(h))
  /\ UNCHANGED <<tracked, startValidated, durable, node>>

(* The node serves a block without its transactions, or without its root. *)
FetchGarbled(h) ==
  /\ Wanted(h) /\ h <= height
  /\ faults < MaxFaults
  /\ Store(h, <<>>, RootOf(h)) \/ Store(h, branch[h], NoRoot)
  /\ faults' = faults + 1
  /\ UNCHANGED <<tracked, startValidated, durable, branch, height, reorgs>>

(* An await rejects: RPC or transport error, or a height the node's chain  *)
(* no longer has.  An abort at a chunk boundary has the same effect.       *)
Rejects(h) ==
  /\ h > height \/ faults < MaxFaults
  /\ faults' = IF h > height THEN faults ELSE faults + 1
  /\ Settle("failed", 0)
  /\ UNCHANGED <<tracked, startValidated, durable, branch, height, reorgs>>

SyncFails ==
  \/ run.pc = "count" /\ Rejects(0)
  \/ run.pc = "start" /\ lastProcessedBlock >= Activation /\ Rejects(lastProcessedBlock)
  \/ run.pc = "walk" /\ OlderExists /\ Closest(run.probe) >= Activation
                     /\ Rejects(Closest(run.probe))
  \/ run.pc = "tip" /\ run.tip >= Activation /\ Rejects(run.tip)
  \/ \E h \in From..To : Wanted(h) /\ Rejects(h)

(* mutant: the notes of a batch replace the earlier ones *)
OnlyNew(tree) == NotesIn(tree, Len(commitmentTree)) \ SpentIn(tree, Len(commitmentTree))

(* applyBlocks, on the transactions of the batch in block order *)
Kept(tree) ==
  LET from == Len(commitmentTree)
  IN  (notes \cup NotesIn(tree, from)) \ SpentIn(tree, from)

applyBlocks(tree, last) ==
  /\ commitmentTree' = tree
  /\ lastProcessedBlock' = last
  /\ notes' = Kept(tree)
  /\ pendingSpends' = {N \in pendingSpends : N \cap notes' # {}}
  /\ UNCHANGED <<base, finalized>>

FetchedTree ==
  commitmentTree \o Scanned([h \in Have |-> run.fetched[h].txs], From, To)

RootMatches(tree) == To < Activation \/ run.fetched[To].root = tree

BatchVerified ==
  /\ run.pc = "fetch" /\ Have = From..To
  /\ RootMatches(FetchedTree)
  /\ applyBlocks(FetchedTree, To) /\ fed' = fed
  /\ BatchLoop(run.tip, To)
  /\ UNCHANGED <<startValidated, durable, node>>

(* mutant: notes and position go back, the tree does not *)
TreeKept(tree) == commitmentTree' = tree

(* The snapshot taken before applyBlocks is put back. *)
Rollback(tree) == UNCHANGED commitmentTree

BatchRefused ==
  /\ run.pc = "fetch" /\ Have = From..To
  /\ ~RootMatches(FetchedTree)
  /\ Rollback(FetchedTree)
  /\ Settle(IF run.fetched[To].root = NoRoot THEN "failed" ELSE "diverged", To)
  /\ UNCHANGED <<lastProcessedBlock, notes, pendingSpends, origin,
                 startValidated, durable, node>>

-----------------------------------------------------------------------------
(* The application *)

(* Its own feed: strictly ascending heights of the active chain, all above *)
(* the last one processed, but not necessarily consecutive.                *)
handleBlocks(H) ==
  /\ Feeding /\ ~Busy
  /\ H # {} /\ H \subseteq From..height
  /\ LET last == CHOOSE h \in H : \A g \in H : g <= h
         given == [h \in From..last |-> IF h \in H THEN branch[h] ELSE <<>>]
     IN  applyBlocks(commitmentTree \o Scanned(given, From, last), last)
  /\ fed' = TRUE
  /\ UNCHANGED <<startValidated, sync, durable, node>>

(* mutant: the reloaded checkpoint is taken on trust *)
StillValidated == startValidated

(* The reloaded checkpoint is confirmed on the next sync. *)
Unvalidated == FALSE

reloadFromCheckpoint(h) ==
  /\ ~Busy
  /\ Disciplined => outcome.kind = "diverged" /\ h <= outcome.height
  /\ StartAt(Closest(h))
  /\ notes' = {} /\ pendingSpends' = {}
  /\ startValidated' = Unvalidated
  /\ outcome' = [kind |-> "reloaded", height |-> 0]
  /\ UNCHANGED <<run, during, durable, node>>

(* What module ShieldSpend models in full: a build that reserves N, and    *)
(* the end of a reservation.                                               *)
createTransaction(N) ==
  /\ ~Busy
  /\ N # {} /\ N \subseteq notes \ UNION pendingSpends
  /\ pendingSpends' = pendingSpends \cup {N}
  /\ UNCHANGED <<commitmentTree, lastProcessedBlock, notes, origin,
                 startValidated, sync, durable, node>>

finalizeTransaction(N) ==
  /\ N \in pendingSpends
  /\ notes' = notes \ N /\ finalized' = finalized \cup N
  /\ pendingSpends' = pendingSpends \ {N}
  /\ UNCHANGED <<commitmentTree, lastProcessedBlock, base, fed, startValidated, sync,
                 durable, node>>

discardTransaction(N) ==
  /\ N \in pendingSpends
  /\ pendingSpends' = pendingSpends \ {N}
  /\ UNCHANGED <<commitmentTree, lastProcessedBlock, notes, origin,
                 startValidated, sync, durable, node>>

save ==
  /\ restarts < MaxRestarts   \* a later save would never be read
  /\ disk' = Image
  /\ UNCHANGED <<tracked, startValidated, sync, restarts, node>>

(* The process dies and load() restores the last save().  That the start   *)
(* was validated is not saved.                                             *)
Restart ==
  /\ restarts < MaxRestarts
  /\ restarts' = restarts + 1
  /\ commitmentTree' = disk.tree /\ lastProcessedBlock' = disk.last
  /\ notes' = disk.notes /\ pendingSpends' = disk.pending
  /\ base' = disk.base /\ finalized' = disk.finalized /\ fed' = disk.fed
  /\ startValidated' = FALSE
  /\ Settle("none", 0)
  /\ UNCHANGED <<disk, node>>

-----------------------------------------------------------------------------
(* The node *)

Grow ==
  /\ height < Len(branch)
  /\ height' = height + 1
  /\ UNCHANGED <<tracked, startValidated, sync, durable, branch, reorgs, faults>>

Reorg ==
  /\ reorgs < MaxReorgs
  /\ reorgs' = reorgs + 1
  /\ branch' \in Chains \ {branch} /\ height' \in 1..Len(branch')
  /\ during' = IF Busy THEN during \cup {branch'} ELSE during
  /\ UNCHANGED <<tracked, startValidated, run, outcome, durable, faults>>

-----------------------------------------------------------------------------
Heights == 0..MaxHeight

Progress ==
  \/ GetBlockCount
  \/ StartConfirmed \/ StartContradicted
  \/ WalkExhausted \/ WalkAdopts \/ WalkSkips
  \/ TipConfirmed \/ TipContradicted
  \/ \E h \in Heights : FetchBlock(h) \/ FetchGarbled(h)
  \/ BatchVerified \/ BatchRefused \/ SyncFails

Recover == \E h \in Heights : reloadFromCheckpoint(h)

Application ==
  \/ SyncStart \/ Recover
  \/ \E H \in SUBSET Heights : handleBlocks(H)
  \/ \E N \in SUBSET notes : createTransaction(N)
  \/ \E N \in pendingSpends : finalizeTransaction(N) \/ discardTransaction(N)
  \/ save \/ Restart

Next == Progress \/ Application \/ Grow \/ Reorg

Spec == Init /\ [][Next]_vars

(* Every await settles; an application that syncs again and again and      *)
(* recovers as documented; a node that catches up with its branch.         *)
FairSpec ==
  Spec /\ WF_vars(Progress) /\ WF_vars(SyncStart) /\ WF_vars(Recover) /\ WF_vars(Grow)

-----------------------------------------------------------------------------
(* Properties *)

Note == [tx : Mine, pos : Nat \ {0}]

Phases == {"idle", "count", "start", "walk", "tip", "fetch"}

Kinds == {"none", "resolved", "failed", "diverged", "reloaded"}

Books == [tree : Seq(Txs), last : Nat, notes : SUBSET Note,
          pending : SUBSET SUBSET Note, base : Nat, finalized : SUBSET Note,
          fed : BOOLEAN]

Fetched == [txs : Seq(Txs), root : Seq(Txs) \cup {NoRoot}]

TypeOK ==
  /\ Image \in Books /\ disk \in Books
  /\ startValidated \in BOOLEAN
  /\ run \in [pc : Phases, tip : Nat, probe : Int, lastCp : Nat,
             fetched : {run.fetched}]
  /\ run.fetched \in [Have -> Fetched] /\ Have \subseteq From..To
  /\ outcome \in [kind : Kinds, height : Nat]
  /\ branch \in Chains /\ height \in 1..Len(branch)
  /\ during \subseteq Chains /\ (Busy <=> during # {})
  /\ reorgs \in Nat /\ faults \in Nat /\ restarts \in Nat

Real(tree, last, chains) == \E c \in chains : last <= Len(c) /\ tree = TreeAt(c, last)

(* A wallet that only syncs never holds a tree of no chain, whatever mix   *)
(* of blocks a reorg, a garbling node or an abort lets it fetch: only      *)
(* fully applied, root-verified batches are kept (docs/FEATURES.md).  A    *)
(* wallet yet to be validated may still sit on a stale checkpoint, and one *)
(* fed by handleBlocks holds what it was fed.                              *)
TreeIsReal ==
  \/ fed
  \/ Real(commitmentTree, lastProcessedBlock, Chains)
  \/ /\ ~startValidated /\ AtCheckpoint
     /\ commitmentTree = Checkpoints[lastProcessedBlock]

(* The notes are exactly those of the scanned blocks, neither more nor     *)
(* fewer, less what was spent there or given up by finalizeTransaction:    *)
(* over batches cut anywhere, rollbacks, recoveries, saves and restores.   *)
NotesExact ==
  notes = (NotesIn(commitmentTree, base) \ SpentIn(commitmentTree, base)) \ finalized

(* A sync in progress takes a tracked note away only if it scanned the     *)
(* transaction that spends it: no rollback and no rewind loses one.        *)
SyncNeverForgets ==
  [][ Busy /\ restarts' = restarts =>
        notes \ notes' \subseteq finalized' \cup SpentIn(commitmentTree', base') ]_vars

Resolves == Busy /\ ~Busy' /\ outcome'.kind = "resolved"

(* A sync that resolves at a tip it had to reach or to check leaves the    *)
(* tree of a branch the node was on while it ran, even if what the wallet  *)
(* held before came from a stale branch or from a feed with holes.         *)
ResolvedIsCurrent ==
  [][ Resolves /\ lastProcessedBlock' <= outcome'.height
        => Real(commitmentTree', lastProcessedBlock', during) ]_vars

(* docs/FEATURES.md: sync raises a divergence error if the local tree      *)
(* stops matching the node.  Not so when the node's tip is lower than the  *)
(* wallet's position (README, deviations).                                 *)
DivergenceRaised ==
  [][ Resolves => Real(commitmentTree', lastProcessedBlock', during) ]_vars

(* docs/usage.md: recovery is reloadFromCheckpoint(e.height), then sync.   *)
(* After it the wallet holds every unspent note the chain paid it since    *)
(* its birth height.  Not so for notes created below the checkpoint that   *)
(* the height given leads to (README, deviations).                         *)
RecoveryKeepsFunds ==
  [][ Resolves => \A c \in during :
        Real(commitmentTree', lastProcessedBlock', {c}) =>
          LET born == Len(TreeAt(c, Smaller(BirthHeight, lastProcessedBlock')))
          IN  NotesIn(commitmentTree', born) \ SpentIn(commitmentTree', born)
                \subseteq notes' \cup finalized' ]_vars

(* Every sync settles, and the application can go on. *)
SyncSettles == Busy ~> ~Busy

(* Once the node has settled on a branch that the oldest bundled           *)
(* checkpoint is part of, an application that follows the documented       *)
(* recovery ends up on that branch's tip, crashes or not.                  *)
Anchored ==
  LET oldest == Closest(0)
  IN  oldest <= Len(branch) /\ Agrees(Checkpoints[oldest], oldest)

Recovers ==
  (<>[]Anchored) =>
    <>[](lastProcessedBlock = height /\ commitmentTree = TreeAt(branch, height))

=============================================================================
