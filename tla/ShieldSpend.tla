---------------------------- MODULE ShieldSpend ----------------------------
(***************************************************************************)
(* The spending half of the shield wallet (wallet/src/wallet.ts): how      *)
(* PivxWallet builds, broadcasts, finalizes and discards transactions      *)
(* while it scans, while other calls interleave at every await, and while  *)
(* the process may die and be restored from its last save().               *)
(*                                                                         *)
(* A note is named by its nullifier.  Only notes above DUST_NOTE_SATS are  *)
(* modelled: applyBlocks never retains the others.  Which notes a          *)
(* transaction consumes is left open (any non-empty subset of what the     *)
(* wallet offers): the selection itself is arithmetic on values.           *)
(***************************************************************************)
EXTENDS Naturals, Sequences, FiniteSets

CONSTANTS
  Notes,          (* nullifiers of the notes this viewing key can own       *)
  Txs,            (* txids; each successful build takes a fresh one         *)
  Callers,        (* concurrent calls of the wallet's async methods         *)
  None,           (* "no transaction" in a caller's locals                  *)
  MaxAddresses,   (* bound: calls of getNewAddress by the application       *)
  MaxUpsets,      (* bound: spends by another wallet holding the same key,  *)
                  (* and transactions the mempool drops                     *)
  MaxRestarts,    (* bound: crashes followed by load()                      *)
  Careful         (* the operator reconciles as docs/deployment.md asks     *)

ASSUME NoneAssumption == None \notin Txs
ASSUME BoundsAssumption ==
  /\ MaxAddresses \in Nat /\ MaxUpsets \in Nat
  /\ MaxRestarts \in Nat
  /\ Careful \in BOOLEAN

VARIABLES
  (* fields of PivxWallet *)
  notes,            (* tracked unspent notes                                *)
  nullifierMap,     (* nullifiers getNoteFromNullifier can attribute        *)
  pendingSpends,    (* txid -> nullifiers held; {} stands for "no entry"    *)
  seen,             (* notes in the blocks scanned so far ...               *)
  scannedSpends,    (* ... and the spends in them (lastProcessedBlock)      *)
  diversifierIndex, (* cursor of the next diversified address               *)
  extsk,            (* whether the spending key is loaded                   *)
  busy,             (* the one-writer guard                                 *)
  call,             (* what each caller is doing, and its locals            *)
  (* outside the process *)
  disk, restarts,   (* the last save(), and how often it was restored       *)
  deposits,         (* notes created on the chain                           *)
  chainSpends,      (* nullifier sets of the chain's transactions           *)
  confirmed,        (* transactions of ours in the chain                    *)
  mempool,
  wire,             (* sendrawtransaction requests in flight                *)
  reply,            (* the node's answer to an awaited request              *)
  hands,            (* transactions the application holds the hex of        *)
  (* history *)
  built, inputs,    (* the transactions built, and the notes each spends    *)
  forgotten,        (* those the wallet no longer answers for               *)
  autoReleased,     (* those send() discarded by itself                     *)
  evicted, handedOut

ledger  == <<notes, nullifierMap, pendingSpends, seen, scannedSpends>>
keys    == <<diversifierIndex, extsk>>
wallet  == <<ledger, keys, busy, call>>
durable == <<disk, restarts>>
chain   == <<deposits, chainSpends, confirmed>>
node    == <<chain, mempool, wire, reply>>
outside == <<durable, node, hands>>
txlog   == <<built, inputs, forgotten, autoReleased>>
history == <<txlog, evicted, handedOut>>
vars    == <<wallet, outside, history>>

-----------------------------------------------------------------------------
(* Derived state *)

Reserved == UNION {pendingSpends[t] : t \in Txs}

(* mutant: pending notes are offered again *)
AllNotes == notes

(* Notes a send may offer to the prover, and what getBalance sums. *)
Spendable == notes \ Reserved

Spent    == UNION chainSpends
Held     == mempool \cup confirmed
Awaited(t) == \E c \in Callers : call[c].pc = "sending" /\ call[c].tx = t

Replies == {"none", "accepted", "in-chain", "in-mempool", "double-spent",
            "requirements-not-met", "rejected"}

(* mutant: the node's "I have it already" counts as a rejection *)
OnlyConflicts(r) == r \in {"in-chain", "double-spent", "requirements-not-met"}

(* The RPC errors after which the transaction may still confirm. *)
txMayBeAccepted(r) ==
  r \in {"in-chain", "in-mempool", "double-spent", "requirements-not-met"}

SavedPending == pendingSpends

(* What save() writes.  The spending key is never part of it. *)
Image == [notes            |-> notes,
          nullifierMap     |-> nullifierMap,
          pendingSpends    |-> SavedPending,
          diversifierIndex |-> diversifierIndex,
          seen             |-> seen,
          scannedSpends    |-> scannedSpends,
          built            |-> built]

-----------------------------------------------------------------------------
Idle == [pc |-> "idle", viaSend |-> FALSE, useShield |-> FALSE,
         spendable |-> {}, savedIndex |-> 0, tx |-> None]

(* PivxWallet.create with a seed or spending key, or with a viewing key    *)
(* only, and a first save() of the new wallet.                             *)
Init ==
  /\ notes = {} /\ nullifierMap = {} /\ seen = {} /\ scannedSpends = {}
  /\ pendingSpends = [t \in Txs |-> {}]
  /\ diversifierIndex = 0
  /\ extsk \in BOOLEAN
  /\ busy = FALSE
  /\ call = [c \in Callers |-> Idle]
  /\ deposits = {} /\ chainSpends = {} /\ confirmed = {}
  /\ mempool = {} /\ wire = {} /\ hands = {}
  /\ reply = [t \in Txs |-> "none"]
  /\ built = {} /\ inputs = [t \in Txs |-> {}]
  /\ forgotten = {} /\ autoReleased = {} /\ evicted = {} /\ handedOut = <<>>
  /\ disk = Image /\ restarts = 0

-----------------------------------------------------------------------------
(* createTransaction: one action per stretch of code between two awaits    *)

(* mutant: a call starts in spite of the guard *)
Unguarded == TRUE

(* No call holds the guard; otherwise the call throws WalletBusyError. *)
Free == ~busy

At(c, phase) == call[c].pc = phase

(* Guard and snapshot, up to `await prover_is_loaded()`.  The call throws  *)
(* with no effect when the wallet is watch-only or busy.                   *)
StartCreate(c, send, shield) ==
  /\ At(c, "idle")
  /\ extsk
  /\ Free
  /\ busy' = TRUE
  /\ call' = [call EXCEPT ![c] =
       [Idle EXCEPT !.pc = "checking", !.viaSend = send, !.useShield = shield,
                    !.spendable = IF shield THEN Spendable ELSE {}]]
  /\ UNCHANGED <<ledger, keys, outside, history>>

(* mutant: the guard is not released on this path *)
KeepGuard == busy

(* finally { this.busy = false } *)
Unlock == FALSE

ProverMissing(c) ==
  /\ At(c, "checking")
  /\ busy' = Unlock
  /\ call' = [call EXCEPT ![c] = Idle]
  /\ UNCHANGED <<ledger, keys, outside, history>>

(* Save the cursor, take a change address, call the prover. *)
StartProof(c) ==
  /\ At(c, "checking")
  /\ call' = [call EXCEPT ![c].pc = "proving", ![c].savedIndex = diversifierIndex]
  /\ diversifierIndex' = diversifierIndex + (IF call[c].useShield THEN 1 ELSE 0)
  /\ UNCHANGED <<ledger, extsk, busy, outside, history>>

RestoredIndex(c) == call[c].savedIndex

ProofFails(c) ==
  /\ At(c, "proving")
  /\ diversifierIndex' = IF call[c].useShield THEN RestoredIndex(c) ELSE diversifierIndex
  /\ busy' = FALSE
  /\ call' = [call EXCEPT ![c] = Idle]
  /\ UNCHANGED <<ledger, extsk, outside, history>>

(* The transaction exists: a shield spend is held as pending, a shielding  *)
(* transaction spends no note and leaves pendingSpends alone.  send() goes *)
(* on with it, any other caller gets the hex.                              *)
ProofSucceeds(c, t, N) ==
  /\ At(c, "proving")
  /\ t \notin built
  /\ IF call[c].useShield THEN N # {} /\ N \subseteq call[c].spendable ELSE N = {}
  /\ built' = built \cup {t}
  /\ inputs' = [inputs EXCEPT ![t] = N]
  /\ pendingSpends' = [pendingSpends EXCEPT ![t] = N]
  /\ busy' = FALSE
  /\ IF call[c].viaSend
     THEN call' = [call EXCEPT ![c] = [Idle EXCEPT !.pc = "built", !.tx = t]]
          /\ hands' = hands
     ELSE call' = [call EXCEPT ![c] = Idle] /\ hands' = hands \cup {t}
  /\ UNCHANGED <<notes, nullifierMap, seen, scannedSpends, keys, durable, node,
                 forgotten, autoReleased, evicted, handedOut>>

-----------------------------------------------------------------------------
(* finalizeTransaction and discardTransaction: no guard, no await          *)

finalizeTransaction(t) ==
  /\ notes' = notes \ pendingSpends[t]
  /\ pendingSpends' = [pendingSpends EXCEPT ![t] = {}]
  /\ UNCHANGED <<nullifierMap, seen, scannedSpends, txlog>>

discardTransaction(t) ==
  /\ pendingSpends' = [pendingSpends EXCEPT ![t] = {}]
  /\ forgotten' = forgotten \cup {t}
  /\ UNCHANGED <<notes, nullifierMap, seen, scannedSpends, built, inputs>>

-----------------------------------------------------------------------------
(* send: broadcast what createTransaction returned.  busy is not held.     *)

IssueBroadcast(c) ==
  /\ At(c, "built")
  /\ call' = [call EXCEPT ![c].pc = "sending"]
  /\ wire' = wire \cup {call[c].tx}
  /\ UNCHANGED <<ledger, keys, busy, durable, chain, mempool, reply, hands, history>>

(* The call settles, and with it the request it was waiting for. *)
Settle(c) ==
  /\ At(c, "sending")
  /\ call' = [call EXCEPT ![c] = Idle]
  /\ reply' = [reply EXCEPT ![call[c].tx] = "none"]
  /\ UNCHANGED <<keys, busy, durable, chain, mempool, hands, evicted, handedOut>>

Answered(c) == wire' = wire \ {call[c].tx}

SendAccepted(c) ==
  /\ Settle(c) /\ Answered(c)
  /\ reply[call[c].tx] = "accepted"
  /\ finalizeTransaction(call[c].tx)

SendRejected(c) ==
  /\ Settle(c) /\ Answered(c)
  /\ reply[call[c].tx] \notin {"none", "accepted"}
  /\ ~txMayBeAccepted(reply[call[c].tx])
  /\ discardTransaction(call[c].tx)
  /\ autoReleased' = autoReleased \cup {call[c].tx}

(* mutant: an unknown outcome is taken for a failure *)
ReleaseAnyway(t) ==
  /\ pendingSpends' = [pendingSpends EXCEPT ![t] = {}]
  /\ UNCHANGED <<notes, nullifierMap, seen, scannedSpends, txlog>>

(* mutant: an unknown outcome is taken for a success *)
FinalizeAnyway(t) == finalizeTransaction(t)

(* The outcome is open: the notes stay pending. *)
KeepPending(t) == UNCHANGED <<ledger, txlog>>

SendAmbiguous(c) ==
  /\ Settle(c) /\ Answered(c)
  /\ txMayBeAccepted(reply[call[c].tx])
  /\ KeepPending(call[c].tx)

(* Transport error or timeout: the request or its answer is lost, or the   *)
(* request is still on its way and the node will handle it later.          *)
SendTimeout(c) ==
  /\ Settle(c)
  /\ wire' = wire \/ Answered(c)
  /\ KeepPending(call[c].tx)

-----------------------------------------------------------------------------
(* Scanning: applyBlocks on a batch that creates the notes D and holds the *)
(* spends S, reached from sync (which holds busy across its awaits) or     *)
(* from handleBlocks (one synchronous step).                               *)

Batch(D, S) ==
  /\ D \subseteq deposits \ seen
  /\ S \subseteq chainSpends \ scannedSpends
  /\ UNION S \subseteq seen \cup D

(* mutant: the spent filter misses the notes of the same batch *)
KeptOldOnly(D, S) == (notes \ UNION S) \cup D

Kept(D, S) == (notes \cup D) \ UNION S

(* mutant: settled reservations are not reconciled *)
NoReconcile(t, tracked) == pendingSpends[t]

(* An entry goes once none of its notes is tracked any more. *)
Reconciled(t, tracked) ==
  IF pendingSpends[t] \cap tracked = {} THEN {} ELSE pendingSpends[t]

applyBlocks(D, S) ==
  /\ Batch(D, S)
  /\ notes' = Kept(D, S)
  /\ nullifierMap' = nullifierMap \cup D
  /\ pendingSpends' = [t \in Txs |-> Reconciled(t, Kept(D, S))]
  /\ seen' = seen \cup D
  /\ scannedSpends' = scannedSpends \cup S
  /\ UNCHANGED <<keys, busy, call, outside, history>>

handleBlocks(D, S) == Free /\ applyBlocks(D, S)

SyncStart(c) ==
  /\ At(c, "idle")
  /\ Free
  /\ busy' = TRUE
  /\ call' = [call EXCEPT ![c].pc = "syncing"]
  /\ UNCHANGED <<ledger, keys, outside, history>>

SyncBatch(c, D, S) == At(c, "syncing") /\ applyBlocks(D, S)

(* ensureValidCheckpoint of a wallet that holds nothing: back to an older  *)
(* checkpoint, here below every note.  What was finalized but not yet      *)
(* scanned as spent may come back with the notes, so this too gives up     *)
(* what was built.  When the node contradicts the checkpoint is left open. *)
SyncRewind(c) ==
  /\ At(c, "syncing")
  /\ notes = {} /\ Reserved = {}
  /\ seen' = {} /\ scannedSpends' = {}
  /\ forgotten' = forgotten \cup built
  /\ UNCHANGED <<notes, nullifierMap, pendingSpends, keys, busy, call, outside, built,
                 inputs, autoReleased, evicted, handedOut>>

(* At the tip, aborted, or an RPC or root check failed. *)
SyncEnd(c) ==
  /\ At(c, "syncing")
  /\ busy' = FALSE
  /\ call' = [call EXCEPT ![c] = Idle]
  /\ UNCHANGED <<ledger, keys, outside, history>>

-----------------------------------------------------------------------------
(* The application's synchronous calls *)

getNewAddress ==
  /\ Len(handedOut) < MaxAddresses
  /\ diversifierIndex' = diversifierIndex + 1
  /\ handedOut' = Append(handedOut, diversifierIndex')
  /\ UNCHANGED <<ledger, extsk, busy, call, outside, txlog, evicted>>

loadSpendingKey ==
  /\ ~extsk
  /\ extsk' = TRUE
  /\ UNCHANGED <<ledger, diversifierIndex, busy, call, outside, history>>

(* mutant: pending notes are not counted as live *)
LiveSpendable == Spendable

Live == notes \cup Reserved

pruneNullifiers ==
  /\ nullifierMap' = nullifierMap \cap Live
  /\ UNCHANGED <<notes, pendingSpends, seen, scannedSpends, keys, busy, call,
                 outside, history>>

(* An operator finalizes a spend, or gives one up.  The careful one does   *)
(* the first only once the node has the transaction, and the second only   *)
(* once no node has it and no broadcast of it is on its way.               *)
OperatorFinalize(t) ==
  /\ pendingSpends[t] # {}
  /\ Careful => t \in Held
  /\ finalizeTransaction(t)
  /\ UNCHANGED <<keys, busy, call, outside, evicted, handedOut>>

OperatorDiscard(t) ==
  /\ pendingSpends[t] # {}
  /\ Careful => t \notin Held \cup wire /\ \A c \in Callers : call[c].tx # t
  /\ discardTransaction(t)
  /\ hands' = hands \ {t}
  /\ UNCHANGED <<keys, busy, call, durable, node, autoReleased, evicted, handedOut>>

(* Back to a checkpoint below every note: all tracked state is dropped.    *)
reloadFromCheckpoint ==
  /\ Free
  /\ notes' = {} /\ nullifierMap' = {} /\ seen' = {} /\ scannedSpends' = {}
  /\ pendingSpends' = [t \in Txs |-> {}]
  /\ forgotten' = forgotten \cup built
  /\ UNCHANGED <<keys, busy, call, outside, built, inputs, autoReleased, evicted,
                 handedOut>>

(* save() reads the fields whether or not a call is in progress. *)
save ==
  /\ restarts < MaxRestarts   \* a later save would never be read
  /\ disk' = Image
  /\ UNCHANGED <<wallet, restarts, node, hands, history>>

(* The process dies and load() restores the last save().  Transactions     *)
(* built since are unknown to the new wallet; requests in flight still     *)
(* reach the node.                                                         *)
Restart ==
  /\ restarts < MaxRestarts
  /\ restarts' = restarts + 1
  /\ notes' = disk.notes
  /\ nullifierMap' = disk.nullifierMap
  /\ pendingSpends' = disk.pendingSpends
  /\ seen' = disk.seen
  /\ scannedSpends' = disk.scannedSpends
  /\ diversifierIndex' = disk.diversifierIndex
  /\ extsk' = FALSE
  /\ busy' = FALSE
  /\ call' = [c \in Callers |-> Idle]
  /\ reply' = [t \in Txs |-> "none"]
  /\ forgotten' = forgotten \cup (built \ disk.built)
  /\ UNCHANGED <<disk, chain, mempool, wire, hands, built, inputs, autoReleased,
                 evicted, handedOut>>

-----------------------------------------------------------------------------
(* The node and the network *)

Deposit(n) ==
  /\ n \notin deposits
  /\ deposits' = deposits \cup {n}
  /\ UNCHANGED <<wallet, durable, chainSpends, confirmed, mempool, wire, reply,
                 hands, history>>

(* What sendrawtransaction can answer for t, in the order the node checks. *)
Answers(t) ==
  CASE t \in confirmed -> {"in-chain", "requirements-not-met"}
    [] t \in mempool -> {"in-mempool"}
    [] t \notin Held /\ \E u \in mempool : inputs[t] \cap inputs[u] # {} -> {"double-spent"}
    [] OTHER -> {"requirements-not-met"}
                  \cup IF inputs[t] \cap Spent = {} THEN {"accepted", "rejected"} ELSE {}

Admit(t, r) == mempool' = IF r = "accepted" THEN mempool \cup {t} ELSE mempool

(* The node handles a request.  While the caller waits the request may be  *)
(* delivered again (a proxy retries it); the last answer is the one it     *)
(* gets.  A request whose caller gave up is handled without an answer.     *)
NodeReceive(t, r) ==
  /\ t \in wire
  /\ r \in Answers(t)
  /\ Admit(t, r)
  /\ IF Awaited(t) THEN reply' = [reply EXCEPT ![t] = r] /\ wire' = wire
                   ELSE reply' = reply /\ wire' = wire \ {t}
  /\ UNCHANGED <<wallet, durable, chain, hands, history>>

(* The application broadcasts what createTransaction gave it, maybe twice. *)
AppBroadcast(t, r) ==
  /\ t \in hands
  /\ r \in Answers(t)
  /\ Admit(t, r)
  /\ UNCHANGED <<wallet, durable, chain, wire, reply, hands, history>>

Confirm(t) ==
  /\ t \in mempool
  /\ mempool' = mempool \ {t}
  /\ confirmed' = confirmed \cup {t}
  /\ chainSpends' = chainSpends \cup ({inputs[t]} \ {{}})
  /\ UNCHANGED <<wallet, durable, deposits, wire, reply, hands, history>>

(* Spends by another wallet with the same key, and evictions. *)
Upsets ==
  Cardinality(chainSpends \ {inputs[t] : t \in confirmed}) + Cardinality(evicted)

Evict(t) ==
  /\ t \in mempool
  /\ Upsets < MaxUpsets
  /\ mempool' = mempool \ {t}
  /\ evicted' = evicted \cup {t}
  /\ UNCHANGED <<wallet, durable, chain, wire, reply, hands, txlog, handedOut>>

(* Another wallet with the same key spends N; what conflicts with it goes. *)
ExternalSpend(N) ==
  LET dropped == {t \in mempool : inputs[t] \cap N # {}}
  IN  /\ N # {} /\ N \subseteq deposits \ Spent
      /\ Upsets < MaxUpsets
      /\ chainSpends' = chainSpends \cup {N}
      /\ mempool' = mempool \ dropped
      /\ evicted' = evicted \cup dropped
      /\ UNCHANGED <<wallet, durable, deposits, confirmed, wire, reply, hands,
                     txlog, handedOut>>

-----------------------------------------------------------------------------

(* The steps a call in progress takes when what it awaits settles. *)
Progress(c) ==
  \/ ProverMissing(c) \/ StartProof(c) \/ ProofFails(c)
  \/ \E t \in Txs, N \in SUBSET Notes : ProofSucceeds(c, t, N)
  \/ IssueBroadcast(c)
  \/ SendAccepted(c) \/ SendRejected(c) \/ SendAmbiguous(c) \/ SendTimeout(c)
  \/ SyncRewind(c) \/ SyncEnd(c)

Scan ==
  \E D \in SUBSET deposits, S \in SUBSET chainSpends :
    \/ handleBlocks(D, S)
    \/ \E c \in Callers : SyncBatch(c, D, S)

Application ==
  \/ \E c \in Callers : \/ \E send, shield \in BOOLEAN : StartCreate(c, send, shield)
                        \/ SyncStart(c)
  \/ getNewAddress \/ loadSpendingKey \/ pruneNullifiers
  \/ \E t \in Txs : OperatorFinalize(t) \/ OperatorDiscard(t)
  \/ reloadFromCheckpoint \/ save \/ Restart

Network ==
  \/ \E n \in Notes : Deposit(n)
  \/ \E t \in Txs, r \in Replies : NodeReceive(t, r) \/ AppBroadcast(t, r)
  \/ \E t \in Txs : Confirm(t) \/ Evict(t)
  \/ \E N \in SUBSET deposits : ExternalSpend(N)

Next == (\E c \in Callers : Progress(c)) \/ Scan \/ Application \/ Network

Spec == Init /\ [][Next]_vars

-----------------------------------------------------------------------------
(* Properties *)

Phases == {"idle", "checking", "proving", "built", "sending", "syncing"}

CallState == [pc : Phases, viaSend : BOOLEAN, useShield : BOOLEAN,
              spendable : SUBSET Notes, savedIndex : Nat, tx : Txs \cup {None}]

TypeOK ==
  /\ notes \subseteq Notes /\ nullifierMap \subseteq Notes /\ seen \subseteq Notes
  /\ deposits \subseteq Notes
  /\ pendingSpends \in [Txs -> SUBSET Notes]
  /\ chainSpends \subseteq SUBSET Notes /\ scannedSpends \subseteq SUBSET Notes
  /\ diversifierIndex \in Nat
  /\ extsk \in BOOLEAN /\ busy \in BOOLEAN
  /\ call \in [Callers -> CallState]
  /\ confirmed \subseteq Txs /\ mempool \subseteq Txs /\ wire \subseteq Txs
  /\ hands \subseteq Txs /\ built \subseteq Txs /\ forgotten \subseteq Txs
  /\ autoReleased \subseteq Txs /\ evicted \subseteq Txs
  /\ reply \in [Txs -> Replies]
  /\ inputs \in [Txs -> SUBSET Notes]
  /\ handedOut \in Seq(Nat) /\ restarts \in Nat
  /\ disk \in [notes : SUBSET Notes, nullifierMap : SUBSET Notes,
               pendingSpends : [Txs -> SUBSET Notes], diversifierIndex : Nat,
               seen : SUBSET Notes, scannedSpends : SUBSET SUBSET Notes,
               built : SUBSET Txs]

(* No two pending transactions hold the same note, and no call that is     *)
(* still building was offered a note another transaction holds.            *)
ReservationsDisjoint ==
  /\ \A t, u \in Txs : t # u => pendingSpends[t] \cap pendingSpends[u] = {}
  /\ \A c \in Callers : call[c].spendable \cap Reserved = {}

(* What a call in progress was offered is still tracked when it reserves   *)
(* it, whatever was finalized, discarded or scanned while it awaited.      *)
OfferStaysTracked == \A c \in Callers : call[c].spendable \subseteq notes

(* A transaction that was built and never given up is never competed with: *)
(* the wallet offers none of its notes to a later send, through broadcasts *)
(* of unknown outcome, rescans, saves, crashes and restores.               *)
InFlightNeverOffered ==
  \A t \in built \ forgotten : inputs[t] \cap Spendable = {}

(* Two transactions spend the same note only if one of them was discarded, *)
(* or dropped by a reload, a rewind or the restore of an older save.       *)
NoDoubleSpend ==
  \A t, u \in built \ forgotten : t # u => inputs[t] \cap inputs[u] = {}

(* send() releases a transaction's notes by itself only when the node does *)
(* not have the transaction (the purpose of txMayBeAccepted).              *)
AutoReleasedNeverHeld == autoReleased \cap Held = {}

(* A pending entry always holds a note that is still tracked, so entries   *)
(* of settled transactions do not pile up in pendingSpends.                *)
NoLeakedReservation ==
  \A t \in Txs : pendingSpends[t] # {} => pendingSpends[t] \cap notes # {}

(* Every tracked or held note can be attributed by getNoteFromNullifier,   *)
(* whenever pruneNullifiers runs.                                          *)
AttributionKept == notes \cup Reserved \subseteq nullifierMap

(* With a careful operator the wallet loses sight of a scanned note only   *)
(* because a transaction that spends it is in the chain, in the mempool,   *)
(* or was in the mempool and dropped from it.                              *)
NoNoteLost ==
  \A n \in seen \ notes :
    n \in Spent \/ \E t \in mempool \cup evicted : n \in inputs[t]

(* The one-writer guard excludes: at most one call at a time is between    *)
(* its guard and its finally, the guard is up exactly while one is (a path *)
(* that left it up would block every later call), and only such a call was *)
(* offered notes.                                                          *)
Exclusive(c) == call[c].pc \in {"checking", "proving", "syncing"}

OneWriter ==
  /\ \A c \in Callers : Exclusive(c) => busy
  /\ busy => \E c \in Callers : Exclusive(c)
  /\ \A c, d \in Callers : Exclusive(c) /\ Exclusive(d) => c = d
  /\ \A c \in Callers : call[c].spendable # {} => call[c].pc \in {"checking", "proving"}
  /\ \A c \in Callers : call[c].pc \in {"built", "sending"} => call[c].tx \in built

(* The books of a wallet state, in memory or saved: its notes were scanned *)
(* and not as spent, so were the inputs of every transaction it answers    *)
(* for, and of those inputs it tracks only what it holds as pending for    *)
(* that very transaction.                                                  *)
BooksBalance(nts, scanned, spent, pending, known) ==
  /\ nts \subseteq scanned /\ spent \subseteq scanned /\ nts \cap spent = {}
  /\ \A t \in Txs : pending[t] # {} => t \in known /\ pending[t] = inputs[t]
  /\ \A t \in Txs : pending[t] \subseteq scanned
  /\ \A t, u \in Txs : t # u => pending[t] \cap pending[u] = {}
  /\ \A t \in known \ forgotten :
       inputs[t] \subseteq scanned /\ inputs[t] \cap nts \subseteq pending[t]

(* Inductive: together these imply NoDoubleSpend and InFlightNeverOffered. *)
IInv ==
  /\ TypeOK
  /\ OneWriter
  /\ ReservationsDisjoint
  /\ OfferStaysTracked
  /\ BooksBalance(notes, seen, UNION scannedSpends, pendingSpends, built)
  /\ BooksBalance(disk.notes, disk.seen, UNION disk.scannedSpends,
                  disk.pendingSpends, disk.built)
  /\ disk.built \subseteq built /\ forgotten \subseteq built
  /\ NoDoubleSpend

(* A note that was scanned as spent never comes back, except through a     *)
(* reload, a rewind or a restore, which forget the scan itself.            *)
SpentStaysSpent == [][ \A n \in UNION scannedSpends :
                         n \in UNION scannedSpends' => n \notin notes' ]_vars

(* No receive address is given out twice (wallet.ts:336, docs/usage.md). *)
AddressesFresh ==
  \A i, j \in DOMAIN handedOut : i # j => handedOut[i] # handedOut[j]

(* The wallet keeps the ledger's promise: what it offers is what it tracks *)
(* and does not hold, and the notes of each transaction it built and was   *)
(* not made to forget are claimed, whether they are pending, finalized or  *)
(* scanned as spent.                                                       *)
Ledger == INSTANCE NoteLedger WITH
  offered <- Spendable,
  claims  <- [t \in built \ forgotten |-> inputs[t]],
  gone    <- UNION scannedSpends,
  used    <- built,
  saved   <- [offered |-> disk.notes \ UNION {disk.pendingSpends[t] : t \in Txs},
              gone    |-> UNION disk.scannedSpends,
              known   |-> disk.built]

KeepsLedger == Ledger!Spec

=============================================================================
