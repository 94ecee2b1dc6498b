------------------------- MODULE ShieldSpendProofs -------------------------
(* Proofs about ShieldSpend for every set of notes, transactions and       *)
(* callers, and every bound.                                               *)
EXTENDS ShieldSpend, TLAPS

(* Every variable keeps its type: a call's locals, the books in memory and *)
(* the books in the last save.                                             *)
LEMMA TypeInit == Init => TypeOK
  <1> SUFFICES ASSUME Init PROVE TypeOK
    OBVIOUS
  <1>1. handedOut \in Seq(Nat)
    BY DEF Init
  <1>2. extsk \in BOOLEAN /\ busy \in BOOLEAN
    BY Zenon DEF Init
  <1>3. disk \in [notes : SUBSET Notes, nullifierMap : SUBSET Notes,
                 pendingSpends : [Txs -> SUBSET Notes], diversifierIndex : Nat,
                 seen : SUBSET Notes, scannedSpends : SUBSET SUBSET Notes,
                 built : SUBSET Txs]
    BY DEF Init, Image, SavedPending
  <1>4. QED
    BY <1>1, <1>2, <1>3 DEF Init, TypeOK, CallState, Phases, Replies, Idle

(* The edits a step makes to a caller's record give such a record again.   *)
LEMMA CallEdits ==
  ASSUME NEW r \in CallState, NEW i \in Nat
  PROVE  /\ [r EXCEPT !.pc = "proving", !.savedIndex = i] \in CallState
         /\ [r EXCEPT !.pc = "sending"] \in CallState
         /\ [r EXCEPT !.pc = "syncing"] \in CallState
         /\ Idle \in CallState
         /\ \A t \in Txs : [Idle EXCEPT !.pc = "built", !.tx = t] \in CallState
  <1>1. [r EXCEPT !.pc = "proving", !.savedIndex = i] \in CallState
    BY DEF CallState, Phases
  <1>2. [r EXCEPT !.pc = "sending"] \in CallState
    BY DEF CallState, Phases
  <1>3. [r EXCEPT !.pc = "syncing"] \in CallState
    BY DEF CallState, Phases
  <1>4. /\ Idle \in CallState
        /\ \A t \in Txs : [Idle EXCEPT !.pc = "built", !.tx = t] \in CallState
    BY DEF CallState, Phases, Idle
  <1>5. QED
    BY <1>1, <1>2, <1>3, <1>4

(* The scan goes back to a checkpoint, on request or inside a sync.        *)
Dropped == reloadFromCheckpoint \/ \E c \in Callers : SyncRewind(c)

LEMMA TypeNext == TypeOK /\ OneWriter /\ [Next]_vars => TypeOK'
  <1> SUFFICES ASSUME TypeOK, OneWriter, [Next]_vars PROVE TypeOK'
    OBVIOUS
  <1> USE NoneAssumption DEF TypeOK, Replies, ledger, keys, wallet,
          durable, chain, node, outside, txlog, history, Unlock
  <1>1. ASSUME NEW c \in Callers, NEW send \in BOOLEAN, NEW shield \in BOOLEAN,
               StartCreate(c, send, shield)
        PROVE  TypeOK'
    <2> DEFINE after == [Idle EXCEPT !.pc = "checking", !.viaSend = send,
                          !.useShield = shield,
                          !.spendable = IF shield THEN Spendable ELSE {}]
    <2>1. after \in CallState
      BY DEF CallState, Phases, Idle, Spendable
    <2>2. call' = [call EXCEPT ![c] = after]
      BY <1>1 DEF StartCreate
    <2> HIDE DEF after
    <2>3. call' \in [Callers -> CallState]
      BY <2>1, <2>2
    <2>4. QED
      BY <1>1, <2>3 DEF StartCreate
  <1>2. ASSUME NEW c \in Callers, ProverMissing(c) PROVE TypeOK'
    BY <1>2, CallEdits DEF ProverMissing
  <1>3. ASSUME NEW c \in Callers, StartProof(c) PROVE TypeOK'
    <2>1. [call[c] EXCEPT !.pc = "proving", !.savedIndex = diversifierIndex] \in CallState
      BY CallEdits
    <2>2. call' = [call EXCEPT ![c] =
                     [call[c] EXCEPT !.pc = "proving", !.savedIndex = diversifierIndex]]
      BY <1>3 DEF StartProof
    <2>3. call' \in [Callers -> CallState]
      BY <2>1, <2>2
    <2>4. diversifierIndex' \in Nat
      BY <1>3 DEF StartProof
    <2>5. QED
      BY <1>3, <2>3, <2>4 DEF StartProof
  <1>4. ASSUME NEW c \in Callers, ProofFails(c) PROVE TypeOK'
    <2>1. call[c].savedIndex \in Nat
      BY DEF CallState
    <2>2. QED
      BY <1>4, <2>1, CallEdits DEF ProofFails, RestoredIndex
  <1>5. ASSUME NEW c \in Callers, NEW t \in Txs, NEW N \in SUBSET Notes,
               ProofSucceeds(c, t, N)
        PROVE  TypeOK'
    <2>1. Idle \in CallState /\ [Idle EXCEPT !.pc = "built", !.tx = t] \in CallState
      BY CallEdits
    <2>2. call' \in [Callers -> CallState]
      BY <1>5, <2>1 DEF ProofSucceeds
    <2>3. /\ hands' \subseteq Txs /\ built' \subseteq Txs
          /\ inputs' \in [Txs -> SUBSET Notes] /\ pendingSpends' \in [Txs -> SUBSET Notes]
      BY <1>5 DEF ProofSucceeds
    <2>4. QED
      BY <1>5, <2>2, <2>3 DEF ProofSucceeds
  <1>6. ASSUME NEW c \in Callers, IssueBroadcast(c) PROVE TypeOK'
    <2>1. [call[c] EXCEPT !.pc = "sending"] \in CallState
      BY CallEdits
    <2>2. call' = [call EXCEPT ![c] = [call[c] EXCEPT !.pc = "sending"]]
      BY <1>6 DEF IssueBroadcast
    <2>3. call' \in [Callers -> CallState]
      BY <2>1, <2>2
    <2>4. wire' \subseteq Txs
      BY <1>6 DEF IssueBroadcast, OneWriter, At
    <2>5. QED
      BY <1>6, <2>3, <2>4 DEF IssueBroadcast
  <1>7. ASSUME NEW c \in Callers, SendAccepted(c) PROVE TypeOK'
    BY <1>7, CallEdits DEF SendAccepted, Settle, Answered, finalizeTransaction
  <1>8. ASSUME NEW c \in Callers, SendRejected(c) PROVE TypeOK'
    BY <1>8, CallEdits DEF SendRejected, Settle, Answered, discardTransaction, OneWriter, At
  <1>9. ASSUME NEW c \in Callers, SendAmbiguous(c) PROVE TypeOK'
    BY <1>9, CallEdits DEF SendAmbiguous, Settle, Answered, KeepPending
  <1>10. ASSUME NEW c \in Callers, SendTimeout(c) PROVE TypeOK'
    BY <1>10, CallEdits DEF SendTimeout, Settle, Answered, KeepPending
  <1>11. ASSUME NEW c \in Callers, SyncEnd(c) PROVE TypeOK'
    BY <1>11, CallEdits DEF SyncEnd
  <1>12. ASSUME NEW c \in Callers, SyncStart(c) PROVE TypeOK'
    <2>1. [call[c] EXCEPT !.pc = "syncing"] \in CallState
      BY CallEdits
    <2>2. call' = [call EXCEPT ![c] = [call[c] EXCEPT !.pc = "syncing"]]
      BY <1>12 DEF SyncStart
    <2>3. call' \in [Callers -> CallState]
      BY <2>1, <2>2
    <2>4. QED
      BY <1>12, <2>3 DEF SyncStart
  <1>13. ASSUME NEW D \in SUBSET deposits, NEW S \in SUBSET chainSpends,
                applyBlocks(D, S)
         PROVE  TypeOK'
    <2>1. /\ Kept(D, S) \subseteq Notes
          /\ \A t \in Txs : Reconciled(t, Kept(D, S)) \subseteq Notes
      BY DEF Kept, Reconciled
    <2>2. /\ notes' \subseteq Notes /\ nullifierMap' \subseteq Notes
          /\ seen' \subseteq Notes /\ scannedSpends' \subseteq SUBSET Notes
      BY <1>13, <2>1 DEF applyBlocks
    <2>3. pendingSpends' \in [Txs -> SUBSET Notes]
      BY <1>13, <2>1 DEF applyBlocks
    <2>4. UNCHANGED <<keys, busy, call, outside, history>>
      BY <1>13 DEF applyBlocks
    <2>5. QED
      BY <2>2, <2>3, <2>4
  <1>14. CASE getNewAddress
    BY <1>14 DEF getNewAddress
  <1>15. CASE loadSpendingKey
    BY <1>15 DEF loadSpendingKey
  <1>16. CASE pruneNullifiers
    BY <1>16 DEF pruneNullifiers
  <1>17. ASSUME NEW t \in Txs, OperatorFinalize(t) PROVE TypeOK'
    BY <1>17 DEF OperatorFinalize, finalizeTransaction
  <1>18. ASSUME NEW t \in Txs, OperatorDiscard(t) PROVE TypeOK'
    BY <1>18 DEF OperatorDiscard, discardTransaction
  <1>19. CASE Dropped
    BY <1>19 DEF Dropped, reloadFromCheckpoint, SyncRewind
  <1>20. CASE save
    <2>1. Image \in [notes : SUBSET Notes, nullifierMap : SUBSET Notes,
                    pendingSpends : [Txs -> SUBSET Notes], diversifierIndex : Nat,
                    seen : SUBSET Notes, scannedSpends : SUBSET SUBSET Notes,
                    built : SUBSET Txs]
      BY DEF Image, SavedPending
    <2>2. QED
      BY <1>20, <2>1 DEF save
  <1>21. CASE Restart
    <2>1. /\ disk.notes \subseteq Notes /\ disk.nullifierMap \subseteq Notes
          /\ disk.seen \subseteq Notes /\ disk.scannedSpends \subseteq SUBSET Notes
          /\ disk.pendingSpends \in [Txs -> SUBSET Notes]
          /\ disk.diversifierIndex \in Nat
      OBVIOUS
    <2>2. call' \in [Callers -> CallState] /\ reply' = [t \in Txs |-> "none"]
      BY <1>21, CallEdits DEF Restart
    <2>3. /\ notes' \subseteq Notes /\ nullifierMap' \subseteq Notes
          /\ seen' \subseteq Notes /\ scannedSpends' \subseteq SUBSET Notes
          /\ pendingSpends' \in [Txs -> SUBSET Notes] /\ diversifierIndex' \in Nat
      BY <1>21, <2>1 DEF Restart
    <2>4. extsk' \in BOOLEAN /\ busy' \in BOOLEAN
      BY <1>21, Zenon DEF Restart
    <2>5. restarts' \in Nat /\ forgotten' \subseteq Txs
      BY <1>21 DEF Restart
    <2>6. UNCHANGED <<disk, chain, mempool, wire, hands, built, inputs,
                      autoReleased, evicted, handedOut>>
      BY <1>21 DEF Restart
    <2>7. QED
      BY <2>2, <2>3, <2>4, <2>5, <2>6
  <1>22. ASSUME NEW n \in Notes, Deposit(n) PROVE TypeOK'
    BY <1>22 DEF Deposit
  <1>23. ASSUME NEW t \in Txs, NEW r \in Replies, NodeReceive(t, r) PROVE TypeOK'
    BY <1>23 DEF NodeReceive, Admit
  <1>24. ASSUME NEW t \in Txs, NEW r \in Replies, AppBroadcast(t, r) PROVE TypeOK'
    BY <1>24 DEF AppBroadcast, Admit
  <1>25. ASSUME NEW t \in Txs, Confirm(t) PROVE TypeOK'
    BY <1>25 DEF Confirm
  <1>26. ASSUME NEW t \in Txs, Evict(t) PROVE TypeOK'
    BY <1>26 DEF Evict
  <1>27. ASSUME NEW N \in SUBSET deposits, ExternalSpend(N) PROVE TypeOK'
    BY <1>27 DEF ExternalSpend
  <1>28. CASE UNCHANGED vars
    BY <1>28 DEF vars
  <1> HIDE DEF TypeOK, Replies, ledger, keys, wallet, durable, chain, node,
               outside, txlog, history, Unlock
  <1>29. QED
    BY <1>1, <1>2, <1>3, <1>4, <1>5, <1>6, <1>7, <1>8, <1>9, <1>10, <1>11,
       <1>12, <1>13, <1>14, <1>15, <1>16, <1>17, <1>18, <1>19, <1>20, <1>21,
       <1>22, <1>23, <1>24, <1>25, <1>26, <1>27, <1>28
    DEF Next, Progress, Scan, Application, Dropped, Network, handleBlocks, SyncBatch

-----------------------------------------------------------------------------
(* What the steps that do not touch the books leave alone.                  *)
Books == <<notes, seen, scannedSpends, pendingSpends, built, inputs, forgotten, disk>>
Calls == <<busy, call>>

LEMMA NetworkFrame == Network => UNCHANGED <<Books, Calls>>
  BY DEF Network, Deposit, NodeReceive, AppBroadcast, Confirm, Evict,
         ExternalSpend, Books, Calls, ledger, wallet, durable, chain, txlog, history

LEMMA ApplicationFrame ==
  getNewAddress \/ loadSpendingKey \/ pruneNullifiers \/ UNCHANGED vars
    => UNCHANGED <<Books, Calls>>
  BY DEF getNewAddress, loadSpendingKey, pruneNullifiers, vars, Books, Calls,
         ledger, keys, wallet, durable, outside, txlog, history

(* The steps of a call that only move the call along. *)
Quiet(c) ==
  \/ ProverMissing(c) \/ StartProof(c) \/ ProofFails(c) \/ IssueBroadcast(c)
  \/ SendAmbiguous(c) \/ SendTimeout(c) \/ SyncStart(c) \/ SyncEnd(c)
  \/ \E send, shield \in BOOLEAN : StartCreate(c, send, shield)

LEMMA QuietFrame == ASSUME NEW c \in Callers, Quiet(c) PROVE UNCHANGED Books
  BY DEF Quiet, ProverMissing, StartProof, ProofFails, IssueBroadcast,
         SendAmbiguous, SendTimeout, Settle, KeepPending, SyncStart, SyncEnd,
         StartCreate, Books, ledger, durable, outside, txlog, history

-----------------------------------------------------------------------------
(* The one-writer guard excludes: busy is set before a call's first await, *)
(* stays set until its finally, and only its owner was offered notes.      *)
LEMMA OneWriterNext == TypeOK /\ OneWriter /\ [Next]_vars => OneWriter'
  <1> SUFFICES ASSUME TypeOK, OneWriter, [Next]_vars PROVE OneWriter'
    OBVIOUS
  <1> USE DEF TypeOK, OneWriter, Exclusive, Idle, At
  (* A call gives the guard back, or never had it, and keeps no offer. *)
  <1>1. ASSUME NEW c \in Callers, NEW after,
               call' = [call EXCEPT ![c] = after],
               after.pc \in {"idle", "built"}, after.spendable = {},
               after.pc = "built" => after.tx \in built',
               built \subseteq built',
               \/ Exclusive(c) /\ ~busy'
               \/ ~Exclusive(c) /\ busy' = busy
        PROVE  OneWriter'
    BY <1>1
  <1>2. ASSUME NEW c \in Callers, NEW after,
               call' = [call EXCEPT ![c] = after],
               after.pc \in {"checking", "syncing"},
               after.spendable # {} => after.pc = "checking",
               ~busy, busy' = TRUE, built' = built
        PROVE  OneWriter'
    BY <1>2
  <1>3. ASSUME NEW c \in Callers, NEW send \in BOOLEAN, NEW shield \in BOOLEAN,
               StartCreate(c, send, shield)
        PROVE  OneWriter'
    <2> DEFINE after == [Idle EXCEPT !.pc = "checking", !.viaSend = send,
                          !.useShield = shield,
                          !.spendable = IF shield THEN Spendable ELSE {}]
    <2>1. /\ call' = [call EXCEPT ![c] = after]
          /\ ~busy /\ busy' = TRUE /\ built' = built
      BY <1>3 DEF StartCreate, Free, txlog, history
    <2>2. after.pc = "checking"
      OBVIOUS
    <2> HIDE DEF after
    <2>3. QED
      BY <1>2, <2>1, <2>2
  <1>4. ASSUME NEW c \in Callers, ProverMissing(c) \/ ProofFails(c) \/ SyncEnd(c)
        PROVE  OneWriter'
    <2>1. /\ Exclusive(c) /\ ~busy'
          /\ call' = [call EXCEPT ![c] = Idle] /\ built' = built
      BY <1>4 DEF ProverMissing, ProofFails, SyncEnd, Unlock, txlog, history
    <2>2. QED
      BY <1>1, <2>1
  <1>5. ASSUME NEW c \in Callers, StartProof(c) PROVE OneWriter'
    BY <1>5 DEF StartProof, txlog, history
  <1>6. ASSUME NEW c \in Callers, NEW t \in Txs, NEW N \in SUBSET Notes,
               ProofSucceeds(c, t, N)
        PROVE  OneWriter'
    <2> DEFINE waiting == [Idle EXCEPT !.pc = "built", !.tx = t]
    <2>1. Exclusive(c) /\ ~busy' /\ built' = built \cup {t}
      BY <1>6 DEF ProofSucceeds
    <2>2. \/ call' = [call EXCEPT ![c] = waiting]
          \/ call' = [call EXCEPT ![c] = Idle]
      BY <1>6 DEF ProofSucceeds
    <2>3. waiting.pc = "built" /\ waiting.spendable = {} /\ waiting.tx = t
      OBVIOUS
    <2>4. CASE call' = [call EXCEPT ![c] = waiting]
      <3> HIDE DEF waiting
      <3>1. QED
        BY <1>1, <2>1, <2>3, <2>4
    <2>5. CASE call' = [call EXCEPT ![c] = Idle]
      <3>1. Idle.pc = "idle" /\ Idle.spendable = {}
        OBVIOUS
      <3>2. QED
        BY <1>1, <2>1, <2>5, <3>1
    <2>6. QED
      BY <2>2, <2>4, <2>5
  <1>7. ASSUME NEW c \in Callers, IssueBroadcast(c) PROVE OneWriter'
    BY <1>7 DEF IssueBroadcast, txlog, history
  <1>8. ASSUME NEW c \in Callers,
               SendAccepted(c) \/ SendRejected(c) \/ SendAmbiguous(c) \/ SendTimeout(c)
        PROVE  OneWriter'
    <2>1. /\ call[c].pc = "sending" /\ call' = [call EXCEPT ![c] = Idle]
          /\ busy' = busy /\ built' = built
      BY <1>8 DEF SendAccepted, SendRejected, SendAmbiguous, SendTimeout, Settle,
                  finalizeTransaction, discardTransaction, KeepPending, txlog
    <2>2. QED
      BY <1>1, <2>1
  <1>9. ASSUME NEW c \in Callers, SyncStart(c) PROVE OneWriter'
    BY <1>9 DEF SyncStart, Free, txlog, history
  <1>10. CASE UNCHANGED <<Calls, built>>
    BY <1>10 DEF Calls
  <1>11. ASSUME \/ \E D, S : applyBlocks(D, S)
                \/ \E t \in Txs : OperatorFinalize(t) \/ OperatorDiscard(t)
                \/ Dropped \/ save
         PROVE  UNCHANGED <<Calls, built>>
    BY <1>11 DEF applyBlocks, OperatorFinalize, OperatorDiscard,
                 finalizeTransaction, discardTransaction, Dropped,
                 reloadFromCheckpoint, SyncRewind, save, Calls, wallet, txlog, history
  <1>12. CASE Restart
    BY <1>12 DEF Restart
  <1> HIDE DEF TypeOK, OneWriter, Exclusive, Idle, At
  <1>13. QED
    BY <1>3, <1>4, <1>5, <1>6, <1>7, <1>8, <1>9, <1>10, <1>11, <1>12,
       NetworkFrame, ApplicationFrame
    DEF Next, Progress, Scan, Application, Dropped, handleBlocks, SyncBatch, Books

-----------------------------------------------------------------------------
(* The books of the running wallet and of the last save.                   *)
MemoryBooks == BooksBalance(notes, seen, UNION scannedSpends, pendingSpends, built)
DiskBooks ==
  /\ BooksBalance(disk.notes, disk.seen, UNION disk.scannedSpends,
                  disk.pendingSpends, disk.built)
  /\ disk.built \subseteq built

(* What the call that is building was offered.                             *)
Offers ==
  \A c \in Callers :
    call[c].spendable \subseteq notes /\ call[c].spendable \cap Reserved = {}

(* A finalized transaction leaves no note of its own tracked, and another  *)
(* transaction's notes alone.                                              *)
LEMMA FinalizeKeepsBooks ==
  ASSUME TypeOK, MemoryBooks, NEW t \in Txs, finalizeTransaction(t)
  PROVE  MemoryBooks'
  BY DEF TypeOK, MemoryBooks, BooksBalance, finalizeTransaction, txlog

LEMMA DiscardKeepsBooks ==
  ASSUME TypeOK, MemoryBooks, NEW t \in Txs, discardTransaction(t)
  PROVE  MemoryBooks'
  BY DEF TypeOK, MemoryBooks, BooksBalance, discardTransaction

LEMMA UnionOfUnion ==
  ASSUME NEW A, NEW B PROVE UNION (A \cup B) = (UNION A) \cup (UNION B)
  OBVIOUS

(* A batch brings in only notes never scanned before, so it can return no  *)
(* input of a known transaction to the tracked notes.                      *)
LEMMA ScanKeepsBooks ==
  ASSUME TypeOK, MemoryBooks, NEW D, NEW S, applyBlocks(D, S)
  PROVE  MemoryBooks'
  <1> DEFINE tracked == Kept(D, S)
             spent   == UNION scannedSpends
             spentBy == UNION S
  <1>1. /\ notes' = tracked
        /\ seen' = seen \cup D
        /\ D \cap seen = {}
        /\ spentBy \subseteq seen \cup D
        /\ \A t \in Txs : pendingSpends'[t] = IF pendingSpends[t] \cap tracked = {}
                                              THEN {} ELSE pendingSpends[t]
        /\ UNCHANGED <<built, inputs, forgotten>>
    BY DEF applyBlocks, Batch, Reconciled, txlog, history
  <1>2. tracked \subseteq notes \cup D /\ tracked \cap spentBy = {}
    BY DEF Kept
  <1>3. UNION scannedSpends' = spent \cup spentBy
    <2>1. scannedSpends' = scannedSpends \cup S
      BY DEF applyBlocks
    <2>2. QED
      BY <2>1, UnionOfUnion
  <1>4. notes \subseteq seen /\ spent \subseteq seen /\ notes \cap spent = {}
    BY DEF MemoryBooks, BooksBalance
  <1> HIDE DEF tracked, spent, spentBy
  <1>5. /\ notes' \subseteq seen' /\ UNION scannedSpends' \subseteq seen'
        /\ notes' \cap UNION scannedSpends' = {}
    BY <1>1, <1>2, <1>3, <1>4
  <1>6. QED
    BY <1>1, <1>2, <1>5 DEF TypeOK, MemoryBooks, BooksBalance

(* The caller that waits for an answer waits for a transaction of ours.    *)
LEMMA SendingTx ==
  ASSUME TypeOK, OneWriter, NEW c \in Callers, At(c, "sending")
  PROVE  call[c].tx \in Txs
  BY DEF TypeOK, OneWriter, At

LEMMA MemoryBooksNext ==
  TypeOK /\ OneWriter /\ Offers /\ MemoryBooks /\ DiskBooks /\ [Next]_vars
    => MemoryBooks'
  <1> SUFFICES ASSUME TypeOK, OneWriter, Offers, MemoryBooks, DiskBooks, [Next]_vars
               PROVE  MemoryBooks'
    OBVIOUS
  <1>1. ASSUME NEW c \in Callers, NEW t \in Txs, NEW N \in SUBSET Notes,
               ProofSucceeds(c, t, N)
        PROVE  MemoryBooks'
    <2>1. N \subseteq notes /\ N \cap Reserved = {}
      BY <1>1 DEF ProofSucceeds, Offers
    <2>2. \A u \in Txs : N \cap pendingSpends[u] = {}
      BY <2>1 DEF Reserved
    <2>3. pendingSpends[t] = {}
      BY <1>1 DEF ProofSucceeds, MemoryBooks, BooksBalance
    <2>4. QED
      BY <1>1, <2>1, <2>2, <2>3
      DEF ProofSucceeds, MemoryBooks, BooksBalance, TypeOK
  <1>2. ASSUME NEW c \in Callers, SendAccepted(c) PROVE MemoryBooks'
    BY <1>2, SendingTx, FinalizeKeepsBooks DEF SendAccepted, Settle
  <1>3. ASSUME NEW c \in Callers, SendRejected(c) PROVE MemoryBooks'
    BY <1>3, SendingTx, DiscardKeepsBooks DEF SendRejected, Settle
  <1>4. ASSUME NEW t \in Txs, OperatorFinalize(t) PROVE MemoryBooks'
    BY <1>4, FinalizeKeepsBooks DEF OperatorFinalize
  <1>5. ASSUME NEW t \in Txs, OperatorDiscard(t) PROVE MemoryBooks'
    BY <1>5, DiscardKeepsBooks DEF OperatorDiscard
  <1>6. CASE reloadFromCheckpoint
    BY <1>6 DEF reloadFromCheckpoint, MemoryBooks, BooksBalance
  <1>7. CASE Restart
    BY <1>7 DEF Restart, MemoryBooks, DiskBooks, BooksBalance, TypeOK
  <1>8. CASE UNCHANGED <<notes, seen, scannedSpends, pendingSpends, built, inputs,
                         forgotten>>
    BY <1>8 DEF MemoryBooks, BooksBalance
  <1>9. save => UNCHANGED <<notes, seen, scannedSpends, pendingSpends, built, inputs,
                            forgotten>>
    BY DEF save, wallet, ledger, txlog, history
  <1>10. ASSUME NEW c \in Callers, SyncRewind(c) PROVE MemoryBooks'
    <2>1. /\ notes' = {} /\ seen' = {} /\ scannedSpends' = {} /\ Reserved = {}
          /\ forgotten' = forgotten \cup built
          /\ UNCHANGED <<pendingSpends, built, inputs>>
      BY <1>10 DEF SyncRewind
    <2>2. \A t \in Txs : pendingSpends'[t] = {}
      BY <2>1 DEF Reserved
    <2>3. QED
      BY <2>1, <2>2 DEF MemoryBooks, BooksBalance
  <1>11. QED
    BY <1>1, <1>2, <1>3, <1>4, <1>5, <1>6, <1>7, <1>8, <1>9, <1>10, ScanKeepsBooks,
       QuietFrame, NetworkFrame, ApplicationFrame
    DEF Next, Progress, Scan, Application, handleBlocks, SyncBatch, Quiet, Books

-----------------------------------------------------------------------------
LEMMA OffersNext ==
  TypeOK /\ OneWriter /\ MemoryBooks /\ Offers /\ [Next]_vars => Offers'
  <1> SUFFICES ASSUME TypeOK, OneWriter, MemoryBooks, Offers, [Next]_vars PROVE Offers'
    OBVIOUS
  (* Nobody is building after the step. *)
  <1>1. (\A c \in Callers : call'[c].spendable = {}) => Offers'
    BY DEF Offers
  (* Offers only go away, and so do reservations; the notes stay. *)
  <1>2. ASSUME \A c \in Callers : call'[c].spendable \subseteq call[c].spendable,
               UNCHANGED notes,
               \A t \in Txs : pendingSpends'[t] \subseteq pendingSpends[t]
        PROVE  Offers'
    BY <1>2 DEF Offers, Reserved
  <1>3. ASSUME NEW t \in Txs, finalizeTransaction(t),
               \A c \in Callers : call'[c].spendable \subseteq call[c].spendable
        PROVE  Offers'
    <2>1. pendingSpends[t] \subseteq Reserved
      BY DEF Reserved
    <2>2. \A u \in Txs : pendingSpends'[u] \subseteq pendingSpends[u]
      BY <1>3 DEF finalizeTransaction, TypeOK
    <2>3. Reserved' \subseteq Reserved
      BY <2>2 DEF Reserved
    <2>4. QED
      BY <1>3, <2>1, <2>3 DEF Offers, finalizeTransaction
  <1>4. ASSUME NEW t \in Txs, discardTransaction(t),
               \A c \in Callers : call'[c].spendable \subseteq call[c].spendable
        PROVE  Offers'
    BY <1>2, <1>4 DEF discardTransaction, TypeOK
  <1>5. Free => \A c \in Callers : call[c].spendable = {}
    BY DEF Free, OneWriter, Exclusive
  <1>6. ASSUME NEW c \in Callers, At(c, "syncing")
        PROVE  \A d \in Callers : call[d].spendable = {}
    BY <1>6 DEF At, OneWriter, Exclusive
  (* A step of a call that ends it leaves the other offers as they are. *)
  <1>7. ASSUME NEW c \in Callers, call' = [call EXCEPT ![c] = Idle]
        PROVE  \A d \in Callers : call'[d].spendable \subseteq call[d].spendable
    BY <1>7 DEF Idle, TypeOK
  <1>8. ASSUME NEW c \in Callers, NEW send \in BOOLEAN, NEW shield \in BOOLEAN,
               StartCreate(c, send, shield)
        PROVE  Offers'
    <2>1. UNCHANGED <<notes, pendingSpends>>
      BY <1>8 DEF StartCreate, ledger
    <2>2. Reserved' = Reserved
      BY <2>1 DEF Reserved
    <2>3. \A d \in Callers : call'[d].spendable = {} \/ call'[d].spendable = Spendable
      BY <1>5, <1>8 DEF StartCreate, Idle, TypeOK
    <2>4. QED
      BY <2>1, <2>2, <2>3 DEF Offers, Spendable
  <1>9. ASSUME NEW c \in Callers, NEW t \in Txs, NEW N \in SUBSET Notes,
               ProofSucceeds(c, t, N)
        PROVE  Offers'
    <2>1. \A d \in Callers : d # c => call[d].spendable = {}
      BY <1>9 DEF ProofSucceeds, At, OneWriter, Exclusive
    <2> DEFINE waiting == [Idle EXCEPT !.pc = "built", !.tx = t]
    <2>2. \/ call' = [call EXCEPT ![c] = waiting]
          \/ call' = [call EXCEPT ![c] = Idle]
      BY <1>9 DEF ProofSucceeds
    <2>3. waiting.spendable = {} /\ Idle.spendable = {}
      BY DEF Idle
    <2> HIDE DEF waiting
    <2>4. \A d \in Callers : call'[d].spendable = {}
      BY <2>1, <2>2, <2>3 DEF TypeOK
    <2>5. QED
      BY <1>1, <2>4
  <1>10. ASSUME NEW c \in Callers, SendAccepted(c) PROVE Offers'
    BY <1>3, <1>7, <1>10, SendingTx DEF SendAccepted, Settle
  <1>11. ASSUME NEW c \in Callers, SendRejected(c) PROVE Offers'
    BY <1>4, <1>7, <1>11, SendingTx DEF SendRejected, Settle
  <1>12. ASSUME NEW c \in Callers,
                \/ ProverMissing(c) \/ StartProof(c) \/ ProofFails(c)
                \/ IssueBroadcast(c) \/ SendAmbiguous(c) \/ SendTimeout(c)
                \/ SyncStart(c) \/ SyncEnd(c)
         PROVE  Offers'
    <2>1. ASSUME ProverMissing(c) \/ ProofFails(c) \/ SendAmbiguous(c)
                 \/ SendTimeout(c) \/ SyncEnd(c)
          PROVE  \A d \in Callers : call'[d].spendable \subseteq call[d].spendable
      BY <1>7, <2>1 DEF ProverMissing, ProofFails, SendAmbiguous, SendTimeout,
                        Settle, SyncEnd
    <2>2. ASSUME StartProof(c) \/ IssueBroadcast(c) \/ SyncStart(c)
          PROVE  \A d \in Callers : call'[d].spendable \subseteq call[d].spendable
      <3>1. ASSUME NEW after \in CallState, call' = [call EXCEPT ![c] = after],
                   after.spendable = call[c].spendable
            PROVE  \A d \in Callers : call'[d].spendable \subseteq call[d].spendable
        BY <3>1 DEF TypeOK
      <3>2. CASE StartProof(c)
        <4> DEFINE after == [call[c] EXCEPT !.pc = "proving",
                                            !.savedIndex = diversifierIndex]
        <4>1. after \in CallState /\ after.spendable = call[c].spendable
          BY CallEdits DEF TypeOK, CallState
        <4>2. call' = [call EXCEPT ![c] = after]
          BY <3>2 DEF StartProof
        <4> HIDE DEF after
        <4>3. QED
          BY <3>1, <4>1, <4>2
      <3>3. CASE IssueBroadcast(c) \/ SyncStart(c)
        <4>1. \A ph \in {"sending", "syncing"} :
                /\ [call[c] EXCEPT !.pc = ph] \in CallState
                /\ [call[c] EXCEPT !.pc = ph].spendable = call[c].spendable
          BY CallEdits DEF TypeOK, CallState, Phases
        <4>2. \E ph \in {"sending", "syncing"} :
                call' = [call EXCEPT ![c] = [call[c] EXCEPT !.pc = ph]]
          BY <3>3 DEF IssueBroadcast, SyncStart
        <4>3. QED
          BY <3>1, <4>1, <4>2
      <3>4. QED
        BY <2>2, <3>2, <3>3
    <2>3. \A d \in Callers : call'[d].spendable \subseteq call[d].spendable
      BY <1>12, <2>1, <2>2
    <2>4. UNCHANGED <<notes, pendingSpends>>
      BY <1>12, QuietFrame DEF Quiet, Books
    <2>5. QED
      BY <1>2, <2>3, <2>4
  <1>13. ASSUME NEW t \in Txs, OperatorFinalize(t) PROVE Offers'
    BY <1>3, <1>13 DEF OperatorFinalize
  <1>14. ASSUME NEW t \in Txs, OperatorDiscard(t) PROVE Offers'
    BY <1>4, <1>14 DEF OperatorDiscard
  <1>15. ASSUME NEW D, NEW S,
                handleBlocks(D, S) \/ \E c \in Callers : SyncBatch(c, D, S)
         PROVE  Offers'
    <2>1. \A d \in Callers : call[d].spendable = {}
      BY <1>5, <1>6, <1>15 DEF handleBlocks, SyncBatch
    <2>2. call' = call
      BY <1>15 DEF handleBlocks, SyncBatch, applyBlocks
    <2>3. QED
      BY <1>1, <2>1, <2>2
  <1>16. CASE reloadFromCheckpoint
    BY <1>1, <1>5, <1>16 DEF reloadFromCheckpoint
  <1>17. CASE Restart
    BY <1>1, <1>17 DEF Restart, Idle
  <1>18. CASE UNCHANGED <<notes, pendingSpends, call>>
    BY <1>2, <1>18
  <1>19. save \/ (\E c \in Callers : SyncRewind(c))
           => UNCHANGED <<notes, pendingSpends, call>>
    BY DEF save, SyncRewind, wallet, ledger
  <1>20. QED
    BY <1>8, <1>9, <1>10, <1>11, <1>12, <1>13, <1>14, <1>15, <1>16, <1>17, <1>18,
       <1>19, NetworkFrame, ApplicationFrame
    DEF Next, Progress, Scan, Application, Books, Calls

-----------------------------------------------------------------------------
(* Steps other than a successful build, a save and a restore keep the      *)
(* transactions and the saved books, and at most give more of them up.     *)
LEMMA LogGrows ==
  ASSUME \/ \E c \in Callers : Quiet(c) \/ SendAccepted(c) \/ SendRejected(c)
         \/ \E t \in Txs : OperatorFinalize(t) \/ OperatorDiscard(t)
         \/ \E D, S : applyBlocks(D, S)
         \/ Dropped \/ Restart
  PROVE  UNCHANGED <<disk, inputs, built>> /\ forgotten \subseteq forgotten'
  BY QuietFrame
  DEF SendAccepted, SendRejected, Settle, OperatorFinalize, OperatorDiscard,
      finalizeTransaction, discardTransaction, applyBlocks, Dropped,
      reloadFromCheckpoint, SyncRewind, Restart, durable, outside, txlog, history, Books

(* The books of the last save stay balanced against the transactions the   *)
(* running wallet builds after it.                                         *)
LEMMA DiskBooksNext ==
  TypeOK /\ MemoryBooks /\ DiskBooks /\ [Next]_vars => DiskBooks'
  <1> SUFFICES ASSUME TypeOK, MemoryBooks, DiskBooks, [Next]_vars PROVE DiskBooks'
    OBVIOUS
  <1>1. ASSUME UNCHANGED <<disk, inputs, built>>, forgotten \subseteq forgotten'
        PROVE  DiskBooks'
    BY <1>1 DEF DiskBooks, BooksBalance
  <1>2. ASSUME NEW c \in Callers, NEW t \in Txs, NEW N \in SUBSET Notes,
               ProofSucceeds(c, t, N)
        PROVE  DiskBooks'
    <2>1. /\ t \notin built
          /\ built' = built \cup {t}
          /\ inputs' = [inputs EXCEPT ![t] = N]
          /\ disk' = disk /\ forgotten' = forgotten
      BY <1>2 DEF ProofSucceeds, durable
    <2>2. QED
      BY <2>1 DEF DiskBooks, BooksBalance, TypeOK
  <1>3. CASE save
    <2>1. /\ disk'.notes = notes /\ disk'.seen = seen /\ disk'.built = built
          /\ disk'.scannedSpends = scannedSpends
          /\ disk'.pendingSpends = pendingSpends
          /\ UNCHANGED <<inputs, built, forgotten>>
      BY <1>3 DEF save, Image, SavedPending, txlog, history
    <2>2. QED
      BY <2>1 DEF MemoryBooks, DiskBooks, BooksBalance
  <1>4. QED
    BY <1>1, <1>2, <1>3, LogGrows, NetworkFrame, ApplicationFrame
    DEF Next, Progress, Scan, Application, Dropped, handleBlocks, SyncBatch, Quiet, Books

-----------------------------------------------------------------------------
(* Only a transaction that was built can be given up.                      *)
ForgottenBuilt == forgotten \subseteq built

LEMMA ForgottenNext ==
  TypeOK /\ OneWriter /\ MemoryBooks /\ ForgottenBuilt /\ [Next]_vars => ForgottenBuilt'
  <1> SUFFICES ASSUME TypeOK, OneWriter, MemoryBooks, ForgottenBuilt, [Next]_vars
               PROVE  ForgottenBuilt'
    OBVIOUS
  <1> USE DEF ForgottenBuilt
  <1>1. ASSUME NEW c \in Callers, NEW t \in Txs, NEW N \in SUBSET Notes,
               ProofSucceeds(c, t, N)
        PROVE  ForgottenBuilt'
    BY <1>1 DEF ProofSucceeds
  <1>2. ASSUME NEW c \in Callers, SendRejected(c) PROVE ForgottenBuilt'
    BY <1>2 DEF SendRejected, Settle, discardTransaction, OneWriter, At
  <1>3. ASSUME NEW t \in Txs, OperatorDiscard(t) PROVE ForgottenBuilt'
    BY <1>3 DEF OperatorDiscard, discardTransaction, MemoryBooks, BooksBalance
  <1>4. CASE Dropped
    BY <1>4 DEF Dropped, reloadFromCheckpoint, SyncRewind
  <1>5. CASE Restart
    BY <1>5 DEF Restart
  <1>6. CASE UNCHANGED <<built, forgotten>>
    BY <1>6
  <1>7. ASSUME \/ \E c \in Callers : SendAccepted(c)
               \/ \E t \in Txs : OperatorFinalize(t)
               \/ \E D, S : applyBlocks(D, S)
               \/ save
        PROVE  UNCHANGED <<built, forgotten>>
    BY <1>7 DEF SendAccepted, OperatorFinalize, finalizeTransaction, applyBlocks,
                save, txlog, history
  <1>8. QED
    BY <1>1, <1>2, <1>3, <1>4, <1>5, <1>6, <1>7, QuietFrame, NetworkFrame,
       ApplicationFrame
    DEF Next, Progress, Scan, Application, Dropped, handleBlocks, SyncBatch, Quiet, Books

-----------------------------------------------------------------------------
(* A new transaction takes none of the notes of one that still counts.     *)
LEMMA NoDoubleSpendNext ==
  TypeOK /\ MemoryBooks /\ Offers /\ NoDoubleSpend /\ [Next]_vars => NoDoubleSpend'
  <1> SUFFICES ASSUME TypeOK, MemoryBooks, Offers, NoDoubleSpend, [Next]_vars
               PROVE  NoDoubleSpend'
    OBVIOUS
  <1>1. ASSUME UNCHANGED <<inputs, built>>, forgotten \subseteq forgotten'
        PROVE  NoDoubleSpend'
    BY <1>1 DEF NoDoubleSpend
  <1>2. ASSUME NEW c \in Callers, NEW t \in Txs, NEW N \in SUBSET Notes,
               ProofSucceeds(c, t, N)
        PROVE  NoDoubleSpend'
    <2>1. /\ t \notin built
          /\ built' = built \cup {t}
          /\ inputs' = [inputs EXCEPT ![t] = N]
          /\ forgotten' = forgotten
          /\ N \subseteq call[c].spendable \/ N = {}
      BY <1>2 DEF ProofSucceeds
    <2>2. \A u \in built \ forgotten : inputs[u] \cap N = {}
      BY <2>1 DEF Offers, Reserved, MemoryBooks, BooksBalance, TypeOK
    <2>3. QED
      BY <2>1, <2>2 DEF NoDoubleSpend, TypeOK
  <1>3. save => UNCHANGED <<inputs, built, forgotten>>
    BY DEF save, txlog, history
  <1>4. QED
    BY <1>1, <1>2, <1>3, LogGrows, NetworkFrame, ApplicationFrame
    DEF Next, Progress, Scan, Application, Dropped, handleBlocks, SyncBatch, Quiet, Books

-----------------------------------------------------------------------------
(* IInv holds in every state: it is inductive.                             *)
THEOREM InductiveInvariant == Spec => []IInv
  <1> DEFINE Parts == /\ TypeOK /\ OneWriter /\ MemoryBooks /\ DiskBooks
                      /\ Offers /\ ForgottenBuilt /\ NoDoubleSpend
  <1>1. Init => Parts
    <2> SUFFICES ASSUME Init PROVE Parts
      OBVIOUS
    <2>1. OneWriter
      BY DEF Init, OneWriter, Exclusive, Idle
    <2>2. MemoryBooks
      BY DEF Init, MemoryBooks, BooksBalance
    <2>3. disk.notes = {} /\ disk.seen = {} /\ disk.built = {}
            /\ disk.scannedSpends = {} /\ disk.pendingSpends = [t \in Txs |-> {}]
      BY DEF Init, Image, SavedPending
    <2>4. DiskBooks
      BY <2>3 DEF DiskBooks, BooksBalance
    <2>5. Offers /\ ForgottenBuilt /\ NoDoubleSpend
      BY DEF Init, Offers, ForgottenBuilt, NoDoubleSpend, Idle
    <2>6. QED
      BY TypeInit, <2>1, <2>2, <2>4, <2>5
  <1>2. Parts => IInv
    BY DEF IInv, Offers, OfferStaysTracked, ReservationsDisjoint, MemoryBooks,
           DiskBooks, BooksBalance, ForgottenBuilt
  <1>3. IInv => ReservationsDisjoint /\ OfferStaysTracked
    BY DEF IInv
  <1>4. Parts /\ [Next]_vars => Parts'
    BY <1>2, <1>3, TypeNext, OneWriterNext, MemoryBooksNext, OffersNext,
       DiskBooksNext, ForgottenNext, NoDoubleSpendNext
  <1>5. QED
    BY <1>1, <1>2, <1>4, PTL DEF Spec

(* Type correctness of the wallet, its saves and the node. *)
THEOREM TypeCorrect == Spec => []TypeOK
  BY InductiveInvariant, PTL DEF IInv

(* At most one of the calls that change state is past its guard (wallet.ts *)
(* 816-821: the guard is taken before anything is read or awaited).        *)
THEOREM GuardExcludes == Spec => []OneWriter
  BY InductiveInvariant, PTL DEF IInv

(* Two pending transactions never hold the same note.                      *)
THEOREM ReservationsAreDisjoint == Spec => []ReservationsDisjoint
  BY InductiveInvariant, PTL DEF IInv

(* However finalizations, discards and scans interleave with a build, the  *)
(* notes it was offered are still there when it reserves them.             *)
THEOREM OffersStayTracked == Spec => []OfferStaysTracked
  BY InductiveInvariant, PTL DEF IInv

(* No note of a transaction that was neither discarded nor dropped by a    *)
(* reload, a rewind or an older save is ever offered to another send.      *)
THEOREM NeverOfferedTwice == Spec => []InFlightNeverOffered
  <1>1. IInv => InFlightNeverOffered
    BY DEF IInv, BooksBalance, InFlightNeverOffered, Spendable, Reserved, TypeOK
  <1>2. QED
    BY <1>1, InductiveInvariant, PTL

(* No two transactions that still count spend the same note, through any   *)
(* interleaving of calls, lost answers, crashes and restores.              *)
THEOREM NoDoubleSpends == Spec => []NoDoubleSpend
  BY InductiveInvariant, PTL DEF IInv

(* A note the scanned chain spends is not tracked: what was scanned as     *)
(* spent stays spent, until a reload, a rewind or a restore forgets it.    *)
THEOREM SpentNotesStaySpent == Spec => SpentStaysSpent
  <1>1. IInv' => notes' \cap UNION scannedSpends' = {}
    BY DEF IInv, BooksBalance
  <1>2. IInv' => [ \A n \in UNION scannedSpends :
                     n \in UNION scannedSpends' => n \notin notes' ]_vars
    BY <1>1
  <1>3. QED
    BY <1>2, InductiveInvariant, PTL DEF SpentStaysSpent

-----------------------------------------------------------------------------
(* Reservations of a wallet state, in memory or saved: each holds a note   *)
(* that is still tracked, and each tracked or held note is attributable.   *)
Reservations(nts, pending, attributed) ==
  /\ \A t \in Txs : pending[t] # {} => pending[t] \cap nts # {}
  /\ nts \subseteq attributed
  /\ \A t \in Txs : pending[t] \subseteq attributed

AllReservations ==
  /\ Reservations(notes, pendingSpends, nullifierMap)
  /\ Reservations(disk.notes, disk.pendingSpends, disk.nullifierMap)

LEMMA ReservationsNext ==
  IInv /\ AllReservations /\ [Next]_vars => AllReservations'
  <1> SUFFICES ASSUME IInv, AllReservations, [Next]_vars PROVE AllReservations'
    OBVIOUS
  <1> USE DEF AllReservations, Reservations
  <1>1. /\ TypeOK /\ OfferStaysTracked
        /\ \A t, u \in Txs : t # u => pendingSpends[t] \cap pendingSpends[u] = {}
    BY DEF IInv, ReservationsDisjoint
  <1>2. ASSUME NEW c \in Callers, NEW t \in Txs, NEW N \in SUBSET Notes,
               ProofSucceeds(c, t, N)
        PROVE  AllReservations'
    <2>1. N \subseteq notes
      BY <1>1, <1>2 DEF ProofSucceeds, OfferStaysTracked
    <2>2. QED
      BY <1>1, <1>2, <2>1 DEF ProofSucceeds, durable, TypeOK
  <1>3. ASSUME NEW t \in Txs, finalizeTransaction(t), disk' = disk PROVE AllReservations'
    BY <1>1, <1>3 DEF finalizeTransaction, TypeOK
  <1>4. ASSUME NEW t \in Txs, discardTransaction(t), disk' = disk PROVE AllReservations'
    BY <1>1, <1>4 DEF discardTransaction, TypeOK
  <1>5. ASSUME NEW c \in Callers, SendAccepted(c) \/ SendRejected(c) PROVE AllReservations'
    <2>1. call[c].tx \in Txs
      BY <1>1, <1>5, SendingTx DEF SendAccepted, SendRejected, Settle, IInv
    <2>2. QED
      BY <1>3, <1>4, <1>5, <2>1 DEF SendAccepted, SendRejected, Settle, durable
  <1>6. ASSUME NEW t \in Txs, OperatorFinalize(t) \/ OperatorDiscard(t)
        PROVE  AllReservations'
    BY <1>3, <1>4, <1>6 DEF OperatorFinalize, OperatorDiscard, outside, durable
  <1>7. ASSUME NEW D, NEW S, applyBlocks(D, S) PROVE AllReservations'
    <2>1. /\ notes' \subseteq notes \cup D
          /\ nullifierMap' = nullifierMap \cup D
          /\ \A t \in Txs : pendingSpends'[t] = IF pendingSpends[t] \cap notes' = {}
                                                THEN {} ELSE pendingSpends[t]
          /\ disk' = disk
      BY <1>7 DEF applyBlocks, Kept, Reconciled, outside, durable
    <2>2. QED
      BY <2>1
  <1>8. CASE pruneNullifiers
    <2>1. /\ nullifierMap' = nullifierMap \cap (notes \cup Reserved)
          /\ UNCHANGED <<notes, pendingSpends, disk>>
      BY <1>8 DEF pruneNullifiers, Live, outside, durable
    <2>2. \A t \in Txs : pendingSpends[t] \subseteq Reserved
      BY DEF Reserved
    <2>3. QED
      BY <2>1, <2>2
  <1>9. CASE Dropped
    BY <1>9 DEF Dropped, reloadFromCheckpoint, SyncRewind, outside, durable
  <1>10. CASE save
    <2>1. /\ disk'.notes = notes /\ disk'.pendingSpends = pendingSpends
          /\ disk'.nullifierMap = nullifierMap
          /\ UNCHANGED <<notes, pendingSpends, nullifierMap>>
      BY <1>10 DEF save, Image, SavedPending, wallet, ledger
    <2>2. QED
      BY <2>1
  <1>11. CASE Restart
    BY <1>11 DEF Restart
  <1>12. CASE UNCHANGED <<notes, pendingSpends, nullifierMap, disk>>
    BY <1>12
  <1>13. ASSUME \/ \E c \in Callers : Quiet(c)
                \/ Network \/ getNewAddress \/ loadSpendingKey
                \/ UNCHANGED vars
         PROVE  UNCHANGED <<notes, pendingSpends, nullifierMap, disk>>
    <2>1. ASSUME NEW c \in Callers, Quiet(c) PROVE UNCHANGED nullifierMap
      BY <2>1 DEF Quiet, ProverMissing, StartProof, ProofFails, IssueBroadcast,
         SendAmbiguous, SendTimeout, Settle, KeepPending, SyncStart, SyncEnd,
         StartCreate, ledger
    <2>2. Network \/ getNewAddress \/ loadSpendingKey \/ UNCHANGED vars
            => UNCHANGED nullifierMap
      BY DEF Network, Deposit, NodeReceive, AppBroadcast, Confirm, Evict,
         ExternalSpend, getNewAddress, loadSpendingKey, vars, wallet, ledger
    <2>3. QED
      BY <1>13, <2>1, <2>2, QuietFrame, NetworkFrame, ApplicationFrame DEF Books
  <1> HIDE DEF AllReservations, Reservations
  <1>14. QED
    BY <1>2, <1>5, <1>6, <1>7, <1>8, <1>9, <1>10, <1>11, <1>12, <1>13
    DEF Next, Progress, Scan, Application, Dropped, handleBlocks, SyncBatch, Quiet

LEMMA ReservationsAlways == Spec => []AllReservations
  <1>1. Init => AllReservations
    BY DEF Init, Image, SavedPending, AllReservations, Reservations
  <1>2. QED
    BY <1>1, ReservationsNext, InductiveInvariant, PTL DEF Spec

(* applyBlocks reconciles pendingSpends (wallet.ts 473-478): no entry      *)
(* outlives the last of its notes, in memory or in a save.                 *)
THEOREM NoReservationLeaks == Spec => []NoLeakedReservation
  <1>1. AllReservations => NoLeakedReservation
    BY DEF AllReservations, Reservations, NoLeakedReservation
  <1>2. QED
    BY <1>1, ReservationsAlways, PTL

(* getNoteFromNullifier can attribute whatever is tracked or pending,      *)
(* whenever pruneNullifiers ran (wallet.ts 379-390).                       *)
THEOREM AttributionIsKept == Spec => []AttributionKept
  <1>1. AllReservations => AttributionKept
    BY DEF AllReservations, Reservations, AttributionKept, Reserved
  <1>2. QED
    BY <1>1, ReservationsAlways, PTL

-----------------------------------------------------------------------------
(* What send() may conclude from the node's answers: it releases notes by  *)
(* itself only if the node does not have the transaction, and never will.  *)

Waits(c) == call[c].pc \in {"built", "sending"}

(* Every transaction anyone knows of was built by this key's wallet.       *)
KnownTxs ==
  /\ wire \subseteq built /\ hands \subseteq built /\ autoReleased \subseteq built
  /\ mempool \subseteq built /\ confirmed \subseteq built

(* A transaction that send() is broadcasting is in that call's hands only. *)
OwnTx ==
  /\ \A c \in Callers : Waits(c) => call[c].tx \in built \ (hands \cup autoReleased)
  /\ \A c, d \in Callers : c # d /\ Waits(c) /\ Waits(d) => call[c].tx # call[d].tx

(* The node's last answer is kept while somebody waits for it, and a       *)
(* rejection still tells the truth when it is read.                        *)
AnswersCurrent ==
  /\ \A t \in Txs : reply[t] # "none" => Awaited(t)
  /\ \A t \in Txs : reply[t] = "rejected" => t \notin Held

(* Nothing can bring a released transaction back to the node.              *)
ReleasedIsDead == autoReleased \cap (Held \cup wire \cup hands) = {}

BroadcastInv == KnownTxs /\ OwnTx /\ AnswersCurrent /\ ReleasedIsDead

Outcome == <<wire, hands, autoReleased, mempool, confirmed, reply>>

(* The steps that neither build, broadcast, answer nor settle.             *)
LEMMA OutcomeFrame ==
  ASSUME \/ \E c \in Callers :
              \/ ProverMissing(c) \/ StartProof(c) \/ ProofFails(c)
              \/ SyncStart(c) \/ SyncEnd(c)
              \/ \E send, shield \in BOOLEAN : StartCreate(c, send, shield)
         \/ \E D, S : applyBlocks(D, S)
         \/ getNewAddress \/ loadSpendingKey \/ pruneNullifiers
         \/ \E t \in Txs : OperatorFinalize(t)
         \/ Dropped \/ save
         \/ \E n \in Notes : Deposit(n)
         \/ UNCHANGED vars
  PROVE  UNCHANGED <<Outcome, built>>
  BY DEF ProverMissing, StartProof, ProofFails, SyncStart, SyncEnd, StartCreate,
         applyBlocks, getNewAddress, loadSpendingKey, pruneNullifiers,
         OperatorFinalize, finalizeTransaction, Dropped, reloadFromCheckpoint,
         SyncRewind, save, Deposit, vars, Outcome, wallet, outside, node, chain, durable, history,
         txlog

(* Nor do they change who waits, and for what.                             *)
LEMMA WaitsFrame ==
  ASSUME TypeOK,
         \/ \E c \in Callers :
              \/ ProverMissing(c) \/ StartProof(c) \/ ProofFails(c)
              \/ SyncStart(c) \/ SyncEnd(c)
              \/ \E send, shield \in BOOLEAN : StartCreate(c, send, shield)
         \/ \E D, S : applyBlocks(D, S)
         \/ getNewAddress \/ loadSpendingKey \/ pruneNullifiers
         \/ \E t \in Txs : OperatorFinalize(t)
         \/ Dropped \/ save
         \/ \E n \in Notes : Deposit(n)
         \/ UNCHANGED vars
  PROVE  \A d \in Callers :
           /\ Waits(d)' <=> Waits(d)
           /\ call'[d].pc = "sending" <=> call[d].pc = "sending"
           /\ Waits(d) => call'[d].tx = call[d].tx
  <1> USE DEF TypeOK, CallState, Waits, At
  <1>1. ASSUME NEW c \in Callers, NEW after, call' = [call EXCEPT ![c] = after],
               after.pc \notin {"built", "sending"},
               call[c].pc \notin {"built", "sending"}
        PROVE  \A d \in Callers :
                 /\ Waits(d)' <=> Waits(d)
                 /\ call'[d].pc = "sending" <=> call[d].pc = "sending"
                 /\ Waits(d) => call'[d].tx = call[d].tx
    BY <1>1
  <1>2. ASSUME NEW c \in Callers, ProverMissing(c) \/ ProofFails(c) \/ SyncEnd(c)
        PROVE  /\ call' = [call EXCEPT ![c] = Idle] /\ Idle.pc = "idle"
               /\ call[c].pc \notin {"built", "sending"}
    BY <1>2 DEF ProverMissing, ProofFails, SyncEnd, Idle
  <1>3. ASSUME NEW c \in Callers, StartProof(c)
        PROVE  \E after : /\ call' = [call EXCEPT ![c] = after] /\ after.pc = "proving"
                          /\ call[c].pc \notin {"built", "sending"}
    <2> DEFINE after == [call[c] EXCEPT !.pc = "proving", !.savedIndex = diversifierIndex]
    <2>1. after.pc = "proving"
      BY CallEdits
    <2>2. call' = [call EXCEPT ![c] = after] /\ call[c].pc = "checking"
      BY <1>3 DEF StartProof
    <2> HIDE DEF after
    <2>3. QED
      BY <2>1, <2>2
  <1>4. ASSUME NEW c \in Callers, SyncStart(c)
        PROVE  \E after : /\ call' = [call EXCEPT ![c] = after] /\ after.pc = "syncing"
                          /\ call[c].pc \notin {"built", "sending"}
    <2> DEFINE after == [call[c] EXCEPT !.pc = "syncing"]
    <2>1. after.pc = "syncing"
      OBVIOUS
    <2>2. call' = [call EXCEPT ![c] = after] /\ call[c].pc = "idle"
      BY <1>4 DEF SyncStart
    <2> HIDE DEF after
    <2>3. QED
      BY <2>1, <2>2
  <1>5. ASSUME NEW c \in Callers, NEW send \in BOOLEAN, NEW shield \in BOOLEAN,
               StartCreate(c, send, shield)
        PROVE  \E after : /\ call' = [call EXCEPT ![c] = after] /\ after.pc = "checking"
                          /\ call[c].pc \notin {"built", "sending"}
    <2> DEFINE after == [Idle EXCEPT !.pc = "checking", !.viaSend = send,
                          !.useShield = shield,
                          !.spendable = IF shield THEN Spendable ELSE {}]
    <2>1. after.pc = "checking"
      BY DEF Idle
    <2>2. call' = [call EXCEPT ![c] = after] /\ call[c].pc = "idle"
      BY <1>5 DEF StartCreate
    <2> HIDE DEF after
    <2>3. QED
      BY <2>1, <2>2
  <1>6. ASSUME \/ \E D, S : applyBlocks(D, S)
               \/ getNewAddress \/ loadSpendingKey \/ pruneNullifiers
               \/ \E t \in Txs : OperatorFinalize(t)
               \/ Dropped \/ save
               \/ \E n \in Notes : Deposit(n)
               \/ UNCHANGED vars
        PROVE  call' = call
    BY <1>6 DEF applyBlocks, getNewAddress, loadSpendingKey, pruneNullifiers,
         OperatorFinalize, Dropped, reloadFromCheckpoint, SyncRewind, save, Deposit, vars,
         wallet
  <1> HIDE DEF TypeOK, CallState, At
  <1>7. QED
    BY <1>1, <1>2, <1>3, <1>4, <1>5, <1>6

LEMMA KnownTxsNext ==
  IInv /\ BroadcastInv /\ [Next]_vars => KnownTxs'
  <1> SUFFICES ASSUME IInv, BroadcastInv, [Next]_vars PROVE KnownTxs'
    OBVIOUS
  <1> USE DEF KnownTxs, BroadcastInv
  <1>1. ASSUME NEW c \in Callers, NEW t \in Txs, NEW N \in SUBSET Notes,
               ProofSucceeds(c, t, N)
        PROVE  KnownTxs'
    BY <1>1 DEF ProofSucceeds, node, chain
  <1>2. ASSUME NEW c \in Callers, IssueBroadcast(c) PROVE KnownTxs'
    BY <1>2 DEF IssueBroadcast, chain, history, txlog, OwnTx, Waits, At
  <1>3. ASSUME NEW c \in Callers,
               SendAccepted(c) \/ SendRejected(c) \/ SendAmbiguous(c) \/ SendTimeout(c)
        PROVE  KnownTxs'
    BY <1>3 DEF SendAccepted, SendRejected, SendAmbiguous, SendTimeout, Settle,
       Answered, finalizeTransaction, discardTransaction, KeepPending, txlog, chain,
       OwnTx, Waits, At
  <1>4. ASSUME NEW t \in Txs, OperatorDiscard(t) PROVE KnownTxs'
    BY <1>4 DEF OperatorDiscard, discardTransaction, node, chain
  <1>5. CASE Restart
    BY <1>5 DEF Restart, chain
  <1>6. ASSUME NEW t \in Txs, NEW r \in Replies, NodeReceive(t, r) \/ AppBroadcast(t, r)
        PROVE  KnownTxs'
    BY <1>6 DEF NodeReceive, AppBroadcast, Admit, chain, history, txlog
  <1>7. ASSUME NEW t \in Txs, Confirm(t) \/ Evict(t) PROVE KnownTxs'
    BY <1>7 DEF Confirm, Evict, chain, history, txlog
  <1>8. ASSUME NEW N, ExternalSpend(N) PROVE KnownTxs'
    BY <1>8 DEF ExternalSpend, txlog
  <1>9. CASE UNCHANGED <<Outcome, built>>
    BY <1>9 DEF Outcome
  <1> HIDE DEF KnownTxs, BroadcastInv
  <1>10. QED
    BY <1>1, <1>2, <1>3, <1>4, <1>5, <1>6, <1>7, <1>8, <1>9, OutcomeFrame
    DEF Next, Progress, Scan, Application, Dropped, Network, handleBlocks, SyncBatch

LEMMA OwnTxNext ==
  IInv /\ BroadcastInv /\ [Next]_vars => OwnTx'
  <1> SUFFICES ASSUME IInv, BroadcastInv, [Next]_vars PROVE OwnTx'
    OBVIOUS
  <1>0. TypeOK /\ OwnTx /\ KnownTxs
    BY DEF IInv, BroadcastInv
  <1> USE DEF OwnTx, Waits
  (* A call stops waiting; another's transaction is untouched. *)
  <1>1. ASSUME NEW c \in Callers, call' = [call EXCEPT ![c] = Idle],
               built \subseteq built', hands' \subseteq hands,
               autoReleased' \subseteq autoReleased \cup {call[c].tx},
               Waits(c)
        PROVE  OwnTx'
    BY <1>0, <1>1 DEF Idle, TypeOK
  <1>2. ASSUME NEW c \in Callers, NEW t \in Txs, NEW N \in SUBSET Notes,
               ProofSucceeds(c, t, N)
        PROVE  OwnTx'
    <2> DEFINE waiting == [Idle EXCEPT !.pc = "built", !.tx = t]
    <2>1. waiting.pc = "built" /\ waiting.tx = t /\ Idle.pc = "idle"
      BY DEF Idle
    <2>2. /\ t \notin built /\ built' = built \cup {t} /\ autoReleased' = autoReleased
          /\ \/ call' = [call EXCEPT ![c] = waiting] /\ hands' = hands
             \/ call' = [call EXCEPT ![c] = Idle] /\ hands' = hands \cup {t}
      BY <1>2 DEF ProofSucceeds
    <2>3. t \notin hands \cup autoReleased
      BY <1>0, <2>2 DEF KnownTxs
    <2> HIDE DEF waiting
    <2>4. ~Waits(c) /\ call \in [Callers -> CallState]
      BY <1>0, <1>2 DEF ProofSucceeds, At, TypeOK
    <2>5. CASE call' = [call EXCEPT ![c] = waiting] /\ hands' = hands
      BY <1>0, <2>1, <2>2, <2>3, <2>4, <2>5
    <2>6. CASE call' = [call EXCEPT ![c] = Idle] /\ hands' = hands \cup {t}
      <3>1. \A d \in Callers : Waits(d)' => d # c /\ call'[d] = call[d] /\ Waits(d)
        BY <2>1, <2>4, <2>6
      <3>2. QED
        BY <1>0, <2>2, <2>3, <2>6, <3>1
    <2>7. QED
      BY <2>2, <2>5, <2>6
  <1>3. ASSUME NEW c \in Callers, IssueBroadcast(c) PROVE OwnTx'
    <2> DEFINE after == [call[c] EXCEPT !.pc = "sending"]
    <2>1. after.pc = "sending" /\ after.tx = call[c].tx
      <3>1. call[c] \in CallState
        BY <1>0 DEF TypeOK
      <3>2. QED
        BY <3>1, SMT DEF CallState
    <2>2. /\ call[c].pc = "built" /\ call' = [call EXCEPT ![c] = after]
          /\ UNCHANGED <<built, hands, autoReleased>>
      BY <1>3 DEF IssueBroadcast, At, history, txlog
    <2> HIDE DEF after
    <2>3. \A d \in Callers : (Waits(d)' <=> Waits(d)) /\ call'[d].tx = call[d].tx
      BY <1>0, <2>1, <2>2 DEF TypeOK
    <2>4. QED
      BY <1>0, <2>2, <2>3
  <1>4. ASSUME NEW c \in Callers,
               SendAccepted(c) \/ SendRejected(c) \/ SendAmbiguous(c) \/ SendTimeout(c)
        PROVE  OwnTx'
    <2>1. /\ call' = [call EXCEPT ![c] = Idle] /\ Waits(c)
          /\ UNCHANGED <<built, hands>>
          /\ autoReleased' \subseteq autoReleased \cup {call[c].tx}
      BY <1>4 DEF SendAccepted, SendRejected, SendAmbiguous, SendTimeout, Settle,
         finalizeTransaction, discardTransaction, KeepPending, txlog, At
    <2>2. QED
      BY <1>1, <2>1
  <1>5. ASSUME NEW t \in Txs, OperatorDiscard(t) PROVE OwnTx'
    BY <1>0, <1>5 DEF OperatorDiscard, discardTransaction
  <1>6. CASE Restart
    BY <1>6 DEF Restart, Idle
  <1>7. ASSUME \/ \E t \in Txs, r \in Replies : NodeReceive(t, r) \/ AppBroadcast(t, r)
               \/ \E t \in Txs : Confirm(t) \/ Evict(t)
               \/ \E N : ExternalSpend(N)
        PROVE  UNCHANGED <<call, built, hands, autoReleased>>
    BY <1>7 DEF NodeReceive, AppBroadcast, Confirm, Evict, ExternalSpend, wallet,
       history, txlog
  <1>8. CASE UNCHANGED <<call, built, hands, autoReleased>>
    BY <1>0, <1>8
  <1>9. ASSUME UNCHANGED <<Outcome, built>>,
               \A d \in Callers : (Waits(d)' <=> Waits(d))
                                  /\ (Waits(d) => call'[d].tx = call[d].tx)
        PROVE  OwnTx'
    BY <1>0, <1>9 DEF Outcome
  <1> HIDE DEF OwnTx, Waits
  <1>10. QED
    BY <1>0, <1>2, <1>3, <1>4, <1>5, <1>6, <1>7, <1>8, <1>9, OutcomeFrame, WaitsFrame
    DEF Next, Progress, Scan, Application, Dropped, Network, handleBlocks, SyncBatch

LEMMA AnswersCurrentNext ==
  IInv /\ BroadcastInv /\ [Next]_vars => AnswersCurrent'
  <1> SUFFICES ASSUME IInv, BroadcastInv, [Next]_vars PROVE AnswersCurrent'
    OBVIOUS
  <1>0. TypeOK /\ OwnTx /\ KnownTxs /\ AnswersCurrent
    BY DEF IInv, BroadcastInv
  <1> USE DEF AnswersCurrent, Awaited, Held
  (* The same callers go on waiting, and nothing new reaches the node. *)
  <1>1. ASSUME \A d \in Callers : call[d].pc = "sending" =>
                 call'[d].pc = "sending" /\ call'[d].tx = call[d].tx,
               reply' = reply, mempool' \cup confirmed' \subseteq mempool \cup confirmed
        PROVE  AnswersCurrent'
    BY <1>0, <1>1
  <1>2. ASSUME NEW c \in Callers, NEW t \in Txs, NEW N \in SUBSET Notes,
               ProofSucceeds(c, t, N)
        PROVE  AnswersCurrent'
    <2>1. \A d \in Callers : call[d].pc = "sending" =>
            call'[d].pc = "sending" /\ call'[d].tx = call[d].tx
      BY <1>0, <1>2 DEF ProofSucceeds, At, TypeOK
    <2>2. UNCHANGED <<reply, mempool, confirmed>>
      BY <1>2 DEF ProofSucceeds, node, chain
    <2>3. QED
      BY <1>1, <2>1, <2>2
  <1>3. ASSUME NEW c \in Callers, IssueBroadcast(c) PROVE AnswersCurrent'
    <2>1. \A d \in Callers : call[d].pc = "sending" =>
            call'[d].pc = "sending" /\ call'[d].tx = call[d].tx
      BY <1>0, <1>3 DEF IssueBroadcast, At, TypeOK, CallState
    <2>2. UNCHANGED <<reply, mempool, confirmed>>
      BY <1>3 DEF IssueBroadcast, chain
    <2>3. QED
      BY <1>1, <2>1, <2>2
  <1>4. ASSUME NEW c \in Callers,
               SendAccepted(c) \/ SendRejected(c) \/ SendAmbiguous(c) \/ SendTimeout(c)
        PROVE  AnswersCurrent'
    <2>1. /\ call[c].pc = "sending"
          /\ call' = [call EXCEPT ![c] = Idle]
          /\ reply' = [reply EXCEPT ![call[c].tx] = "none"]
          /\ UNCHANGED <<mempool, confirmed>>
      BY <1>4 DEF SendAccepted, SendRejected, SendAmbiguous, SendTimeout, Settle,
         At, chain
    <2>2. \A d \in Callers : d # c => call'[d] = call[d]
      BY <1>0, <2>1 DEF TypeOK
    <2>3. \A t \in Txs : reply'[t] # "none" => t # call[c].tx /\ reply'[t] = reply[t]
      BY <1>0, <2>1 DEF TypeOK
    <2>4. QED
      BY <1>0, <2>1, <2>2, <2>3
  <1>5. ASSUME NEW t \in Txs, OperatorDiscard(t) PROVE AnswersCurrent'
    BY <1>1, <1>5 DEF OperatorDiscard, node, chain
  <1>6. CASE Restart
    BY <1>6 DEF Restart
  <1>7. ASSUME NEW t \in Txs, NEW r \in Replies, NodeReceive(t, r) PROVE AnswersCurrent'
    <2>1. r = "rejected" => t \notin mempool' \cup confirmed'
      BY <1>7 DEF NodeReceive, Answers, Admit, chain
    <2>2. \A u \in Txs : u # t /\ u \notin Held => u \notin mempool' \cup confirmed'
      BY <1>7 DEF NodeReceive, Admit, chain
    <2>3. call' = call
      BY <1>7 DEF NodeReceive, wallet
    <2>4. \/ Awaited(t) /\ reply' = [reply EXCEPT ![t] = r]
          \/ ~Awaited(t) /\ reply' = reply
      BY <1>7 DEF NodeReceive
    <2>5. QED
      BY <1>0, <2>1, <2>2, <2>3, <2>4 DEF TypeOK
  <1>8. ASSUME NEW t \in Txs, NEW r \in Replies, AppBroadcast(t, r)
        PROVE  AnswersCurrent'
    <2>1. t \in hands /\ UNCHANGED <<reply, call, confirmed>>
          /\ mempool' \subseteq mempool \cup {t}
      BY <1>8 DEF AppBroadcast, Admit, wallet, chain
    <2>2. ~Awaited(t)
      BY <1>0, <2>1 DEF OwnTx, Waits
    <2>3. QED
      BY <1>0, <2>1, <2>2
  <1>9. ASSUME NEW t \in Txs, Confirm(t) \/ Evict(t) PROVE AnswersCurrent'
    BY <1>1, <1>9 DEF Confirm, Evict, wallet, chain
  <1>10. ASSUME NEW N, ExternalSpend(N) PROVE AnswersCurrent'
    BY <1>1, <1>10 DEF ExternalSpend, wallet
  <1>11. ASSUME UNCHANGED Outcome,
                \A d \in Callers :
                  /\ call'[d].pc = "sending" <=> call[d].pc = "sending"
                  /\ Waits(d) => call'[d].tx = call[d].tx
         PROVE  AnswersCurrent'
    BY <1>1, <1>11 DEF Outcome, Waits
  <1> HIDE DEF AnswersCurrent, Awaited, Held
  <1>12. QED
    BY <1>0, <1>2, <1>3, <1>4, <1>5, <1>6, <1>7, <1>8, <1>9, <1>10, <1>11,
       OutcomeFrame, WaitsFrame
    DEF Next, Progress, Scan, Application, Dropped, Network, handleBlocks, SyncBatch

LEMMA ReleasedIsDeadNext ==
  IInv /\ BroadcastInv /\ [Next]_vars => ReleasedIsDead'
  <1> SUFFICES ASSUME IInv, BroadcastInv, [Next]_vars PROVE ReleasedIsDead'
    OBVIOUS
  <1>0. TypeOK /\ OwnTx /\ KnownTxs /\ AnswersCurrent /\ ReleasedIsDead
    BY DEF IInv, BroadcastInv
  <1> USE DEF ReleasedIsDead, Held
  <1>1. ASSUME NEW c \in Callers, NEW t \in Txs, NEW N \in SUBSET Notes,
               ProofSucceeds(c, t, N)
        PROVE  ReleasedIsDead'
    BY <1>0, <1>1 DEF ProofSucceeds, node, chain, KnownTxs
  <1>2. ASSUME NEW c \in Callers, IssueBroadcast(c) PROVE ReleasedIsDead'
    BY <1>0, <1>2 DEF IssueBroadcast, chain, history, txlog, OwnTx, Waits, At
  <1>3. ASSUME NEW c \in Callers, SendRejected(c) PROVE ReleasedIsDead'
    <2>1. /\ At(c, "sending") /\ call[c].tx \in Txs
          /\ reply[call[c].tx] \in Replies \ {"none", "accepted"}
          /\ ~txMayBeAccepted(reply[call[c].tx])
      BY <1>0, <1>3, SendingTx DEF SendRejected, Settle, IInv, TypeOK
    <2>2. reply[call[c].tx] = "rejected"
      BY <2>1 DEF txMayBeAccepted, Replies
    <2>3. call[c].tx \notin Held \cup hands
      BY <1>0, <2>1, <2>2 DEF AnswersCurrent, OwnTx, Waits, At
    <2>4. QED
      BY <1>0, <1>3, <2>3 DEF SendRejected, Settle, Answered, discardTransaction, chain
  <1>4. ASSUME NEW c \in Callers, SendAccepted(c) \/ SendAmbiguous(c) \/ SendTimeout(c)
        PROVE  ReleasedIsDead'
    BY <1>0, <1>4 DEF SendAccepted, SendAmbiguous, SendTimeout, Settle,
       Answered, finalizeTransaction, KeepPending, txlog, chain
  <1>5. ASSUME NEW t \in Txs, OperatorDiscard(t) PROVE ReleasedIsDead'
    BY <1>0, <1>5 DEF OperatorDiscard, discardTransaction, node, chain
  <1>6. CASE Restart
    BY <1>0, <1>6 DEF Restart, chain
  <1>7. ASSUME NEW t \in Txs, NEW r \in Replies, NodeReceive(t, r) \/ AppBroadcast(t, r)
        PROVE  ReleasedIsDead'
    BY <1>0, <1>7 DEF NodeReceive, AppBroadcast, Admit, chain, history, txlog
  <1>8. ASSUME NEW t \in Txs, Confirm(t) \/ Evict(t) PROVE ReleasedIsDead'
    BY <1>0, <1>8 DEF Confirm, Evict, chain, history, txlog
  <1>9. ASSUME NEW N, ExternalSpend(N) PROVE ReleasedIsDead'
    BY <1>0, <1>9 DEF ExternalSpend, txlog
  <1>10. CASE UNCHANGED Outcome
    BY <1>0, <1>10 DEF Outcome
  <1> HIDE DEF ReleasedIsDead, Held
  <1>11. QED
    BY <1>1, <1>2, <1>3, <1>4, <1>5, <1>6, <1>7, <1>8, <1>9, <1>10, OutcomeFrame
    DEF Next, Progress, Scan, Application, Dropped, Network, handleBlocks, SyncBatch

LEMMA BroadcastAlways == Spec => []BroadcastInv
  <1>1. Init => BroadcastInv
    BY DEF Init, BroadcastInv, KnownTxs, OwnTx, AnswersCurrent, ReleasedIsDead,
           Waits, Held, Idle
  <1>2. IInv /\ BroadcastInv /\ [Next]_vars => BroadcastInv'
    BY KnownTxsNext, OwnTxNext, AnswersCurrentNext, ReleasedIsDeadNext DEF BroadcastInv
  <1>3. QED
    BY <1>1, <1>2, InductiveInvariant, PTL DEF Spec

(* send() frees a transaction's notes by itself only when the node does    *)
(* not have it, and from then on nobody can hand it to the node any more   *)
(* (wallet.ts 184-199 and 904-908), however answers are delayed, repeated  *)
(* or lost.                                                                *)
THEOREM ReleasedNeverHeld == Spec => []AutoReleasedNeverHeld
  <1>1. BroadcastInv => AutoReleasedNeverHeld
    BY DEF BroadcastInv, ReleasedIsDead, AutoReleasedNeverHeld
  <1>2. QED
    BY <1>1, BroadcastAlways, PTL

-----------------------------------------------------------------------------
(* No note is lost: the wallet stops tracking a scanned note only when a    *)
(* transaction that spends it has reached the node.                         *)

Reached == Held \cup evicted

Explained == Spent \cup UNION {inputs[t] : t \in Reached}

(* What the node accepted has reached it, what is confirmed is spent, and   *)
(* whatever the wallet has scanned and tracks no more is explained, in      *)
(* memory and in the last save.                                             *)
LossInv ==
  /\ evicted \subseteq built
  /\ \A t \in Txs : reply[t] = "accepted" => t \in Reached
  /\ \A t \in confirmed : inputs[t] \subseteq Spent
  /\ seen \ notes \subseteq Explained
  /\ disk.seen \ disk.notes \subseteq Explained

Fate == <<chainSpends, confirmed, mempool, evicted>>

LEMMA FateFrame ==
  ASSUME (\E c \in Callers : Progress(c)) \/ Scan \/ Application \/ UNCHANGED vars
  PROVE  UNCHANGED Fate
  <1>1. ASSUME NEW c \in Callers, Progress(c) PROVE UNCHANGED Fate
    BY <1>1 DEF Progress, ProverMissing, StartProof, ProofFails, ProofSucceeds,
       IssueBroadcast, SendAccepted, SendRejected, SendAmbiguous, SendTimeout, SyncEnd,
       SyncRewind, Settle, Fate, outside, node, chain, history
  <1>2. ASSUME Scan PROVE UNCHANGED Fate
    BY <1>2 DEF Scan, handleBlocks, SyncBatch, applyBlocks, Fate, outside, node, chain,
       history
  <1>3. ASSUME Application PROVE UNCHANGED Fate
    BY <1>3 DEF Application, StartCreate, SyncStart, getNewAddress, loadSpendingKey,
       pruneNullifiers, OperatorFinalize, OperatorDiscard, reloadFromCheckpoint, save,
       Restart, Fate, outside, node, chain, history
  <1>4. QED
    BY <1>1, <1>2, <1>3 DEF vars, Fate, outside, node, chain, history

(* A spend stays in the chain, and what reached the node has reached it.    *)
LEMMA FateNext ==
  ASSUME BroadcastInv, LossInv, [Next]_vars
  PROVE  /\ Spent \subseteq Spent' /\ Reached \subseteq Reached'
         /\ evicted' \ evicted \subseteq mempool
         /\ \A t \in confirmed' \ confirmed : t \in mempool /\ inputs[t] \subseteq Spent'
  <1>1. CASE UNCHANGED Fate
    BY <1>1 DEF Fate, Spent, Reached, Held
  <1>2. ASSUME NEW t \in Txs, NEW r \in Replies, NodeReceive(t, r) \/ AppBroadcast(t, r)
        PROVE  mempool \subseteq mempool' /\ UNCHANGED <<chainSpends, confirmed, evicted>>
    BY <1>2 DEF NodeReceive, AppBroadcast, Admit, chain, history
  <1>3. ASSUME NEW n \in Notes, Deposit(n) PROVE UNCHANGED Fate
    BY <1>3 DEF Deposit, Fate, history
  <1>4. ASSUME NEW t \in Txs, Confirm(t)
        PROVE  /\ Spent \subseteq Spent' /\ Reached \subseteq Reached' /\ evicted' = evicted
               /\ \A u \in confirmed' \ confirmed : u \in mempool /\ inputs[u] \subseteq Spent'
    BY <1>4 DEF Confirm, Spent, Reached, Held, history
  <1>5. ASSUME NEW t \in Txs, Evict(t)
        PROVE  /\ Reached \subseteq Reached' /\ evicted' \ evicted \subseteq mempool
               /\ UNCHANGED <<chainSpends, confirmed>>
    BY <1>5 DEF Evict, Reached, Held, chain
  <1>6. ASSUME NEW N \in SUBSET deposits, ExternalSpend(N)
        PROVE  /\ Spent \subseteq Spent' /\ Reached \subseteq Reached'
               /\ evicted' \ evicted \subseteq mempool /\ confirmed' = confirmed
    BY <1>6 DEF ExternalSpend, Spent, Reached, Held
  <1>7. QED
    BY <1>1, <1>2, <1>3, <1>4, <1>5, <1>6, FateFrame DEF Next, Network, Spent, Reached, Held

(* Only a build sets inputs, and only those of a transaction nobody knows.  *)
LEMMA InputsKept ==
  ASSUME BroadcastInv, LossInv, [Next]_vars
  PROVE  built \subseteq built' /\ \A t \in built : inputs'[t] = inputs[t]
  <1>1. ASSUME NEW c \in Callers, NEW t \in Txs, NEW N \in SUBSET Notes, ProofSucceeds(c, t, N)
        PROVE  built \subseteq built' /\ \A u \in built : inputs'[u] = inputs[u]
    BY <1>1 DEF ProofSucceeds
  <1>2. CASE UNCHANGED <<built, inputs>>
    BY <1>2
  <1>3. CASE save
    BY <1>3 DEF save, history, txlog
  <1>4. QED
    BY <1>1, <1>2, <1>3, LogGrows, NetworkFrame, ApplicationFrame
    DEF Next, Progress, Scan, Application, Dropped, handleBlocks, SyncBatch, Quiet, Books

LEMMA ExplainedGrows ==
  ASSUME BroadcastInv, LossInv, [Next]_vars
  PROVE  Explained \subseteq Explained'
  <1>1. Reached \subseteq built
    BY DEF Reached, Held, BroadcastInv, KnownTxs, LossInv
  <1>2. \A t \in Reached : t \in Reached' /\ inputs'[t] = inputs[t]
    BY <1>1, FateNext, InputsKept
  <1>3. UNION {inputs[t] : t \in Reached} \subseteq UNION {inputs'[t] : t \in Reached'}
    BY <1>2
  <1>4. QED
    BY <1>3, FateNext DEF Explained

(* send() and a careful operator finalize only what has reached the node.   *)
LEMMA FinalizeExplained ==
  ASSUME MemoryBooks, LossInv, NEW t \in Txs, t \in Reached, finalizeTransaction(t)
  PROVE  seen' \ notes' \subseteq Explained
  <1>1. pendingSpends[t] \subseteq inputs[t]
    BY DEF MemoryBooks, BooksBalance
  <1>2. inputs[t] \subseteq Explained
    BY DEF Explained
  <1>3. QED
    BY <1>1, <1>2 DEF finalizeTransaction, LossInv

LEMMA MemoryExplained ==
  ASSUME Careful, IInv, BroadcastInv, LossInv, [Next]_vars
  PROVE  seen' \ notes' \subseteq Explained
  <1>1. MemoryBooks /\ TypeOK
    BY DEF IInv, MemoryBooks
  <1>2. CASE UNCHANGED <<seen, notes>>
    BY <1>2 DEF LossInv
  <1>3. ASSUME NEW c \in Callers, NEW t \in Txs, NEW N \in SUBSET Notes, ProofSucceeds(c, t, N)
        PROVE  UNCHANGED <<seen, notes>>
    BY <1>3 DEF ProofSucceeds
  <1>4. ASSUME NEW c \in Callers, SendAccepted(c) PROVE seen' \ notes' \subseteq Explained
    <2>1. call[c].tx \in Txs
      BY <1>1, <1>4, SendingTx DEF SendAccepted, Settle, At, IInv
    <2>2. call[c].tx \in Reached /\ finalizeTransaction(call[c].tx)
      BY <1>4, <2>1 DEF SendAccepted, LossInv
    <2>3. QED
      BY <1>1, <2>1, <2>2, FinalizeExplained
  <1>5. ASSUME NEW c \in Callers, SendRejected(c) PROVE UNCHANGED <<seen, notes>>
    BY <1>5 DEF SendRejected, discardTransaction
  <1>6. ASSUME NEW t \in Txs, OperatorFinalize(t) PROVE seen' \ notes' \subseteq Explained
    <2>1. t \in Reached /\ finalizeTransaction(t)
      BY <1>6 DEF OperatorFinalize, Reached
    <2>2. QED
      BY <1>1, <2>1, FinalizeExplained
  <1>7. ASSUME NEW t \in Txs, OperatorDiscard(t) PROVE UNCHANGED <<seen, notes>>
    BY <1>7 DEF OperatorDiscard, discardTransaction
  <1>8. ASSUME NEW D, NEW S, applyBlocks(D, S) PROVE seen' \ notes' \subseteq Explained
    <2>1. UNION S \subseteq Spent
      BY <1>8 DEF applyBlocks, Batch, Spent
    <2>2. notes' = (notes \cup D) \ UNION S /\ seen' = seen \cup D
      BY <1>8 DEF applyBlocks, Kept
    <2>3. QED
      BY <2>1, <2>2 DEF LossInv, Explained
  <1>9. CASE Dropped
    <2>1. seen' = {}
      BY <1>9 DEF Dropped, reloadFromCheckpoint, SyncRewind
    <2>2. QED
      BY <2>1
  <1>10. CASE save
    BY <1>2, <1>10 DEF save, wallet, ledger
  <1>11. CASE Restart
    BY <1>11 DEF Restart, LossInv
  <1>12. QED
    BY <1>2, <1>3, <1>4, <1>5, <1>6, <1>7, <1>8, <1>9, <1>10, <1>11, QuietFrame,
       NetworkFrame, ApplicationFrame
    DEF Next, Progress, Scan, Application, Dropped, handleBlocks, SyncBatch, Quiet, Books

LEMMA DiskExplained ==
  ASSUME LossInv, [Next]_vars
  PROVE  disk'.seen \ disk'.notes \subseteq Explained
  <1>1. CASE disk' = disk
    BY <1>1 DEF LossInv
  <1>2. CASE save
    BY <1>2 DEF save, Image, LossInv
  <1>3. ASSUME NEW c \in Callers, NEW t \in Txs, NEW N \in SUBSET Notes, ProofSucceeds(c, t, N)
        PROVE  disk' = disk
    BY <1>3 DEF ProofSucceeds, durable
  <1>4. QED
    BY <1>1, <1>2, <1>3, LogGrows, NetworkFrame, ApplicationFrame
    DEF Next, Progress, Scan, Application, Dropped, handleBlocks, SyncBatch, Quiet, Books

(* The node says "accepted" only of what it admits to its mempool.          *)
LEMMA AcceptedReached ==
  ASSUME TypeOK, BroadcastInv, LossInv, [Next]_vars, NEW t \in Txs, reply'[t] = "accepted"
  PROVE  t \in Reached'
  <1>1. CASE reply[t] = "accepted"
    BY <1>1, FateNext DEF LossInv
  <1>2. CASE reply'[t] # reply[t]
    <2>1. ~UNCHANGED <<reply>>
      BY <1>2
    <2>2. CASE \E u \in Txs, r \in Replies : NodeReceive(u, r)
      <3>1. PICK u \in Txs, r \in Replies : NodeReceive(u, r)
        BY <2>2
      <3>2. reply' = [reply EXCEPT ![u] = r]
        BY <2>1, <3>1 DEF NodeReceive
      <3>3. t = u /\ r = "accepted"
        BY <1>2, <3>2 DEF TypeOK
      <3>4. QED
        BY <3>1, <3>3 DEF NodeReceive, Admit, Reached, Held
    <2>3. CASE Restart
      BY <2>3 DEF Restart
    <2>4. ASSUME NEW c \in Callers, Settle(c) PROVE FALSE
      <3>1. reply' = [reply EXCEPT ![call[c].tx] = "none"]
        BY <2>4 DEF Settle
      <3>2. QED
        BY <1>2, <3>1 DEF TypeOK
    <2>5. ASSUME NEW c \in Callers, IssueBroadcast(c) PROVE FALSE
      BY <2>1, <2>5 DEF IssueBroadcast
    <2>6. ASSUME NEW c \in Callers, NEW u \in Txs, NEW N \in SUBSET Notes, ProofSucceeds(c, u, N)
          PROVE  FALSE
      BY <2>1, <2>6 DEF ProofSucceeds, node
    <2>7. ASSUME NEW u \in Txs, OperatorDiscard(u) PROVE FALSE
      BY <2>1, <2>7 DEF OperatorDiscard, node
    <2>8. ASSUME NEW u \in Txs, NEW r \in Replies, AppBroadcast(u, r) PROVE FALSE
      BY <2>1, <2>8 DEF AppBroadcast
    <2>9. ASSUME NEW u \in Txs, Confirm(u) \/ Evict(u) PROVE FALSE
      BY <2>1, <2>9 DEF Confirm, Evict
    <2>10. ASSUME NEW N, ExternalSpend(N) PROVE FALSE
      BY <2>1, <2>10 DEF ExternalSpend
    <2>11. ~UNCHANGED Outcome
      BY <2>1 DEF Outcome
    <2>12. QED
      BY <2>2, <2>3, <2>4, <2>5, <2>6, <2>7, <2>8, <2>9, <2>10, <2>11, OutcomeFrame
      DEF Next, Progress, Scan, Application, Dropped, Network, handleBlocks, SyncBatch,
          SendAccepted, SendRejected, SendAmbiguous, SendTimeout
  <1>3. QED
    BY <1>1, <1>2

LEMMA LossNext == Careful /\ IInv /\ BroadcastInv /\ LossInv /\ [Next]_vars => LossInv'
  <1> SUFFICES ASSUME Careful, IInv, BroadcastInv, LossInv, [Next]_vars PROVE LossInv'
    OBVIOUS
  <1>1. evicted' \subseteq built'
    BY FateNext, InputsKept DEF BroadcastInv, KnownTxs, LossInv
  <1>2. \A t \in Txs : reply'[t] = "accepted" => t \in Reached'
    BY AcceptedReached DEF IInv
  <1>3. ASSUME NEW t \in confirmed' PROVE inputs'[t] \subseteq Spent'
    <2>1. t \in built
      BY <1>3, FateNext DEF BroadcastInv, KnownTxs
    <2>2. inputs'[t] = inputs[t]
      BY <2>1, InputsKept
    <2>3. QED
      BY <1>3, <2>2, FateNext DEF LossInv
  <1>4. seen' \ notes' \subseteq Explained' /\ disk'.seen \ disk'.notes \subseteq Explained'
    BY ExplainedGrows, MemoryExplained, DiskExplained
  <1>5. QED
    BY <1>1, <1>2, <1>3, <1>4 DEF LossInv

(* Under the operator of docs/deployment.md, a scanned note the wallet      *)
(* tracks no more is spent in the chain, or by a transaction that is in the *)
(* mempool or was dropped from it: whatever is lost, repeated, evicted or   *)
(* restored, send(), finalize and the scan lose nothing (wallet.ts 456-481, *)
(* 888-926).                                                                *)
THEOREM NothingIsLost == Careful => (Spec => []NoNoteLost)
  <1> SUFFICES ASSUME Careful PROVE Spec => []NoNoteLost
    OBVIOUS
  <1>1. Init => LossInv
    BY DEF Init, LossInv, Image, Explained
  <1>2. Careful /\ IInv /\ BroadcastInv /\ LossInv /\ [Next]_vars => LossInv'
    BY LossNext
  <1>3. LossInv => NoNoteLost
    BY DEF LossInv, NoNoteLost, Explained, Reached, Held
  <1>4. QED
    BY <1>1, <1>2, <1>3, InductiveInvariant, BroadcastAlways, PTL DEF Spec

-----------------------------------------------------------------------------
(* ShieldSpend implements NoteLedger: under the mapping that Ledger gives, *)
(* its initial states are initial states of the ledger and each of its     *)
(* steps is a step of the ledger or changes nothing there.                 *)

(* The claims of the ledger, as a function of the transaction log.         *)
Claims == [t \in built \ forgotten |-> inputs[t]]

(* What IInv says that the mapping needs.                                  *)
LEMMA BooksFacts ==
  ASSUME IInv
  PROVE  /\ MemoryBooks /\ TypeOK /\ Offers /\ OneWriter
         /\ Spendable \subseteq seen /\ Reserved \subseteq seen
         /\ UNION scannedSpends \subseteq seen
         /\ notes \cap UNION scannedSpends = {}
         /\ forgotten \subseteq built
         /\ \A t \in built \ forgotten : inputs[t] \subseteq seen
  <1>1. MemoryBooks /\ TypeOK /\ OneWriter /\ forgotten \subseteq built
    BY DEF IInv, MemoryBooks
  <1>2. Offers
    BY DEF IInv, Offers, OfferStaysTracked, ReservationsDisjoint
  <1>3. /\ Spendable \subseteq seen /\ UNION scannedSpends \subseteq seen
        /\ notes \cap UNION scannedSpends = {}
    BY <1>1 DEF MemoryBooks, BooksBalance, Spendable
  <1>4. Reserved \subseteq seen
    BY <1>1 DEF MemoryBooks, BooksBalance, Reserved
  <1>5. \A t \in built \ forgotten : inputs[t] \subseteq seen
    BY <1>1 DEF MemoryBooks, BooksBalance
  <1>6. QED
    BY <1>1, <1>2, <1>3, <1>4, <1>5

LEMMA LedgerInit == Init => Ledger!Init
  <1> SUFFICES ASSUME Init PROVE Ledger!Init
    OBVIOUS
  <1>1. Spendable = {}
    BY DEF Init, Spendable
  <1>2. [t \in built \ forgotten |-> inputs[t]] = [t \in {} |-> {}]
    BY DEF Init
  <1>3. UNION scannedSpends = {} /\ built = {}
    BY DEF Init
  <1>4. /\ disk.notes = {} /\ disk.scannedSpends = {} /\ disk.built = {}
    BY DEF Init, Image
  <1>5. [offered |-> disk.notes \ UNION {disk.pendingSpends[t] : t \in Txs},
         gone    |-> UNION disk.scannedSpends,
         known   |-> disk.built] = [offered |-> {}, gone |-> {}, known |-> {}]
    BY <1>4
  <1>6. QED
    BY <1>1, <1>2, <1>3, <1>5 DEF Ledger!Init

(* A step that leaves the books alone is a stutter of the ledger.          *)
LEMMA BooksStutter == UNCHANGED Books => UNCHANGED Ledger!vars
  BY DEF Books, Ledger!vars, Spendable, Reserved

LEMMA BuildClaims ==
  ASSUME IInv, NEW c \in Callers, NEW t \in Txs, NEW N \in SUBSET Notes,
         ProofSucceeds(c, t, N)
  PROVE  Ledger!Claim(t, N)
  <1>1. /\ t \notin built /\ built' = built \cup {t}
        /\ inputs' = [inputs EXCEPT ![t] = N]
        /\ pendingSpends' = [pendingSpends EXCEPT ![t] = N]
        /\ N \subseteq call[c].spendable
        /\ UNCHANGED <<notes, scannedSpends, disk, forgotten>>
    BY DEF ProofSucceeds, durable
  <1>2. N \subseteq Spendable /\ pendingSpends[t] = {} /\ t \notin forgotten
    BY <1>1, BooksFacts DEF Offers, MemoryBooks, BooksBalance, Spendable
  <1>3. Reserved' = Reserved \cup N
    BY <1>1, <1>2, BooksFacts DEF Reserved, TypeOK
  <1>4. Spendable' = Spendable \ N
    BY <1>1, <1>3 DEF Spendable
  <1>5. Claims' = [u \in DOMAIN Claims \cup {t} |-> IF u = t THEN N ELSE Claims[u]]
    BY <1>1, <1>2, BooksFacts DEF Claims, TypeOK
  <1>6. QED
    BY <1>1, <1>2, <1>4, <1>5 DEF Ledger!Claim, Claims

LEMMA FinalizeStutters ==
  ASSUME IInv, NEW t \in Txs, finalizeTransaction(t), disk' = disk
  PROVE  UNCHANGED Ledger!vars
  <1>1. /\ notes' = notes \ pendingSpends[t]
        /\ pendingSpends' = [pendingSpends EXCEPT ![t] = {}]
        /\ UNCHANGED <<scannedSpends, built, inputs, forgotten>>
    BY DEF finalizeTransaction, txlog
  <1>2. \A u \in Txs : u # t => pendingSpends[u] \cap pendingSpends[t] = {}
    BY BooksFacts DEF MemoryBooks, BooksBalance
  <1>3. Reserved' = Reserved \ pendingSpends[t]
    BY <1>1, <1>2, BooksFacts DEF Reserved, TypeOK
  <1>4. pendingSpends[t] \subseteq Reserved
    BY DEF Reserved
  <1>5. Spendable' = Spendable
    BY <1>1, <1>3, <1>4 DEF Spendable
  <1>6. QED
    BY <1>1, <1>5 DEF Ledger!vars

LEMMA DiscardReleases ==
  ASSUME IInv, NEW t \in Txs, t \in built, discardTransaction(t), disk' = disk,
         NEW N, N = pendingSpends[t] \cap notes
  PROVE  Ledger!Release(t, N)
  <1>1. /\ pendingSpends' = [pendingSpends EXCEPT ![t] = {}]
        /\ forgotten' = forgotten \cup {t}
        /\ UNCHANGED <<notes, scannedSpends, built, inputs>>
    BY DEF discardTransaction
  <1>2. \A u \in Txs : u # t => pendingSpends[u] \cap pendingSpends[t] = {}
    BY BooksFacts DEF MemoryBooks, BooksBalance
  <1>3. Reserved' = Reserved \ pendingSpends[t]
    BY <1>1, <1>2, BooksFacts DEF Reserved, TypeOK
  <1>4. pendingSpends[t] \subseteq Reserved
    BY DEF Reserved
  <1>5. Spendable' = Spendable \cup N
    BY <1>1, <1>3, <1>4 DEF Spendable
  <1>6. Claims' = [u \in DOMAIN Claims \cap (Txs \ {t}) |-> Claims[u]]
    BY <1>1, BooksFacts DEF Claims, TypeOK
  <1>7. t \in built \ forgotten => N \subseteq inputs[t]
    BY BooksFacts DEF MemoryBooks, BooksBalance
  <1>8. N \cap UNION scannedSpends = {}
    BY BooksFacts
  <1>9. \A u \in DOMAIN Claims' : N \cap Claims'[u] = {}
    <2>1. \A u \in DOMAIN Claims' : u \in built \ forgotten /\ u # t /\ Claims'[u] = inputs[u]
      BY <1>1 DEF Claims
    <2>2. \A u \in built \ forgotten : inputs[u] \cap notes \subseteq pendingSpends[u]
      BY BooksFacts DEF MemoryBooks, BooksBalance
    <2>3. built \subseteq Txs
      BY BooksFacts DEF TypeOK
    <2>4. QED
      BY <1>2, <2>1, <2>2, <2>3
  <1>10. QED
    BY <1>1, <1>5, <1>6, <1>7, <1>8, <1>9
    DEF Ledger!Release, Ledger!Only, Ledger!Claimed, Claims

LEMMA BatchScans ==
  ASSUME IInv, NEW D, NEW S, applyBlocks(D, S)
  PROVE  Ledger!Scan(D, UNION S)
  <1> DEFINE G == UNION S
             spent == UNION scannedSpends
  <1>1. /\ D \cap seen = {}
        /\ notes' = (notes \cup D) \ G
        /\ pendingSpends' = [t \in Txs |-> IF pendingSpends[t] \cap notes' = {}
                                           THEN {} ELSE pendingSpends[t]]
        /\ scannedSpends' = scannedSpends \cup S
        /\ UNCHANGED <<built, inputs, forgotten, disk>>
    BY DEF applyBlocks, Batch, Kept, Reconciled, txlog, history, durable, outside
  <1>2. UNION scannedSpends' = spent \cup G
    BY <1>1, UnionOfUnion
  <1>3. notes' \cap Reserved' = notes' \cap Reserved
    BY <1>1 DEF Reserved
  <1>4. D \cap (Reserved \cup spent) = {}
    BY <1>1, BooksFacts
  <1>5. Spendable' = (Spendable \cup D) \ G
    <2> HIDE DEF G, spent
    <2>1. QED
      BY <1>1, <1>3, <1>4 DEF Spendable
  <1>6. \A t \in built \ forgotten : D \cap inputs[t] = {}
    BY <1>1, BooksFacts
  <1>7. QED
    BY <1>1, <1>2, <1>4, <1>5, <1>6 DEF Ledger!Scan, Ledger!Claimed

LEMMA ReloadRollsBack == ASSUME IInv, Dropped PROVE Ledger!RollBack
  <1>1. /\ notes' = {} /\ scannedSpends' = {} /\ forgotten' = forgotten \cup built
        /\ UNCHANGED <<built, inputs, disk>>
    BY DEF Dropped, reloadFromCheckpoint, SyncRewind, outside, durable
  <1>2. Spendable' = {} /\ UNION scannedSpends' = {}
    BY <1>1 DEF Spendable
  <1>3. Claims' = [t \in DOMAIN Claims \cap {} |-> Claims[t]]
    BY <1>1 DEF Claims
  <1>4. QED
    BY <1>1, <1>2, <1>3 DEF Ledger!RollBack, Ledger!Only, Claims

LEMMA SaveSaves == ASSUME save PROVE Ledger!Save
  <1>1. /\ disk'.notes = notes /\ disk'.pendingSpends = pendingSpends
        /\ disk'.scannedSpends = scannedSpends /\ disk'.built = built
        /\ UNCHANGED <<notes, pendingSpends, scannedSpends, built, inputs, forgotten>>
    BY DEF save, Image, SavedPending, wallet, ledger, txlog, history
  <1>2. Spendable' = Spendable
    BY <1>1 DEF Spendable, Reserved
  <1>3. disk'.notes \ UNION {disk'.pendingSpends[t] : t \in Txs} = Spendable
    BY <1>1 DEF Spendable, Reserved
  <1>4. QED
    BY <1>1, <1>2, <1>3 DEF Ledger!Save

LEMMA RestartRestores == ASSUME IInv, Restart PROVE Ledger!Restore
  <1>1. /\ notes' = disk.notes /\ pendingSpends' = disk.pendingSpends
        /\ scannedSpends' = disk.scannedSpends
        /\ forgotten' = forgotten \cup (built \ disk.built)
        /\ UNCHANGED <<built, inputs, disk>>
    BY DEF Restart
  <1>2. Spendable' = disk.notes \ UNION {disk.pendingSpends[t] : t \in Txs}
    BY <1>1 DEF Spendable, Reserved
  <1>3. Claims' = [t \in DOMAIN Claims \cap disk.built |-> Claims[t]]
    BY <1>1 DEF Claims
  <1>4. QED
    BY <1>1, <1>2, <1>3 DEF Ledger!Restore, Ledger!Only, Claims

(* The wallet keeps the ledger's promise (wallet.ts 793-951): no matter    *)
(* how calls, scans, broadcasts, saves and restores interleave, each step  *)
(* is one of the ledger's: a claim on free notes, new or spent notes, a    *)
(* release of one transaction, a roll-back, a save or a restore.           *)
THEOREM ImplementsLedger == Spec => KeepsLedger
  <1>1. IInv /\ [Next]_vars => [Ledger!Next]_(Ledger!vars)
    <2> SUFFICES ASSUME IInv, [Next]_vars PROVE [Ledger!Next]_(Ledger!vars)
      OBVIOUS
    <2>1. ASSUME NEW c \in Callers, NEW t \in Txs, NEW N \in SUBSET Notes,
                 ProofSucceeds(c, t, N)
          PROVE  Ledger!Next
      BY <2>1, BuildClaims DEF Ledger!Next
    <2>2. ASSUME NEW c \in Callers, SendAccepted(c) PROVE UNCHANGED Ledger!vars
      BY <2>2, BooksFacts, SendingTx, FinalizeStutters
      DEF SendAccepted, Settle, durable
    <2>3. ASSUME NEW t \in Txs, OperatorFinalize(t) PROVE UNCHANGED Ledger!vars
      BY <2>3, FinalizeStutters DEF OperatorFinalize, outside, durable
    <2>4. ASSUME NEW t \in Txs, t \in built, discardTransaction(t), disk' = disk
          PROVE  Ledger!Next
      <3>1. PICK N \in SUBSET Notes : N = pendingSpends[t] \cap notes
        BY BooksFacts DEF TypeOK
      <3>2. Ledger!Release(t, N)
        BY <2>4, <3>1, DiscardReleases
      <3>3. QED
        BY <3>2 DEF Ledger!Next
    <2>5. ASSUME NEW c \in Callers, SendRejected(c) PROVE Ledger!Next
      <3>1. call[c].tx \in Txs /\ call[c].tx \in built
        BY <2>5, BooksFacts, SendingTx DEF SendRejected, Settle, OneWriter, At
      <3>2. QED
        BY <2>4, <2>5, <3>1 DEF SendRejected, Settle, durable
    <2>6. ASSUME NEW t \in Txs, OperatorDiscard(t) PROVE Ledger!Next
      <3>1. t \in built
        BY <2>6, BooksFacts DEF OperatorDiscard, MemoryBooks, BooksBalance
      <3>2. QED
        BY <2>4, <2>6, <3>1 DEF OperatorDiscard, durable
    <2>7. ASSUME NEW D \in SUBSET deposits, NEW S \in SUBSET chainSpends,
                 applyBlocks(D, S)
          PROVE  Ledger!Next
      <3>1. D \in SUBSET Notes /\ UNION S \in SUBSET Notes
        BY BooksFacts DEF TypeOK
      <3>2. QED
        BY <2>7, <3>1, BatchScans DEF Ledger!Next
    <2>8. CASE Dropped
      BY <2>8, ReloadRollsBack DEF Ledger!Next
    <2>9. CASE save
      BY <2>9, SaveSaves DEF Ledger!Next
    <2>10. CASE Restart
      BY <2>10, RestartRestores DEF Ledger!Next
    <2>11. QED
      BY <2>1, <2>2, <2>3, <2>5, <2>6, <2>7, <2>8, <2>9, <2>10, BooksStutter,
         QuietFrame, NetworkFrame, ApplicationFrame
      DEF Next, Progress, Scan, Application, Dropped, handleBlocks, SyncBatch, Quiet
  <1>2. QED
    BY <1>1, LedgerInit, InductiveInvariant, PTL DEF Spec, Ledger!Spec, KeepsLedger
=============================================================================
