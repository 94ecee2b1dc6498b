# Verification of pivx-js-sdk

TLA+ models of the two packages of this repository, `pivx-wallet` (`wallet/src`)
and `pivx-rpc` (`rpc/src`), the TLC configurations that check them on small
instances, and proofs checked by TLAPS. Line numbers refer to the sources.
`PROJECT.json` maps every definition to the lines it models, and lists the
runs, the mutants that show each property can fail, the hazards and the
theorems.

## 1. The system

Everything is single-threaded JavaScript: code runs without interruption up to
an `await`, and any other call of the application may run at each `await`. So
an action of a model is one stretch of code between two awaits, and the
interleavings of actions are the interleavings the event loop can produce.

| component | state | operations | module |
|---|---|---|---|
| shield wallet, spending (`wallet.ts`) | `notes`, `nullifierMap`, `pendingSpends`, `diversifierIndex`, `extsk`, `busy` | `createTransaction`, `send`, `finalizeTransaction`, `discardTransaction`, `getNewAddress`, `loadSpendingKey`, `pruneNullifiers`, `handleBlocks`, `sync`, `reloadFromCheckpoint`, `save`, `load` | `ShieldSpend` |
| shield wallet, scanning (`wallet.ts`) | `commitmentTree`, `lastProcessedBlock`, `notes`, `pendingSpends`, `startValidated`, `busy` | `sync` with `ensureValidCheckpoint`, the batch loop and `applyBlocks`; `handleBlocks`, `reloadFromCheckpoint`, `save`, `load` | `ShieldSync` |
| transparent wallet (`transparent-wallet.ts`) | `utxos`, `pending`, `lastScanned`, `lastScannedHash`, `scannedHashes`, address indices, `busy` | `sync` with `fromHeight` and the walk-back, `scanBlock`, `resetScan`, `scan`, `addUtxo`, `newAddress`, `buildSend`, `markSpent`, `release`, `save`, `load` | `TransparentWallet` |
| shield watcher (`shield.ts`) | `notes`, `lastHash`, `lastBalance`, `primed`, `timer`, `stopped`, `polling` | `start`, `stop`, `poll`, `emit` | `ShieldWatcher` |
| RPC client (`client.ts`) | `#authHeader`, `cookiePath` | `send` (post, cookie refresh, retry); `callWithTimeout`, `batch`, `readCapped`; about 70 typed wrappers without state | `RpcAuth` (`send`), `RpcClient` (the rest) |
| coin selection and fees (`wallet.ts`, `transparent-wallet.ts`, `transparent-tx.ts`) | none between calls | `estimateShieldSelection`, `estimateTransparentSelection`, selection, fee and change in `buildSend`, the size of what it signs | `CoinSelection` |
| keys, addresses, scripts, signatures (`transparent.ts`, `transparent-tx.ts`) | none | encoding and cryptography | not modelled |
| shield bindings (`shield-bindings.ts`) | one memoized promise | `loadShield` | not modelled |
| ZMQ subscriber (`zmq.ts`) | `closed` | `parseZmqFrame`, iteration, `close` | not modelled |
| examples | the set of notes seen before a pass | deposit watcher loop | not modelled |

The parts interact by calls only. A wallet calls an RPC client (its `client`
argument, any object with `getBlockCount`, `getBlockHash`, `getBlock`,
`sendRawTransaction`); the client talks to one node over HTTP; the application
calls wallet, watcher and client, and receives the watcher's events by callback.
The only durable state is what the application stores of `save()`.

What is hard in it: reservations of notes and outputs that must survive
broadcasts of unknown outcome, reorgs, rescans and restores; a node whose chain
changes between the answers of one scan; guards that must be released on every
path; late, lost and repeated answers; listeners that call back; concurrent
requests that share credentials. The `hazards` of `PROJECT.json` list them at
their lines.

What makes each part correct:

- spending: a note is never offered while a transaction the wallet answers for
  may spend it, no note is lost, no reservation stays for ever;
- scanning: the tree is always that of a real chain, notes and tree agree, a
  sync that resolves has followed the node, and recovery gets there;
- transparent wallet: no height is missing but those the caller passed over,
  blocks with no hole between them are of one chain, inputs of open sends stay
  reserved, what is saved can be loaded;
- watcher: at most one event per change, none becoming due after `stop()`, no
  change missed for ever;
- client: a request is not refused for credentials that could be refreshed, it
  is run once at most, and what a caller is given is what the node answered to
  that very call;
- coin selection: no payable send is refused, and what is built pays the fee
  rate it was asked for by its real size.

## 2. The modules

### ShieldSpend (ShieldSpendProofs)

A note is its nullifier. `call[c]` is the program counter and the locals of a
concurrent call: `StartCreate` is `createTransaction` up to its first await (the
guard, and the snapshot of spendable notes at wallet.ts:826), `StartProof`,
`ProofFails` and `ProofSucceeds` the stretches around the prover (854-885), and
`IssueBroadcast`, `SendAccepted`, `SendRejected`, `SendAmbiguous`, `SendTimeout`
are `send` (888-912). Scanning appears as `applyBlocks` on any batch of the
chain's deposits and spends that respects their order, reached from `sync`
(which holds `busy`) or `handleBlocks`. `SyncRewind` is `ensureValidCheckpoint`
taking a wallet that holds nothing back to an older checkpoint (669-715): when
the node contradicts the start is left open here and modelled in ShieldSync. `save` writes `Image`, `Restart` is a
crash at any point followed by `load`. The node has a mempool, requests on the
wire, answers, confirmations, evictions; its answers are those
`txMayBeAccepted` (184-199) tells apart.

Abstracted: which of the offered notes the prover consumes (any non-empty
subset), amounts and fees, dust notes (never retained), the commitment tree.
`forgotten`, `autoReleased`, `built`, `inputs`, `evicted`, `handedOut` are
history: what the wallet did, for the properties to compare with.

### NoteLedger

The abstract promise of the spending half: notes are on offer, claimed by one
transaction each, or gone because the scanned chain spends them. It knows no
guard, no prover, no broadcast, no pending and no finalized. Its claims end in
three ways only: the user discards the transaction (or the node refuses it for
good), the wallet goes back to a checkpoint (a reload, or a rewind inside a
sync), or a restart restores a save older than the transaction. `Ledger` in ShieldSpend is the refinement mapping: on
offer is what the wallet tracks and does not hold as pending, claimed are the
inputs of the transactions it built and was not made to forget. `KeepsLedger`
says that ShieldSpend implements it.

### ShieldSync (ShieldSyncProofs)

A chain is a sequence of blocks, a block a sequence of shield transactions, and
a tree the sequence of transactions added to it, so equal roots mean equal
sequences. A note is the pair of its transaction and its position, which is what
its nullifier depends on: a wrong tree gives wrong notes in the model as it does
in the library. The node is at `height` of `branch`, and `Grow` and `Reorg` run
between any two actions of a sync. `run` is the sync in progress: `count`
(`getBlockCount`), `start` and `walk` (`ensureValidCheckpoint`, 669-715), `tip`
(574-580), `fetch` (the chunks of 585-590); `BatchVerified` and `BatchRefused`
are the application of a batch with its root check and roll-back (592-635).
`getBlock(hash)` is read together with the hash that names the block: a node
answers the same for a hash whatever its active chain is.

Abstracted: `createTransaction` and its end are one step each here (ShieldSpend
has them in full). Every shield transaction adds a commitment; see hazards for
what that leaves out. `base`, `finalized`, `fed`, `during` are history.

### TransparentWallet (TransparentWalletProofs)

A block is `[hash, prev, pays, spends]`; an outpoint keeps its name when a reorg
mines its transaction again. `w` is the record of the wallet's fields and `run`
the sync in progress: `count`, `tip` (the check of the last scanned block),
`walk` (one window entry per RPC, 383-394), `fetch` (a chunk, in any order).
`ScanChunk` scans the blocks of a chunk in order, stopping at the first that
does not continue (409-419); `ScanBreaks` throws in the middle of it, at a
malformed block, with those before it scanned (413-414). A sync is told a
`fromHeight` and starts at `max(fromHeight, lastScanned + 1)` (400); the heights
it passes over are in `skipped`. The parent is compared only at `lastScanned + 1`,
so the first block after such a hole has none to be compared with: a wallet is
then a sequence of stretches without a hole, and `Latest` is the last of them.

`scanBlock`, `resetScan` and `scan` are operators on the wallet record, used by
the sync and by the application's own calls, which the code does not guard:
`Interfering` lets them run in the gaps of a sync, resets to any height up to
the position. Without it a reset is what the documentation advises (`Advised`):
after a sync that reported a divergence, to a height below every fork. `scan`
credits and removes outputs without a height; the application supplies only
outputs of `Supplied` that nothing on the chain spends.
`Popped` is the trimming of the window, in both: `scanBlock` pops entries off
its end (279-283) and `resetScan` filters (326), which leaves the same entries
because the window ascends (`WalletTyping`).

Abstracted: keys, scripts, amounts and which outputs a send selects. `trail`,
`skipped` and `sends` are history: the blocks the tracked outputs come from, the
heights passed over on request, and what became of each send.

### ShieldWatcher (ShieldWatcherProofs)

`Poll`, `GotHash`, `GotNotes` and `RpcFails` are `poll()` between its two RPCs,
with the commit before the delivery (165-169). `Emit` delivers one event, in the
order of the code, to a listener that returns, throws, stops or starts the
watcher. A block hash is a number, new with every block: a node that returns to
an earlier tip between two RPCs is not modelled (the watcher would then keep the
other block's notes until the next block).

### RpcAuth and RpcClient (RpcClientProofs)

RpcAuth is `send`. A request is posted with the header of that moment, answered,
reading the cookie file, comparing, retrying. Credentials are numbered by the
node's restarts; the node answers 200 or 500 to its own credentials, 401 to
others, 403 by its ACL.

RpcClient extends it with what `callWithTimeout` and `batch` do around it. Its
actions are those of RpcAuth with the node's side added: `Answered` runs every
call of the request and fixes what each says, `Lost` is a transport failure
after which the node may or may not have run it, `Settle` reads a body and
decides what the caller gets (`OutcomeOf`, with the checks in the order of the
code). Between client and node a proxy may hand over any object or array made
of what the node ever answered, in any order, repeated, cut short or mixed with
elements of no request; it does not forge an answer under an id in use. An id is
the pair of a request and a position, because `nextId` never repeats while the
process runs. A batch is of two calls.

### CoinSelection (CoinSelectionProofs)

One request of one of three kinds: `createTransaction` from notes or from given
outputs, whose estimators only say whether the smallest-first choice pays, and
`buildSend`, which takes the largest first, settles fee and change, signs, and
has a size limit. `Check` is the argument checks and the dust filter of notes,
`Take` one turn of the loop, and `RunOut`, `Estimate` and `Build` its ends. When
the coins run out, `createTransaction` with `subtractFeeFromAmount` (or `sweep`)
goes on and takes the fee from the recipient's amount (wallet.ts:837-845). The
sizes `estSize` and `Serialized` are two translations: what `buildSend`
reckons before it chooses, and what `serialize` writes byte by byte
(transparent-tx.ts), with signatures of 70 or 71 bytes. The byte values
themselves, keys and hashes are abstracted.

## 3. The runs

| run | instance | what it shows |
|---|---|---|
| `spend_interleavings` | 2 notes, 2 transactions, 2 callers, careless operator | implements the ledger; nothing in flight offered again, no double spend, no release of a transaction the node holds |
| `spend_recovery` | 1 note, 2 transactions, 1 caller, one restart, one foreign spend or eviction | the inductive invariant with its halves about the guard and the saved state; attribution; no note lost; no leaked entry; spent notes stay spent |
| `spend_addresses` | 1 caller, 3 addresses | *violation*, finding 1 |
| `sync_scan` | 2 branches of 4 blocks, 3 reorgs, 2 faults, batches of 3 in chunks of 2, feeds | real trees, exact notes, nothing forgotten, resolved means current |
| `sync_recovery` | 3 branches, 2 reorgs, a fault, a restart, batches of 2 one by one | exact notes; every sync settles; documented recovery converges |
| `trans_scan` | 2 branches of 4 blocks, window 2, chunks of 2, 2 reorgs, a restart, `fromHeight` 0 or 4 | one chain between holes, outputs follow the blocks scanned, resolved follows the node, convergence |
| `trans_sends` | 2 branches of 3 blocks, two sends; feeds, resets to any height and supplied outputs inside a sync; a fault or a malformed block | open sends stay reserved and apart; the window stays true and loadable |
| `trans_survivors` | 2 branches of 3 blocks, one reorg | *violation*, finding 2 |
| `watch_delivery` | 2 notes, 4 blocks, one failing RPC, all listener effects | at most once, nothing due after stop, no stale commit, catching up |
| `coin_selection` | 4 coins of 6 values around the dust limits, 3 amounts, 4 rates, the fee added or subtracted, limits scaled down | a send from notes is refused, or pays its fee out of the amount, only when nothing pays it; `buildSend` uses the fewest coins and gives up only when no relayable choice pays; fees are fair |
| `auth_refresh` | a call and a batch of two, 2 node restarts, one fault, bodies of up to 3 elements | answers reach their call, complete ones arrive, nothing is run twice; refused only for cause; the header heals |
| `auth_concurrent` | 2 requests, 1 node restart | *violation*, finding 3 |

Bounds. Two notes, two transactions and two callers are the least with which
reservations can overlap, and a conflict between two transactions needs no
third. The branches of ShieldSync share their first shield transaction, mine the
second at different heights and differ later, so that their trees agree at some
heights and not at others, and so that a batch of mixed branches can hold a
transaction twice or never; batches of 3 with chunks of 2 have a full chunk, a
partial chunk and a partial batch. Checkpoints are on one branch, on both, or on
a block of neither. Two sends in
`trans_sends` are the least that can overlap, and the output supplied there is
one the chain pays too. The window of 2 in TransparentWallet is shorter than the
deepest fork, so the walk-back succeeds, fails, and is overtaken. Restarts,
faults, reorgs, evictions and foreign spends are bounded by the constants named
`Max...`; each bound is a guard on the action it bounds.

The failed fetch of `trans_scan` is a height that a reorg took away while it was
being asked for; `MaxFaults = 0` there keeps the liveness check small, and faults
and malformed blocks are in `trans_sends`. A `fromHeight` of 4 is the tip of
either branch: it passes over one to three blocks, over the fork or above it, or
none, according to what was scanned before.

Coin selection keeps the code's amounts (dust at 384000, fees per byte, values at
a limit and one satoshi above it) and scales down two limits that would need
hundreds of inputs: the size at which a transaction is too large (600 bytes for
100000) and the count that takes three bytes (3 for 253). Four coins then pass
both. `CoinSelectionProofs` has them as constants, so it covers the code's own.
Three elements in a body of the client is one more than a batch has calls, the
least with which an answer can be too long, or complete with one repeated; two
restarts are the least for a cookie read before the last one to be installed
after it. The requests of `auth_refresh` differ in kind, so there is no symmetry.

Fairness. The runs of ShieldSpend need none: that the guard is never left up is
an invariant there (`IInv`, in its part `OneWriter`: the flag is up exactly when
some call stands between its guard and its `finally`), and the calls in between
wait only for RPCs, which have timeouts, and for the prover, which is external.
In ShieldSync and TransparentWallet the steps of a sync are weakly fair because
each RPC has a timeout (`client.ts`, `AbortSignal.timeout`); in RpcClient a
fetch, the body it returns and the reading of the cookie file settle. Blocks
keep coming up to the bound. Where a property needs it the application is
assumed to go on: it calls `sync` again and again (`WF` on `SyncStart`), recovers as
`docs/usage.md` says (`Recover`, `ManualReset`), or makes requests. Nothing is
assumed about `save()`, `finalizeTransaction`, `createTransaction` or the
operator. Faults are finite in every run.

`Careful` (ShieldSpend) is the operator of `docs/deployment.md`, who finalizes
only what the node has and discards only what no node has and nobody is still
sending. Only `NoNoteLost` depends on it.

## 4. What is proved

Every invariant and every action property that a run checks is also a theorem,
for every value of the constants under the named assumptions of the modules.
Sets of notes, transactions, callers, requests and chains may be infinite, except
where a sum is taken (`Notes` of the watcher, `Coins`). The assumptions say what
the constants are (numbers, sequences, functions of some type), that special
values differ from ordinary ones, and three things about the outside world:
chains have a longest one, a shield transaction spends only notes that stand
before it in its chain (`CausalAssumption`), and two chains of the node that
share a block hash share the block at that height, with the parent its `prev`
names (`ChainAssumption` of TransparentWallet).

**ShieldSpend.** `InductiveInvariant`: `Spec => []IInv`, and from it
`TypeCorrect`, `GuardExcludes`, `ReservationsAreDisjoint`, `OffersStayTracked`,
`NeverOfferedTwice`, `NoDoubleSpends`, `SpentNotesStaySpent`.

None of the safety properties is inductive alone. That a transaction built now
shares no note with an earlier one follows only if the notes it was *offered*,
two awaits ago, were unreserved and still are. So the invariant has: `OneWriter`
(only the call that holds the guard was offered notes, there is at most one
such call, and the flag is up exactly while there is one), `ReservationsDisjoint`
(offers are disjoint from reservations; the unguarded `finalizeTransaction` and
`discardTransaction` only shrink reservations), `OfferStaysTracked` (an
unguarded finalize drops only reserved notes, and a scan is excluded by the
guard), and `BooksBalance`: of the inputs of a transaction the wallet answers
for it tracks only what it holds as pending for that very transaction.
`BooksBalance` gives `InFlightNeverOffered`, and with `ReservationsDisjoint` it
gives `NoDoubleSpend` when a build succeeds. It is stated for the wallet in
memory and for the saved one, because a restore makes the second the first; that
is why the history `built` is saved with the image. The proof has one lemma per
action (or per group with the same frame), each citing the conjuncts the action
can disturb.

- `NoReservationLeaks` and `AttributionIsKept`: every step keeps
  `AllReservations`, that each reservation holds a note still tracked and that
  tracked and held notes are attributable, in memory and on disk.
- `ReleasedNeverHeld`: `send` frees notes only on an answer that says the node
  does not have the transaction. `BroadcastInv` says that a transaction being
  broadcast is in that call's hands only, that an answer still tells the truth
  when it is read, and that nothing on the wire or in anyone's hands can bring a
  released transaction back to the node.
- `NothingIsLost`: if `Careful`, then `Spec => []NoNoteLost`. `LossInv` says why
  each scanned note that is not tracked is missing: the chain spends it, or it is
  an input of a transaction that reached the node (`Explained`). It needs that an
  "accepted" answer means the transaction reached the node, that confirmed
  inputs are spent, and the same for what is on disk. The careful operator is
  needed for `finalizeTransaction` alone: finalizing a transaction the node
  never had forgets notes nobody spent, and the code cannot tell.
- `ImplementsLedger`: `Spec => KeepsLedger`. A successful build maps to `Claim`,
  `discardTransaction` and a definite rejection to `Release`, a batch to `Scan`,
  a reload or a rewind to `RollBack`, `save` and `Restart` to `Save` and `Restore`;
  everything else, finalizing included, changes nothing in the ledger. `IInv`
  supplies that the inputs of a build were on offer and that what a discard
  frees is neither spent nor another's. `LedgerExclusive` (NoteLedger) shows
  that the promise is worth having.

**ShieldSync.** `ScanInvariant`: `Spec => []IInv`. The properties speak of the
wallet; a step of a sync, though, acts on what it fetched some answers ago. So
`SyncView` keeps what a sync in progress has seen: `during` are the branches the
node was on since it started, the tip was a height of one of them, and each
fetched block that names a root names that of one of them. A batch is accepted
only on such a root, which gives `TreeIsReal` for the new tree. `Sound` relates
tree, notes, reservations and the finalized notes, for the wallet and for the
saved one; `Placed` says of the saved one that its tree is a chain's, or that of
a checkpoint, so that a restore leads back into `TreeIsReal`.

- `TreesAreReal`, `SyncForgetsNothing` and `ResolvedTreeIsCurrent` hold whatever
  is fed by `handleBlocks` (a fed wallet is outside `TreeIsReal` until a reload).
- `NotesAreExact` needs `~Feeding`, and `UnfedNotesAreExact` says that a wallet
  that was not fed since its checkpoint keeps exact notes even if others are.
  That is no accident of the proof. `handleBlocks` accepts heights with holes;
  in the tree this gives, a transaction can stand at a position that it has in no
  chain, and a spend before the note it names. The library then reports the
  nullifier before the note, and the note stays. What remains true of a fed
  wallet is `NoNoteMissing`: it has every unspent note of the blocks it scanned,
  and none that they did not pay.

**TransparentWallet.** Four invariants, each resting on the one before.

- `TypeInv` (`WalletTypes`, `WalletTyping`): types, and the window ascends and
  fits `REORG_WINDOW`, in memory, on disk and for every order of feeds and
  resets.
- `SendsInv` (`ReservationsHold`): inputs of an open send are pending and belong
  to no other open send, up to outputs seen spent. A restore brings back wallet
  and sends together, so it is stated for both.
- `TrustInv` (`SavedStatesLoad`, `WindowIsTrue`): the entries of the window, and
  the last hash, name blocks in `trail`, the blocks the tracked outputs come
  from, none above the position. It holds if `HashesKnown`: no block is fed
  without a hash (`Feeding => ~Hashless`). Without that it is false of the code,
  see the deviations; `sync` always has the hash.
- `ChainInv` (`OneChainIsScanned`, `OutputsFollow`, `ResolvedFollows`), for
  whatever `fromHeight` the syncs are told: no height is missing but those in
  `skipped`; two scanned blocks at heights that follow one another are linked by
  `prev` (`Linked`); every tracked output was created in a scanned block and is
  spent in none since (`Rooted`); and what a sync in progress has fetched are
  blocks of branches the node was on. It holds if `OnlySyncs`: the application
  feeds no blocks, and resets only as the documentation advises. A block fed
  beyond the next height leaves a hole nobody asked for, and a reset during a
  sync moves the position under it. The main step is `ScannedChain`, over the
  blocks of a chunk: each but the first after a hole is taken only if its `prev`
  is the hash scanned last, so all without a hole between them are of one chain
  although they were fetched from several (`StretchOnChain` goes down from block
  to parent, as long as there is one), and `ResolvedFollows` says of the last
  such stretch that the node was on its branch. Across a hole nothing can be
  proved, because the code compares nothing there (deviations).

**RpcClient.** `SendTyped` is the type invariant of `send` with what its phases
imply (`Counts`): a request that reads the cookie or retries has been posted
once, and the node's credentials count its restarts. `ClientUsesSend` is the
step simulation of RpcAuth by RpcClient. `NoneRefusedInVain` is about a request
that no other overlaps: `CauseInv` follows it through its phases (the first 401
can only mean that the client's header is old, then the file holds the node's
credentials, and the second post carries them), wherever the header came from.
`ClientInv` adds `RanOf` (how often the node ran a request, by its phase: not at
all while it is posted, even for the second time, because only a 200 or 500
means it ran) and `Given` (what an outcome holds is an element under the call's
own id, saying what the node said to that call). `Wire` is the reason for
`Given`: whatever the proxy does, an element with the id of a call is the node's
answer to it. From it follow `AnswersReachTheirCall`, `WholeAnswersArrive` and
`RequestsRunOnce`.

**ShieldWatcher.** `WatchInv` adds to the properties that remembered hashes are
not ahead of the node's tip and that all events due or told agree with the
committed notes; a listing only makes events about changes due, so they cannot
have been told (`DeliveredOnce`). `NeverFiledEarly` follows because a new block
is beyond any hash held, and `SilentAfterStop` from the actions alone.
`WatcherTyping` has the types; that a balance is a number is a fact about sums.

**CoinSelection.** `FeesAreFair`: the estimate made while choosing bounds the
size that is signed (`EstimateCovers`), with or without a change output and for
every script and signature, so the fee pays the rate and the second size check
never fires.

The other two theorems compare the loop's one choice with every other choice of
coins. `GreedyInv` says what the loop knows: the total is the sum of the chosen,
chosen and left are the coins on offer, and, largest first, none left is worth
more than one chosen and no choice of fewer coins pays.

- `LargestFirstWins`: as many coins as were chosen are nowhere worth more
  (`LargestAreWorthMost`), so when the loop takes one more, no choice of as many
  coins as it had would have paid (`NoneAsFewPays`). Giving up at the size limit
  before asking whether the last coin completes the amount is therefore right.
- `NoPayableSendRefused`: a send from notes is neither refused, nor paid out of
  the recipient's amount, while some choice of notes pays it in full. It is for
  `DUST_NOTE_SATS` = 384000 as in the code, which is the fee of one more input: a
  note above it adds more than it costs and any other does not
  (`AllAboveDustPayMost`), so all of the notes above it pay for more than any
  choice does. For another limit the theorem is false, which is why it is a
  hypothesis; the fee per input is a literal of `FeeFor`.

**NumberLemmas** has what these proofs share: induction over numbers and over
the subsets of a finite set in the form of a set that is closed under a step
(the library's induction theorems take an operator, which the provers cannot
instantiate), least and greatest elements, and sums. `MapThenSumSet` adds the
elements in the order `CHOOSE` gives; `SumExists` and `SumUnique` show that its
recursive equation has one solution, `SumRemove` that any element may be taken
first, and `SumUnion`, `SumLarger` and `SumBounds` compare sums.

Only model-checked: the liveness properties `SyncSettles`, `Recovers`, `Heals`,
`CatchesUp` and `HeaderHeals` (fairness and ENABLED are outside TLAPS).

## 5. Findings and deviations

Runs that show them:

1. `spend_addresses`: `createTransaction` restores `diversifierIndex` after a
   failed proof (wallet.ts:876) to where it stood before the change address was
   taken (859), over a `getNewAddress` made during the proof. The next
   `getNewAddress` then returns the address that was meant for the change, and
   the one after it repeats the address handed out during the proof: two
   depositors are given the same one.
2. `trans_survivors`: an output at or below the fork that an orphaned block
   spent is not credited again (transparent-wallet.ts:390), although the comment
   at 374-375 says the re-scan re-credits the survivors.
3. `auth_concurrent`: requests refused together after a node restart: the first
   refreshes the header, the others compare the cookie with the refreshed header
   (client.ts:222), see no change and throw `AuthError`.

Deviations met while modelling, which no run is spent on. Each can be seen by
putting the named property (defined in the module) or switch into a cfg:

- `DivergenceRaised` (ShieldSync): when the node's tip is below
  `lastProcessedBlock`, `sync` compares nothing and resolves on a stale tree
  (wallet.ts:574); `docs/FEATURES.md` promises a divergence error.
- `RecoveryKeepsFunds` (ShieldSync): after `reloadFromCheckpoint(e.height)`, as
  `docs/usage.md` shows it, notes created below that checkpoint are not scanned
  again.
- A sync may take a wallet that holds nothing back to an older checkpoint
  (wallet.ts:678-714). If all of its notes were the inputs of a transaction that
  is finalized but not confirmed, they are scanned again and offered again:
  `pendingSpends` no longer knows them. `forgotten` of ShieldSpend has this transaction,
  so that no property speaks of it.
- `NoOrphanRetained` (TransparentWallet, in the configuration of `trans_scan`):
  `sync` with a `fromHeight` above the next block (transparent-wallet.ts:400) has
  no parent to compare its first block with (239-246). If the node switches
  branches between the check of the tip and that fetch, the outputs of the
  orphaned blocks below the hole stay tracked, the sync resolves, and so does
  every later one, which finds the new tip confirmed. The comment at 375-376
  says that `sync` is to "fail loud rather than silently retain orphaned UTXOs",
  `CHANGELOG.md` (195-199) that it heals or raises `ScanDivergedError`.
- `InFlightNotSelectable` (TransparentWallet): once a send is marked spent or
  seen in a block, a reorg and its re-scan credit the input again, unreserved.
- The same re-credited output can then be in two sends, and `markSpent` for the
  first drops the reservation of the second (transparent-wallet.ts:570-575).
  `OpenSendsHold` leaves such outputs out; without `SeenSpent` TLC finds it in
  seven steps, with a re-scan of a lower block and no reorg.
- `Hashless = TRUE` (TransparentWallet): re-scanning a lower block without its
  hash leaves window entries above `lastScanned`, which `load()` rejects.
- `resetScan` keeps reservations (transparent-wallet.ts:301-308), on purpose;
  `docs/FEATURES.md` and `docs/usage.md` say it drops them.
- A watcher's listener that calls `stop()` during a delivery still gets the rest
  of that delivery (shield.ts:173-177): add `stopped => queue = {}`.
- `estimateTransparentSelection` has no dust filter (wallet.ts:85): an output
  worth less than its own input fee is consumed first and can make a payable
  shielding look unpayable. `RefusesOnlyTheUnpayable` speaks of notes; widen it
  to `"outputs"` to see it.
- The deposit watcher of `wallet/examples` compares with what the wallet held
  before the pass (deposit-watcher.mjs:32): notes applied by a pass that failed
  later are never reported, and a reload, which empties the wallet, makes it
  report old deposits again. Crediting by nullifier, as `docs/usage.md` shows
  ("Track nullifiers you've already credited"), can credit a payment twice: a
  reorg that mines it at another position of the tree gives its note another
  nullifier.
- An error object in place of a batch's array rejects the batch without a look
  at its id (client.ts:307); pivxd answers with a null id there.
- A timeout while a body is read surfaces as it is, without the method's label
  that `post` gives to the others (client.ts:204, 349-373).
- The comment of `fromCookie` (client.ts:168) speaks of 401 and 403; only 401
  leads to a refresh, as `docs/usage.md` says.

## 6. Not modelled

- Keys, addresses, transaction encoding (`transparent.ts`, `transparent-tx.ts`):
  cryptography and byte layout without state. What the layout means for sizes
  and fees is in CoinSelection.
- `loadShield` (`shield-bindings.ts`): one assignment, `ready ??= ...`. It keeps
  a rejected promise, so one failed load makes all later ones fail; nothing
  interleaves with it.
- `ZmqSubscriber` (`zmq.ts`): a decoder of single frames and an iterator over an
  external socket; `closed` is its only state.
- The typed RPC wrappers (`client.ts` from 400): each is one `call` with fixed
  parameters. `types.ts` and the `index.ts` files have no behaviour.
- The examples: scripts over the modelled calls; the deviations above say what
  the deposit watcher's loop does.
- The inside of the node and of the WASM library: external, modelled from how
  the code uses them.

## 7. Plan

Done: ShieldSpend with its inductive invariant, its abstract specification and
the refinement; ShieldSync; TransparentWallet; ShieldWatcher; RpcAuth and
RpcClient; CoinSelection; and a theorem for each safety property of their runs.

Next:

1. An abstract specification of the transparent wallet's reservations, as
   NoteLedger is for notes, and the refinement proved from `SendsInv`.
2. What `OneChainIsScanned` becomes for an application that resets between
   syncs or feeds the successor of the last block.
3. The part of liveness that is safety: that every phase of a sync, of a call
   and of a poll has a step that leaves it, as invariants about the guards.
