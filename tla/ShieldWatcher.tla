--------------------------- MODULE ShieldWatcher ---------------------------
(***************************************************************************)
(* The polling watcher of the RPC package (rpc/src/shield.ts): one poll at *)
(* a time asks the node for its best block and for the unspent notes,      *)
(* commits the new state, and then delivers what changed, one event after  *)
(* another, to listeners that may throw or call the watcher back.          *)
(*                                                                         *)
(* Nothing but stop() and start() can touch a watcher whose poll awaits an *)
(* answer, so an answer is read when the node gives it.  A block hash is   *)
(* a number, new with every block: a node that leaves a block and returns  *)
(* to it is not modelled.                                                  *)
(***************************************************************************)
EXTENDS Naturals, FiniteSets, FiniteSetsExt

CONSTANTS
  Notes,
  Amount,       (* note -> satoshis                                         *)
  None,         (* no note, no balance yet                                  *)
  Effects,      (* what listeners do: return, throw, stop, start            *)
  MaxBlocks,    (* bound: the node's last block                             *)
  MaxFaults     (* bound: RPCs that fail                                    *)

ASSUME AmountAssumption == Amount \in [Notes -> Nat] /\ None \notin Notes \cup Nat
ASSUME NotesAssumption == IsFiniteSet(Notes)
ASSUME EffectsAssumption == Effects \subseteq {"returns", "throws", "stops", "starts"}
ASSUME LimitsAssumption == MaxBlocks \in Nat /\ MaxFaults \in Nat

VARIABLES
  (* fields of ShieldWatcher; polling iff phase is not idle *)
  notes, lastHash, lastBalance, primed, timer, stopped,
  (* the poll in progress: where it is, the hash it got, events to deliver *)
  phase, hash, queue,
  (* the node *)
  tip, unspent, faults,
  (* history: whether notes changed without a new block; events delivered  *)
  (* about notes whose state has not changed since                         *)
  calm, told

state == <<notes, lastHash, lastBalance, primed>>
poll  == <<phase, hash, queue>>
node  == <<tip, unspent, faults, calm>>
vars  == <<state, timer, stopped, poll, node, told>>

-----------------------------------------------------------------------------
Event(kind, n) == [kind |-> kind, note |-> n]
About(kind, S) == {Event(kind, n) : n \in S}

Order == [note |-> 1, spent |-> 2, balance |-> 3, block |-> 4, error |-> 5]

Sats(S) == MapThenSumSet(LAMBDA n : Amount[n], S)

Init ==
  /\ notes = {} /\ lastHash = 0 /\ lastBalance = None /\ primed = FALSE
  /\ timer = FALSE /\ stopped = FALSE
  /\ phase = "idle" /\ hash = 0 /\ queue = {}
  /\ tip = 1 /\ unspent \in SUBSET Notes /\ faults = 0
  /\ calm = TRUE /\ told = {}

(* A poll that overlaps another is skipped. *)
StartPoll(idle) == phase' = IF idle THEN "hash" ELSE phase

(* start: the poll it makes at once is included. *)
start ==
  /\ phase # "emit" /\ ~timer
  /\ timer' = TRUE /\ stopped' = FALSE
  /\ StartPoll(phase = "idle")
  /\ UNCHANGED <<state, hash, queue, node, told>>

stop ==
  /\ phase # "emit"
  /\ timer' = FALSE /\ stopped' = TRUE
  /\ UNCHANGED <<state, poll, node, told>>

(* The interval timer, or the application, calls poll(). *)
Poll ==
  /\ phase = "idle"
  /\ StartPoll(TRUE)
  /\ UNCHANGED <<state, timer, stopped, hash, queue, node, told>>

Tick == timer /\ Poll

(* mutant: polling is not reset *)
StayPolling(events) == queue' = events /\ phase' = "emit"

(* What is still to be delivered; with nothing left the poll is over. *)
Deliver(events) ==
  /\ queue' = events
  /\ phase' = IF events = {} THEN "idle" ELSE "emit"

(* mutant: a new hash is remembered before its notes are listed *)
EarlyHash == tip

KeptHash == lastHash

GotHash ==
  /\ phase = "hash"
  /\ IF tip = lastHash THEN Deliver({}) /\ hash' = hash
     ELSE phase' = "list" /\ hash' = tip /\ queue' = queue
  /\ lastHash' = KeptHash
  /\ UNCHANGED <<notes, lastBalance, primed, timer, stopped, node, told>>

(* What a listing changes, as long as the watcher is primed. *)
Changes ==
  IF ~primed THEN {}
  ELSE About("note", unspent \ notes) \cup About("spent", notes \ unspent)
         \cup IF Sats(unspent) # lastBalance THEN About("balance", {None}) ELSE {}

(* mutant: the listing is committed only by the first poll *)
PrimedOnly == IF primed THEN notes ELSE unspent

Committed == unspent

(* mutant: stop() during the RPC does not silence the poll *)
Unmuted == FALSE

Muted == stopped

(* The listing arrives: compute the changes, commit, then deliver. *)
GotNotes ==
  /\ phase = "list"
  /\ notes' = Committed
  /\ lastBalance' = Sats(unspent)
  /\ lastHash' = hash
  /\ primed' = TRUE
  /\ Deliver(IF Muted THEN {} ELSE Changes \cup About("block", {None}))
  /\ told' = {e \in told : e.kind = "note" <=> e.note \in unspent}
  /\ UNCHANGED <<timer, stopped, hash, node>>

(* The catch clause; an 'error' listener is registered. *)
Caught == IF stopped THEN {} ELSE About("error", {None})

RpcFails ==
  /\ phase \in {"hash", "list"}
  /\ faults < MaxFaults
  /\ faults' = faults + 1
  /\ Deliver(Caught)
  /\ UNCHANGED <<state, timer, stopped, hash, tip, unspent, calm, told>>

(* One event is delivered; e is next in the order poll() emits.  An error  *)
(* listener that throws rejects the promise of poll() after the finally.   *)
Emit(e, effect) ==
  /\ phase = "emit" /\ e \in queue
  /\ \A f \in queue : Order[e.kind] <= Order[f.kind]
  /\ effect \in Effects
  /\ Deliver(IF effect # "throws" THEN queue \ {e}
             ELSE IF e.kind = "error" THEN {} ELSE Caught)
  /\ timer' = (effect = "starts" \/ (effect # "stops" /\ timer))
  /\ stopped' = (effect = "stops" \/ (stopped /\ ~(effect = "starts" /\ ~timer)))
  /\ told' = IF e.kind \in {"note", "spent"} THEN told \cup {e} ELSE told
  /\ UNCHANGED <<state, hash, node>>

-----------------------------------------------------------------------------
(* The node: a new block, which may come with any change of the unspent    *)
(* notes (a reorg too), and a change without a block: a mempool note, or a *)
(* spend by the node's own wallet.                                         *)

NewBlock(U) ==
  /\ tip < MaxBlocks
  /\ tip' = tip + 1 /\ unspent' = U /\ calm' = TRUE
  /\ UNCHANGED <<state, timer, stopped, poll, faults, told>>

MempoolChange(U) ==
  /\ tip < MaxBlocks   \* noticed with the next block, so not after the last
  /\ unspent' = U /\ calm' = FALSE
  /\ UNCHANGED <<state, timer, stopped, poll, tip, faults, told>>

Events == About("note", Notes) \cup About("spent", Notes)
            \cup {Event(k, None) : k \in {"balance", "block", "error"}}

Step == GotHash \/ GotNotes \/ RpcFails \/ \E e \in queue, f \in Effects : Emit(e, f)
Mine == \E U \in SUBSET Notes : NewBlock(U)

Next ==
  \/ start \/ stop \/ Poll \/ Step \/ Mine
  \/ \E U \in SUBSET Notes : MempoolChange(U)

Spec == Init /\ [][Next]_vars

(* RPCs settle (each has a timeout), the interval timer fires while it is  *)
(* set, and blocks keep coming up to the bound.                            *)
FairSpec == Spec /\ WF_vars(Step) /\ WF_vars(Tick) /\ WF_vars(Mine)

-----------------------------------------------------------------------------
(* Properties *)

TypeOK ==
  /\ notes \subseteq Notes /\ unspent \subseteq Notes
  /\ lastHash \in Nat /\ hash \in Nat /\ tip \in Nat /\ faults \in Nat
  /\ lastBalance \in Nat \cup {None}
  /\ primed \in BOOLEAN /\ timer \in BOOLEAN /\ stopped \in BOOLEAN /\ calm \in BOOLEAN
  /\ phase \in {"idle", "hash", "list", "emit"}
  /\ queue \subseteq Events /\ told \subseteq Events
  /\ phase = "emit" <=> queue # {}

(* Delivery is at most once (shield.ts:81-84): no event is on its way that *)
(* was already delivered for the same appearance or disappearance of the   *)
(* note, whatever listeners threw and whenever the watcher was stopped.    *)
NoteOnce == queue \cap told = {}

(* The notes known are at least as new as the block they are filed under:  *)
(* a block that arrives between the two RPCs is not taken for processed.   *)
HashCovered == lastHash = tip /\ calm => notes = unspent

(* After stop() nothing more becomes due, neither changes nor an error:    *)
(* not by the poll whose RPC was in flight, nor by one that fails.  (What  *)
(* is due already when a listener calls stop() still follows: README,      *)
(* deviations.)                                                            *)
NothingDueAfterStop == [][queue' \ queue # {} => ~stopped']_vars

(* A watcher that stays started ends up with the notes of the last block,  *)
(* through failed RPCs, throwing listeners, stops and restarts.            *)
CatchesUp == (<>[]timer) => <>[](lastHash = tip /\ notes = unspent)

=============================================================================
