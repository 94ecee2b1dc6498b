------------------------ MODULE ShieldWatcherProofs ------------------------
(* What the watcher promises about events and about the block it remembers,*)
(* for every finite set of notes, all amounts, every choice of listeners'  *)
(* effects, and every length of the chain.                                 *)
EXTENDS ShieldWatcher, NumberLemmas

(* An event agrees with the notes the watcher has committed. *)
Agrees(e, S) ==
  /\ e.kind = "note" => e.note \in S
  /\ e.kind = "spent" => e.note \notin S

(* The block remembered, and the one a poll is about to remember, are      *)
(* blocks the node has had.                                                *)
HashesKnown == tip \in Nat /\ lastHash \in 0..tip /\ hash \in 0..tip

(* Whatever is due or told is about the notes as committed; told are only  *)
(* notes and their spending. *)
EventsAgree ==
  /\ phase # "emit" => queue = {}
  /\ \A e \in queue : Agrees(e, notes)
  /\ \A e \in told : e.kind \in {"note", "spent"} /\ Agrees(e, notes)

WatchInv == HashesKnown /\ HashCovered /\ EventsAgree /\ NoteOnce

-----------------------------------------------------------------------------
LEMMA WatchInit == Init => WatchInv
  BY DEF Init, WatchInv, HashesKnown, HashCovered, EventsAgree, NoteOnce

(* A step that leaves notes, events and hashes alone. *)
LEMMA QuietStep ==
  ASSUME WatchInv, UNCHANGED <<notes, lastHash, hash, queue, told, tip, unspent, calm>>,
         phase' = "emit" \/ queue' = {}
  PROVE  WatchInv'
  BY DEF WatchInv, HashesKnown, HashCovered, EventsAgree, NoteOnce, Agrees

LEMMA CallKeeps == ASSUME WatchInv, start \/ stop \/ Poll PROVE WatchInv'
  <1>1. phase # "emit" => queue = {}
    BY DEF WatchInv, EventsAgree
  <1>2. CASE start
    <2>1. phase' = "emit" \/ queue' = {}
      BY <1>1, <1>2 DEF start
    <2>2. QED
      BY <1>2, <2>1, QuietStep DEF start, state, node
  <1>3. CASE stop
    <2>1. phase' = "emit" \/ queue' = {}
      BY <1>1, <1>3 DEF stop, poll
    <2>2. QED
      BY <1>3, <2>1, QuietStep DEF stop, state, poll, node
  <1>4. CASE Poll
    <2>1. phase' = "emit" \/ queue' = {}
      BY <1>1, <1>4 DEF Poll
    <2>2. QED
      BY <1>4, <2>1, QuietStep DEF Poll, state, node
  <1>5. QED
    BY <1>2, <1>3, <1>4

(* A hash already processed ends the poll; a new one is only held, not yet *)
(* remembered. *)
LEMMA HashKeeps == ASSUME WatchInv, GotHash PROVE WatchInv'
  <1>1. /\ UNCHANGED <<notes, lastHash, told, tip, unspent, calm>>
        /\ queue = {} /\ queue' = {} /\ hash' \in {hash, tip}
    BY DEF GotHash, KeptHash, Deliver, node, WatchInv, EventsAgree
  <1>2. hash' \in 0..tip'
    BY <1>1 DEF WatchInv, HashesKnown
  <1>3. QED
    BY <1>1, <1>2 DEF WatchInv, HashesKnown, HashCovered, EventsAgree, NoteOnce, Agrees

(* The events of a listing are about changes, so none was told before. *)
LEMMA ListingKeeps == ASSUME WatchInv, GotNotes PROVE WatchInv'
  <1>1. /\ notes' = unspent /\ unspent' = unspent /\ lastHash' = hash /\ hash' = hash
        /\ tip' = tip /\ told' = {e \in told : e.kind = "note" <=> e.note \in unspent}
    BY DEF GotNotes, Committed, node
  <1>2. HashesKnown' /\ HashCovered'
    BY <1>1 DEF WatchInv, HashesKnown, HashCovered
  <1> DEFINE due == IF Muted THEN {} ELSE Changes \cup About("block", {None})
  <1>3. queue' = due /\ (phase' # "emit" => queue' = {})
    BY DEF GotNotes, Deliver
  <1>4. ASSUME NEW e \in due
        PROVE  \/ e.kind = "note" /\ e.note \in unspent \ notes
               \/ e.kind = "spent" /\ e.note \in notes \ unspent
               \/ e.kind \notin {"note", "spent"}
    BY <1>4 DEF Changes, About, Event
  <1> HIDE DEF due
  <1>5. \A e \in told : e.kind \in {"note", "spent"} /\ Agrees(e, notes)
    BY DEF WatchInv, EventsAgree
  <1>6. \A e \in queue' : Agrees(e, notes')
    BY <1>1, <1>3, <1>4 DEF Agrees
  <1>7. \A e \in told' : e.kind \in {"note", "spent"} /\ Agrees(e, notes')
    BY <1>1, <1>5 DEF Agrees
  <1>8. queue' \cap told' = {}
    BY <1>1, <1>3, <1>4, <1>5 DEF Agrees
  <1>9. QED
    BY <1>2, <1>3, <1>6, <1>7, <1>8 DEF WatchInv, EventsAgree, NoteOnce, Agrees

(* An error is about no note. *)
LEMMA CaughtAgrees == \A e \in Caught : \A S : Agrees(e, S) /\ e.kind \notin {"note", "spent"}
  BY DEF Caught, About, Event, Agrees

LEMMA FailKeeps == ASSUME WatchInv, RpcFails PROVE WatchInv'
  <1>1. /\ UNCHANGED <<notes, lastHash, hash, told, tip, unspent, calm>>
        /\ queue' = Caught /\ (phase' # "emit" => queue' = {})
    BY DEF RpcFails, Deliver, state
  <1>2. \A e \in queue' : Agrees(e, notes') /\ e.kind \notin {"note", "spent"}
    BY <1>1, CaughtAgrees
  <1>3. \A e \in told' : e.kind \in {"note", "spent"} /\ Agrees(e, notes')
    BY <1>1 DEF WatchInv, EventsAgree
  <1>4. queue' \cap told' = {}
    BY <1>2, <1>3
  <1>5. HashesKnown' /\ HashCovered'
    BY <1>1 DEF WatchInv, HashesKnown, HashCovered
  <1>6. QED
    BY <1>1, <1>2, <1>3, <1>4, <1>5 DEF WatchInv, EventsAgree, NoteOnce, Agrees

(* What is told leaves the queue. *)
LEMMA EmitKeeps ==
  ASSUME WatchInv, NEW e \in queue, NEW effect \in Effects, Emit(e, effect)
  PROVE  WatchInv'
  <1>1. /\ UNCHANGED <<notes, lastHash, hash, tip, unspent, calm>>
        /\ phase' # "emit" => queue' = {}
        /\ queue' = queue \ {e} \/ queue' = {} \/ queue' = Caught
    BY DEF Emit, Deliver, state, node
  <1>2. told' = told \/ (told' = told \cup {e} /\ e.kind \in {"note", "spent"})
    BY DEF Emit
  <1>3. Agrees(e, notes) /\ queue \cap told = {}
    BY DEF WatchInv, EventsAgree, NoteOnce
  <1>4. \A f \in told' : f.kind \in {"note", "spent"} /\ Agrees(f, notes)
    BY <1>2, <1>3 DEF WatchInv, EventsAgree
  <1>5. \A f \in queue' : Agrees(f, notes)
    BY <1>1, CaughtAgrees DEF WatchInv, EventsAgree
  <1>6. queue' \cap told' = {}
    <2>1. CASE queue' = queue \ {e}
      BY <1>2, <1>3, <2>1
    <2>2. CASE queue' = {}
      BY <2>2
    <2>3. CASE queue' = Caught
      BY <1>4, <2>3, CaughtAgrees
    <2>4. QED
      BY <1>1, <2>1, <2>2, <2>3
  <1>7. HashesKnown' /\ HashCovered'
    BY <1>1 DEF WatchInv, HashesKnown, HashCovered
  <1>8. QED
    BY <1>1, <1>4, <1>5, <1>6, <1>7 DEF WatchInv, EventsAgree, NoteOnce, Agrees

(* A new block is one the watcher has not seen; a change without a block   *)
(* is not calm. *)
LEMMA NodeKeeps ==
  ASSUME WatchInv, NEW U \in SUBSET Notes, NewBlock(U) \/ MempoolChange(U)
  PROVE  WatchInv'
  <1>1. UNCHANGED <<notes, lastHash, hash, phase, queue, told>>
    BY DEF NewBlock, MempoolChange, state, poll
  <1>2. HashesKnown' /\ HashCovered'
    BY <1>1 DEF NewBlock, MempoolChange, WatchInv, HashesKnown, HashCovered
  <1>3. QED
    BY <1>1, <1>2 DEF WatchInv, EventsAgree, NoteOnce, Agrees

LEMMA WatchStep == WatchInv /\ [Next]_vars => WatchInv'
  <1> SUFFICES ASSUME WatchInv, [Next]_vars PROVE WatchInv'
    OBVIOUS
  <1>1. CASE start \/ stop \/ Poll
    BY <1>1, CallKeeps
  <1>2. CASE GotHash
    BY <1>2, HashKeeps
  <1>3. CASE GotNotes
    BY <1>3, ListingKeeps
  <1>4. CASE RpcFails
    BY <1>4, FailKeeps
  <1>5. ASSUME NEW e \in queue, NEW f \in Effects, Emit(e, f) PROVE WatchInv'
    BY <1>5, EmitKeeps
  <1>6. ASSUME NEW U \in SUBSET Notes, NewBlock(U) \/ MempoolChange(U) PROVE WatchInv'
    BY <1>6, NodeKeeps
  <1>7. CASE UNCHANGED vars
    BY <1>7 DEF vars, state, poll, node, WatchInv, HashesKnown, HashCovered,
                EventsAgree, NoteOnce, Agrees
  <1>8. QED
    BY <1>1, <1>2, <1>3, <1>4, <1>5, <1>6, <1>7 DEF Next, Step, Mine

LEMMA WatchInvHolds == Spec => []WatchInv
  BY WatchInit, WatchStep, PTL DEF Spec

-----------------------------------------------------------------------------
(* Delivery is at most once, for any number of notes and whatever the      *)
(* listeners do (shield.ts 81-84).                                         *)
THEOREM DeliveredOnce == Spec => []NoteOnce
  <1>1. WatchInv => NoteOnce
    BY DEF WatchInv
  <1>2. QED
    BY <1>1, WatchInvHolds, PTL

(* A block is remembered only with notes at least as new (shield.ts        *)
(* 133-169).                                                               *)
THEOREM NeverFiledEarly == Spec => []HashCovered
  <1>1. WatchInv => HashCovered
    BY DEF WatchInv
  <1>2. QED
    BY <1>1, WatchInvHolds, PTL

(* Nothing becomes due once the watcher is stopped (shield.ts 171-184).    *)
THEOREM SilentAfterStop == Spec => NothingDueAfterStop
  <1>1. [Next]_vars => [queue' \ queue # {} => ~stopped']_vars
    <2> SUFFICES ASSUME Next, queue' \ queue # {} PROVE ~stopped'
      BY DEF vars
    <2>1. CASE start \/ stop \/ Poll
      BY <2>1 DEF start, stop, Poll, poll
    <2>2. CASE GotHash
      BY <2>2 DEF GotHash, Deliver
    <2>3. CASE GotNotes
      BY <2>3 DEF GotNotes, Deliver, Muted
    <2>4. CASE RpcFails
      BY <2>4 DEF RpcFails, Deliver, Caught
    <2>5. ASSUME NEW e \in queue, NEW f \in Effects, Emit(e, f) PROVE ~stopped'
      <3>1. f = "throws" /\ ~stopped
        BY <2>5 DEF Emit, Deliver, Caught
      <3>2. QED
        BY <2>5, <3>1 DEF Emit
    <2>6. ASSUME NEW U \in SUBSET Notes, NewBlock(U) \/ MempoolChange(U) PROVE FALSE
      BY <2>6 DEF NewBlock, MempoolChange, poll
    <2>7. QED
      BY <2>1, <2>2, <2>3, <2>4, <2>5, <2>6 DEF Next, Step, Mine
  <1>2. QED
    BY <1>1, PTL DEF Spec, NothingDueAfterStop

-----------------------------------------------------------------------------
(* The types of the watcher's fields.  A balance is the sum of the amounts *)
(* the node listed, whatever the order they are added in.                  *)

LEMMA SatsIsSum == \A S : Sats(S) = SumOf(Amount, S)
  BY DEF Sats, SumOf, MapThenSumSet, MapThenFoldSet

LEMMA SatsNat == ASSUME NEW S \in SUBSET Notes PROVE Sats(S) \in Nat
  <1>1. IsFiniteSet(S)
    BY NotesAssumption, FS_Subset
  <1>2. NatValued(Amount, S)
    BY AmountAssumption DEF NatValued
  <1>3. QED
    BY <1>1, <1>2, SatsIsSum, SumNat

LEMMA EventKinds ==
  /\ \A S \in SUBSET Notes : About("note", S) \subseteq Events /\ About("spent", S) \subseteq Events
  /\ \A k \in {"balance", "block", "error"} : About(k, {None}) \subseteq Events
  BY DEF About, Events, Event

LEMMA CaughtTyped == Caught \subseteq Events
  BY EventKinds DEF Caught

LEMMA ChangesTyped ==
  ASSUME notes \in SUBSET Notes, unspent \in SUBSET Notes
  PROVE  Changes \cup About("block", {None}) \subseteq Events
  <1>1. unspent \ notes \in SUBSET Notes /\ notes \ unspent \in SUBSET Notes
    OBVIOUS
  <1>2. /\ About("note", unspent \ notes) \subseteq Events
        /\ About("spent", notes \ unspent) \subseteq Events
        /\ About("balance", {None}) \subseteq Events /\ About("block", {None}) \subseteq Events
    BY <1>1, EventKinds
  <1>3. QED
    BY <1>2 DEF Changes

LEMMA TypeInit == Init => TypeOK
  <1> SUFFICES ASSUME Init PROVE TypeOK
    OBVIOUS
  <1>1. lastHash \in Nat /\ hash \in Nat /\ tip \in Nat /\ faults \in Nat
    BY DEF Init
  <1>2. primed \in BOOLEAN /\ timer \in BOOLEAN /\ stopped \in BOOLEAN /\ calm \in BOOLEAN
    BY DEF Init
  <1>3. /\ notes \subseteq Notes /\ unspent \subseteq Notes
        /\ queue \subseteq Events /\ told \subseteq Events
        /\ phase \in {"idle", "hash", "list", "emit"} /\ (phase = "emit" <=> queue # {})
        /\ lastBalance \in Nat \cup {None}
    BY DEF Init
  <1>4. QED
    BY <1>1, <1>2, <1>3 DEF TypeOK

LEMMA TypeStep == TypeOK /\ [Next]_vars => TypeOK'
  <1> SUFFICES ASSUME TypeOK, [Next]_vars PROVE TypeOK'
    OBVIOUS
  <1> USE DEF TypeOK
  <1>1. CASE start
    BY <1>1 DEF start, StartPoll, state, node
  <1>2. CASE stop
    BY <1>2 DEF stop, state, poll, node
  <1>3. CASE Poll
    BY <1>3 DEF Poll, StartPoll, state, node
  <1>4. CASE GotHash
    BY <1>4 DEF GotHash, KeptHash, Deliver, node
  <1>5. CASE GotNotes
    <2> DEFINE due == IF Muted THEN {} ELSE Changes \cup About("block", {None})
    <2>1. due \subseteq Events
      BY ChangesTyped
    <2> HIDE DEF due
    <2>2. queue' = due /\ (phase' = IF due = {} THEN "idle" ELSE "emit")
      BY <1>5 DEF GotNotes, Deliver, due
    <2>3. notes' = unspent /\ lastBalance' = Sats(unspent) /\ Sats(unspent) \in Nat
      BY <1>5, SatsNat DEF GotNotes, Committed
    <2>4. told' \subseteq told
      BY <1>5 DEF GotNotes
    <2>5. /\ lastHash' = hash /\ hash' = hash /\ primed' = TRUE
          /\ UNCHANGED <<timer, stopped, tip, unspent, faults, calm>>
      BY <1>5 DEF GotNotes, node
    <2>6. QED
      BY <2>1, <2>2, <2>3, <2>4, <2>5
  <1>6. CASE RpcFails
    <2>1. queue' = Caught /\ (phase' = IF Caught = {} THEN "idle" ELSE "emit")
      BY <1>6 DEF RpcFails, Deliver
    <2>2. QED
      BY <1>6, <2>1, CaughtTyped DEF RpcFails, state
  <1>7. ASSUME NEW e \in queue, NEW f \in Effects, Emit(e, f) PROVE TypeOK'
    <2>1. /\ queue' \subseteq queue \/ queue' = Caught
          /\ phase' = IF queue' = {} THEN "idle" ELSE "emit"
      BY <1>7 DEF Emit, Deliver
    <2>2. queue' \subseteq Events /\ (phase' = "emit" <=> queue' # {})
      BY <2>1, CaughtTyped
    <2>3. timer' \in BOOLEAN /\ stopped' \in BOOLEAN
      BY <1>7 DEF Emit
    <2>4. told' \subseteq Events
      BY <1>7 DEF Emit
    <2>5. QED
      <3>1. UNCHANGED <<state, hash, node>> /\ phase' \in {"idle", "emit"}
        BY <1>7, <2>1 DEF Emit
      <3>2. QED
        BY <2>2, <2>3, <2>4, <3>1 DEF state, node
  <1>8. ASSUME NEW U \in SUBSET Notes, NewBlock(U) \/ MempoolChange(U) PROVE TypeOK'
    <2>1. /\ UNCHANGED <<notes, lastHash, lastBalance, primed, timer, stopped>>
          /\ UNCHANGED <<phase, hash, queue, faults, told>>
      BY <1>8 DEF NewBlock, MempoolChange, state, poll
    <2>2. tip' \in Nat /\ unspent' = U /\ calm' \in BOOLEAN
      <3>1. unspent' = U /\ calm' \in BOOLEAN
        BY <1>8 DEF NewBlock, MempoolChange
      <3>2. tip' = tip \/ tip' = tip + 1
        BY <1>8 DEF NewBlock, MempoolChange
      <3>3. QED
        BY <3>1, <3>2
    <2>3. QED
      BY <2>1, <2>2
  <1>9. CASE UNCHANGED vars
    BY <1>9 DEF vars, state, poll, node
  <1>10. QED
    BY <1>1, <1>2, <1>3, <1>4, <1>5, <1>6, <1>7, <1>8, <1>9 DEF Next, Step, Mine

(* Every field keeps its type, and a poll delivers as long as, and only as *)
(* long as, events are due (shield.ts 87-184).                             *)
THEOREM WatcherTyping == Spec => []TypeOK
  BY TypeInit, TypeStep, PTL DEF Spec

=============================================================================
