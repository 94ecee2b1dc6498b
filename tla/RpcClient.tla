----------------------------- MODULE RpcClient -----------------------------
(***************************************************************************)
(* Calls and batches of the RPC client (rpc/src/client.ts).  A request     *)
(* goes through send (RpcAuth); when that returns, callWithTimeout or      *)
(* batch reads the body and decides what the caller gets.  Between the     *)
(* client and the node there may be a proxy: it can reorder, repeat, drop  *)
(* or mix up what the node answered, cut it off, or answer on its own, but *)
(* it does not forge an answer under the id of a request.                  *)
(*                                                                         *)
(* nextId never repeats, so the id of the i-th call of a request stands    *)
(* for itself: <<r, i>>.                                                   *)
(***************************************************************************)
EXTENDS RpcAuth, SequencesExt

CONSTANTS
  Batches,       (* the requests that are a batch of two, the rest are calls*)
  Foreign,       (* an id that no request under way has sent                *)
  NotAnObject,   (* stands for the id of null, a primitive or an array      *)
  MaxElements    (* bound: elements of an array in a body                   *)

ASSUME BatchesAreRequests == Batches \subseteq Requests
ASSUME IdsDiffer == {Foreign, NotAnObject} \cap (Requests \X {1, 2}) = {}
ASSUME ElementsAssumption == NotAnObject # Foreign /\ MaxElements \in Nat

VARIABLES
  outcome,   (* per request: what its promise has come to                   *)
  (* history *)
  said,      (* what the node answered to each of its calls                 *)
  ran        (* how often the node has run them                             *)

client == <<outcome, said, ran>>
allVars == <<vars, client>>

Width(r) == IF r \in Batches THEN 2 ELSE 1
ids(r) == [i \in 1..Width(r) |-> <<r, i>>]

Verdicts == {"result", "error"}

(* An element of a response is its id and what it says.  "rejected" are    *)
(* the errors that blame the answer: malformed, HTTP status,               *)
(* too large, not JSON, cut off.                                           *)
Takes(tag, els) == [tag |-> tag, took |-> els, whole |-> FALSE]
Is(tag) == Takes(tag, <<>>)

ClientInit ==
  /\ Init
  /\ outcome = [r \in Requests |-> Is("none")]
  /\ said = [r \in Requests |-> <<>>] /\ ran = [r \in Requests |-> 0]

-----------------------------------------------------------------------------
(* send, with what the node does *)

(* The caller makes its next request once this one has settled. *)
Settled(r) == req[r].pc = "done" => outcome[r].tag # "none"

Request(r) ==
  /\ Settled(r) /\ Start(r)
  /\ outcome' = [outcome EXCEPT ![r] = Is("none")]
  /\ said' = [said EXCEPT ![r] = <<>>] /\ ran' = [ran EXCEPT ![r] = 0]

(* The node runs every call of the request; each succeeds or fails. *)
Runs(r) ==
  /\ \E s \in [1..Width(r) -> Verdicts] : said' = [said EXCEPT ![r] = s]
  /\ ran' = [ran EXCEPT ![r] = @ + 1]

Answered(r, status) ==
  /\ NodeAnswers(r, status)
  /\ IF status \in {200, 500} THEN Runs(r) ELSE UNCHANGED <<said, ran>>
  /\ UNCHANGED outcome

(* The answer is lost, or the request never arrived. *)
Lost(r) ==
  /\ TransportFails(r)
  /\ \/ up /\ req[r].sent = accepted /\ Runs(r)
     \/ UNCHANGED <<said, ran>>
  /\ UNCHANGED outcome

Sending(r) == (Returns(r) \/ ReadCookie(r) \/ Refresh(r) \/ Retry(r)) /\ UNCHANGED client

-----------------------------------------------------------------------------
(* What a proxy can hand over *)

(* Whatever the node has answered to the requests of this client, and what *)
(* belongs to none of them.                                                *)
OnTheWire ==
  {[id |-> c, says |-> said[c[1]][c[2]]] :
      c \in {d \in Requests \X {1, 2} : d[2] \in DOMAIN said[d[1]]}}
    \cup [id : {Foreign}, says : Verdicts]

InAnArray ==
  {e \in OnTheWire : e.id = Foreign => e.says = "result"}
    \cup [id : {NotAnObject}, says : {"result"}]

(* "other": too large, cut off, not JSON, null or a primitive, and for a   *)
(* call an array.                                                          *)
Bodies(r) ==
  [shape : {"object"}, els : {<<e>> : e \in OnTheWire}]
    \cup [shape : {"other"}, els : {<<>>}]
    \cup IF r \in Batches
         THEN [shape : {"array"}, els : BoundedSeq(InAnArray, MaxElements)] ELSE {}

(* The node's own answer, with the elements in any order. *)
IsWhole(r, body) ==
  /\ body.shape = IF r \in Batches THEN "array" ELSE "object"
  /\ Len(body.els) = Width(r)
  /\ {e.id : e \in ToSet(body.els)} = ToSet(ids(r))

-----------------------------------------------------------------------------
(* What the caller gets *)

(* mutant: any reply is taken for the call's own *)
AnyReply(r, e) == TRUE

(* pivxd echoes the id on success and on error. *)
OwnReply(r, e) == e.id = ids(r)[1]

CallOutcome(r, body) ==
  IF body.shape # "object" \/ ~OwnReply(r, body.els[1]) THEN Is("rejected")
  ELSE IF body.els[1].says = "error" THEN Takes("rpc error", body.els)
  ELSE IF req[r].status # 200 THEN Is("rejected")
  ELSE Takes("resolved", body.els)

(* mutant: elements are expected in the order of the calls *)
ByPosition(r, els, i) == {k \in DOMAIN els : k = i /\ els[k].id = ids(r)[i]}

(* byId: where the element for the i-th call may be; of two with the same  *)
(* id, the map keeps the later.                                            *)
Places(r, els, i) == {k \in DOMAIN els : els[k].id = ids(r)[i]}

ArrayOutcome(r, els) ==
  IF \/ Len(els) # Width(r)
     \/ \E k \in DOMAIN els : els[k].id = NotAnObject
     \/ \E i \in 1..Width(r) : Places(r, els, i) = {}
  THEN Is("rejected")
  ELSE Takes("resolved", [i \in 1..Width(r) |-> els[Max(Places(r, els, i))]])

(* An error object in place of the array is a failure of the whole batch,  *)
(* whatever its id.                                                        *)
BatchOutcome(r, body) ==
  IF body.shape = "object" /\ body.els[1].says = "error" THEN Is("rpc error")
  ELSE IF req[r].status # 200 \/ body.shape # "array" THEN Is("rejected")
  ELSE ArrayOutcome(r, body.els)

OutcomeOf(r, body) ==
  LET o == IF r \in Batches THEN BatchOutcome(r, body) ELSE CallOutcome(r, body)
  IN  [tag |-> o.tag, took |-> o.took,
       whole |-> IsWhole(r, body) /\ req[r].status = 200]

Settle(r) ==
  /\ req[r].pc = "done" /\ ~Settled(r)
  /\ \E o \in {OutcomeOf(r, body) : body \in Bodies(r)} :
       outcome' = [outcome EXCEPT ![r] = o]
  /\ UNCHANGED <<vars, said, ran>>

-----------------------------------------------------------------------------
Proceeds(r) ==
  \/ \E status \in {200, 401, 403, 500} : Answered(r, status)
  \/ Lost(r) \/ Sending(r) \/ Settle(r)

NodeRestarts == (NodeStops \/ NodeStarts) /\ UNCHANGED client

ClientNext ==
  \/ \E r \in Requests : Request(r) \/ Proceeds(r)
  \/ NodeRestarts

ClientSpec == ClientInit /\ [][ClientNext]_allVars

(* A fetch and the body it returned settle (timeoutMs aborts both), and so *)
(* does reading the file; a node that stopped starts again; the            *)
(* application keeps making requests.                                      *)
FairClient ==
  /\ ClientSpec
  /\ \A r \in Requests : WF_allVars(Request(r)) /\ WF_allVars(Proceeds(r))
  /\ WF_allVars(NodeStarts /\ UNCHANGED client)

-----------------------------------------------------------------------------
(* Properties *)

(* A result, a per-call error and the RpcError of a call are what the node *)
(* answered to that very call, whatever the proxy did to the order and     *)
(* number of the answers.  WalletShield.send lets go of a transaction on   *)
(* such an error.                                                          *)
NeverMisattributed ==
  \A r \in Requests : \A i \in DOMAIN outcome[r].took :
    /\ outcome[r].took[i].id = ids(r)[i]
    /\ outcome[r].took[i].says = said[r][i]

(* When everything arrives, in whatever order, the caller gets an answer   *)
(* to each of its calls.                                                   *)
WholeIsDelivered ==
  \A r \in Requests : outcome[r].whole => DOMAIN outcome[r].took = 1..Width(r)

(* One request of the caller is run once at most, though it may be posted  *)
(* twice while the node restarts; exactly once when it has an answer; not  *)
(* at all when it was refused, so that the caller may make it again.       *)
RunOnce ==
  \A r \in Requests :
    /\ ran[r] <= 1
    /\ outcome[r].took # <<>> => ran[r] = 1
    /\ req[r].pc = "refused" => ran[r] = 0

=============================================================================
