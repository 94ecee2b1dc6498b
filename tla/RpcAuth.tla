------------------------------ MODULE RpcAuth ------------------------------
(***************************************************************************)
(* The cookie refresh of the RPC client (rpc/src/client.ts): every request *)
(* of a PivxClient goes through send, which posts it, and on HTTP 401 asks *)
(* the cookie file for newer credentials and retries once.  Requests run   *)
(* concurrently (a wallet fetches blocks in parallel) and share the        *)
(* header, while the node restarts and rewrites its cookie.                *)
(*                                                                         *)
(* Credentials are numbered in the order the node generates them.          *)
(***************************************************************************)
EXTENDS Naturals, FiniteSets

CONSTANTS
  Requests,
  Unreadable,    (* the file cannot be read, or holds no credentials        *)
  MaxRestarts,   (* bound: restarts of the node                             *)
  MaxFaults      (* bound: lost answers, and requests the node's ACL denies *)

ASSUME CredentialsAssumption == Unreadable \notin Nat
ASSUME LimitsAssumption == MaxRestarts \in Nat /\ MaxFaults \in Nat

VARIABLES
  authHeader,       (* the credentials every post of the client carries       *)
  req,              (* where each request is in send, and its locals          *)
  (* outside *)
  accepted,         (* the credentials the node accepts                       *)
  up,               (* whether it answers                                     *)
  cookieFile,       (* what the file holds                                    *)
  restarts, faults,
  (* history *)
  alone, steady     (* per request: nothing else was in send since it began;  *)
                    (* neither node nor file changed, and the file was read   *)

node    == <<accepted, up, cookieFile, restarts, faults>>
history == <<alone, steady>>
vars    == <<authHeader, req, node, history>>

-----------------------------------------------------------------------------
Idle == [pc |-> "idle", tries |-> 0, sent |-> 0, status |-> 0, fresh |-> 0]

(* PivxClient.fromCookie, on a running node *)
Init ==
  /\ accepted = 1 /\ cookieFile = 1 /\ authHeader = 1
  /\ up = TRUE /\ restarts = 0 /\ faults = 0
  /\ req = [r \in Requests |-> Idle]
  /\ alone = [r \in Requests |-> FALSE] /\ steady = [r \in Requests |-> FALSE]

At(r, phase) == req[r].pc = phase
Ended == {"idle", "done", "refused", "failed"}
InSend == {r \in Requests : req[r].pc \notin Ended}

(* post: the header is read when fetch is called. *)
Post(r, try) ==
  req' = [req EXCEPT ![r] = [pc |-> "posted", tries |-> try, sent |-> authHeader,
                             status |-> 0, fresh |-> 0]]

Start(r) ==
  /\ req[r].pc \in Ended
  /\ Post(r, 1)
  /\ alone' = [q \in Requests |-> IF q = r THEN InSend = {} ELSE alone[q] /\ q \notin InSend]
  /\ steady' = [steady EXCEPT ![r] = up /\ cookieFile = accepted]
  /\ UNCHANGED <<authHeader, node>>

(* The node runs the request and answers 200 or 500, or it answers 401 to  *)
(* other credentials than its own.  A 403 (its ACL) is not retried,        *)
(* whatever the credentials.                                               *)
NodeAnswers(r, status) ==
  /\ At(r, "posted") /\ up
  /\ \/ /\ status \in (IF req[r].sent = accepted THEN {200, 500} ELSE {401})
        /\ faults' = faults
     \/ status = 403 /\ faults < MaxFaults /\ faults' = faults + 1
  /\ req' = [req EXCEPT ![r] = [pc |-> "answered", tries |-> req[r].tries,
                                sent |-> req[r].sent, status |-> status, fresh |-> 0]]
  /\ UNCHANGED <<authHeader, accepted, up, cookieFile, restarts, history>>

(* fetch rejects: TransportError, whatever the node did with the request. *)
TransportFails(r) ==
  /\ At(r, "posted")
  /\ ~up \/ faults < MaxFaults
  /\ faults' = IF up THEN faults + 1 ELSE faults
  /\ req' = [req EXCEPT ![r] = [Idle EXCEPT !.pc = "failed"]]
  /\ UNCHANGED <<authHeader, accepted, up, cookieFile, restarts, history>>

(* mutant: the cookie is read for a denial by the ACL only *)
OnDenial(r) == req[r].status = 403 /\ req[r].tries = 1

(* mutant: a retry is refreshed and retried again *)
EveryTime(r) == req[r].status = 401

(* mutant: the node's errors are retried like a refusal *)
OnError(r) == req[r].status \in {401, 500} /\ req[r].tries = 1

(* Only the first answer leads to a look at the file. *)
MayRefresh(r) == req[r].status = 401 /\ req[r].tries = 1

Returns(r) ==
  /\ At(r, "answered") /\ ~MayRefresh(r)
  /\ req' = [req EXCEPT ![r] =
       [pc |-> IF req[r].status \in {401, 403} THEN "refused" ELSE "done", tries |-> 0,
        sent |-> req[r].sent, status |-> req[r].status, fresh |-> req[r].fresh]]
  /\ UNCHANGED <<authHeader, node, history>>

(* readCookie *)
ReadCookie(r) ==
  /\ At(r, "answered") /\ MayRefresh(r)
  /\ req' = [req EXCEPT ![r] = [pc |-> "read", tries |-> req[r].tries, sent |-> req[r].sent,
                                status |-> req[r].status, fresh |-> cookieFile]]
  /\ UNCHANGED <<authHeader, node, history>>

(* mutant: the fresh credentials are not kept *)
Forgotten(r) == authHeader

Installed(r) == req[r].fresh

(* What the fresh credentials are compared with: the client's header as it *)
(* is by now, not the header this request carried.                         *)
Compared(r) == authHeader

Refresh(r) ==
  /\ At(r, "read")
  /\ IF req[r].fresh \notin {Unreadable, Compared(r)}
     THEN authHeader' = Installed(r) /\ req' = [req EXCEPT ![r].pc = "retry"]
     ELSE /\ authHeader' = authHeader
          /\ req' = [req EXCEPT ![r].pc = "refused"]
  /\ UNCHANGED <<node, history>>

(* The first answer's body is cancelled, then the request is posted again. *)
Retry(r) == At(r, "retry") /\ Post(r, req[r].tries + 1) /\ UNCHANGED <<authHeader, node, history>>

-----------------------------------------------------------------------------
(* The node stops, writes a cookie and answers again.  The file of the old *)
(* node may be gone in between.                                            *)

Unsteady == steady' = [r \in Requests |-> FALSE]

NodeStops ==
  /\ up /\ restarts < MaxRestarts
  /\ up' = FALSE /\ restarts' = restarts + 1
  /\ cookieFile' \in {cookieFile, Unreadable}
  /\ Unsteady
  /\ UNCHANGED <<authHeader, req, accepted, faults, alone>>

NodeStarts ==
  /\ ~up
  /\ up' = TRUE /\ accepted' = accepted + 1 /\ cookieFile' = accepted'
  /\ Unsteady
  /\ UNCHANGED <<authHeader, req, restarts, faults, alone>>

-----------------------------------------------------------------------------
Progress(r) ==
  \/ \E status \in {200, 401, 403, 500} : NodeAnswers(r, status)
  \/ Returns(r) \/ ReadCookie(r) \/ Refresh(r) \/ Retry(r)

Next ==
  \/ \E r \in Requests : Start(r) \/ Progress(r) \/ TransportFails(r)
  \/ NodeStops \/ NodeStarts

Spec == Init /\ [][Next]_vars

(* A fetch settles (timeouts) and so does reading the file; a node that    *)
(* stopped starts again; the application keeps making requests.            *)
FairSpec ==
  /\ Spec
  /\ \A r \in Requests : WF_vars(Start(r)) /\ WF_vars(Progress(r) \/ TransportFails(r))
  /\ WF_vars(NodeStarts)

-----------------------------------------------------------------------------
(* Properties *)

Credentials == 1..(MaxRestarts + 1)

TypeOK ==
  /\ authHeader \in Credentials /\ accepted \in Credentials
  /\ cookieFile \in Credentials \cup {Unreadable}
  /\ up \in BOOLEAN /\ restarts \in Nat /\ faults \in Nat
  /\ req \in [Requests -> [pc : Ended \cup {"posted", "answered", "read", "retry"},
                           tries : 0..2, sent : Credentials \cup {0},
                           status : {0, 200, 401, 403, 500},
                           fresh : Credentials \cup {0, Unreadable}]]
  /\ alone \in [Requests -> BOOLEAN] /\ steady \in [Requests -> BOOLEAN]

Unauthorized(r) == At(r, "refused") /\ req[r].status = 401

(* A request that no other overlaps, on a node that runs and a cookie file *)
(* that can be read throughout, is not refused for stale credentials, no   *)
(* matter what earlier requests and restarts left in the client.           *)
RefusedOnlyForCause == \A r \in Requests : Unauthorized(r) => ~(alone[r] /\ steady[r])

(* docs/usage.md: on 401 the client re-reads the cookie and retries the    *)
(* request once if the credentials changed.                                *)
RetriedWhenChanged ==
  \A r \in Requests :
    Unauthorized(r) /\ req[r].fresh \notin {0, Unreadable} => req[r].fresh = req[r].sent

(* Once the node stays up, a client in use ends up with its credentials,   *)
(* even if a cookie read before the last restart was installed after it.   *)
HeaderHeals == <>[](authHeader = accepted)

=============================================================================
