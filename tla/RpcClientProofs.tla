-------------------------- MODULE RpcClientProofs --------------------------
(* The requests of RpcClient for every number of requests, restarts and    *)
(* faults: the layer of calls and batches only adds to what send does, no  *)
(* request is refused in vain or run twice, and no answer reaches the      *)
(* wrong call.                                                             *)
EXTENDS RpcClient, SequenceTheorems, TLAPS

-----------------------------------------------------------------------------
(* send: types, and how often a request has been posted *)

(* The first answer alone leads to the file, and the node's credentials    *)
(* count its restarts.                                                     *)
Counts ==
  /\ \A r \in Requests :
       /\ req[r].pc \in {"posted", "answered"} => req[r].tries \in 1..2
       /\ req[r].pc \in {"read", "retry"} =>
            req[r].tries = 1 /\ req[r].fresh \in Credentials \cup {Unreadable}
       /\ req[r].pc = "answered" => req[r].status \in {200, 401, 403, 500}
       /\ req[r].pc = "retry" => req[r].fresh \in Credentials
       /\ req[r].pc = "done" => req[r].status \in {200, 500}
  /\ accepted = IF up THEN restarts + 1 ELSE restarts
  /\ restarts <= MaxRestarts /\ restarts \in Nat

SendInv == TypeOK /\ Counts

Record == [pc : Ended \cup {"posted", "answered", "read", "retry"},
           tries : 0..2, sent : Credentials \cup {0},
           status : {0, 200, 401, 403, 500},
           fresh : Credentials \cup {0, Unreadable}]

LEMMA SendInit == Init => SendInv
  <1> SUFFICES ASSUME Init PROVE SendInv
    OBVIOUS
  <1>1. 1 \in Credentials
    BY LimitsAssumption DEF Credentials
  <1>2. Idle \in Record
    BY DEF Idle, Record, Ended
  <1>3. TypeOK
    BY <1>1, <1>2 DEF Init, TypeOK, Record
  <1>4. Counts
    BY LimitsAssumption DEF Init, Counts, Idle
  <1>5. QED
    BY <1>3, <1>4 DEF SendInv

(* A step that only changes the record of r keeps SendInv if the record    *)
(* stays right. *)
RecordOK(x) ==
  /\ x \in Record
  /\ x.pc \in {"posted", "answered"} => x.tries \in 1..2
  /\ x.pc \in {"read", "retry"} =>
       x.tries = 1 /\ x.fresh \in Credentials \cup {Unreadable}
  /\ x.pc = "answered" => x.status \in {200, 401, 403, 500}
  /\ x.pc = "retry" => x.fresh \in Credentials
  /\ x.pc = "done" => x.status \in {200, 500}

LEMMA OneRecord ==
  ASSUME SendInv, NEW r \in Requests, NEW x, RecordOK(x),
         req' = [req EXCEPT ![r] = x],
         authHeader' \in Credentials, faults' \in Nat,
         UNCHANGED <<accepted, up, cookieFile, restarts>>,
         alone' \in [Requests -> BOOLEAN], steady' \in [Requests -> BOOLEAN]
  PROVE  SendInv'
  <1>1. req' \in [Requests -> Record]
    BY DEF SendInv, TypeOK, RecordOK, Record
  <1>2. TypeOK'
    BY <1>1 DEF SendInv, TypeOK, Record, Credentials
  <1>3. \A q \in Requests : q # r => req'[q] = req[q]
    BY DEF SendInv, TypeOK
  <1>4. req'[r] = x
    BY DEF SendInv, TypeOK
  <1>5. Counts'
    BY <1>3, <1>4 DEF SendInv, Counts, RecordOK, Credentials
  <1>6. QED
    BY <1>2, <1>5 DEF SendInv

(* A step of one request in send. *)
LEMMA PostKeeps ==
  ASSUME SendInv, NEW r \in Requests, NEW try \in 1..2, Post(r, try),
         UNCHANGED <<authHeader, node>>,
         alone' \in [Requests -> BOOLEAN], steady' \in [Requests -> BOOLEAN]
  PROVE  SendInv'
  <1> DEFINE x == [pc |-> "posted", tries |-> try, sent |-> authHeader, status |-> 0, fresh |-> 0]
  <1>1. authHeader \in Credentials /\ faults \in Nat
    BY DEF SendInv, TypeOK
  <1>2. x \in Record /\ x.pc = "posted" /\ x.tries = try
    BY <1>1 DEF Record, Ended
  <1>3. RecordOK(x)
    BY <1>2 DEF RecordOK
  <1>4. req' = [req EXCEPT ![r] = x]
    BY DEF Post
  <1> HIDE DEF x
  <1>5. QED
    BY <1>1, <1>3, <1>4, OneRecord DEF node

LEMMA StartKeeps ==
  ASSUME SendInv, NEW r \in Requests, Start(r)
  PROVE  SendInv'
  <1>1. alone' \in [Requests -> BOOLEAN]
    <2>1. /\ alone \in [Requests -> BOOLEAN]
          /\ alone' = [q \in Requests |-> IF q = r THEN InSend = {}
                                           ELSE alone[q] /\ q \notin InSend]
      BY DEF SendInv, TypeOK, Start
    <2>2. QED
      BY <2>1, Zenon
  <1>2. steady' \in [Requests -> BOOLEAN]
    <2>1. /\ steady \in [Requests -> BOOLEAN]
          /\ steady' = [steady EXCEPT ![r] = up /\ cookieFile = accepted]
          /\ up \in BOOLEAN
      BY DEF SendInv, TypeOK, Start
    <2>2. (up /\ cookieFile = accepted) \in BOOLEAN
      BY <2>1
    <2>3. QED
      BY <2>1, <2>2
  <1>3. Post(r, 1) /\ UNCHANGED <<authHeader, node>>
    BY DEF Start
  <1>4. QED
    BY <1>1, <1>2, <1>3, PostKeeps

LEMMA AnswerKeeps ==
  ASSUME SendInv, NEW r \in Requests, NEW status \in {200, 401, 403, 500},
         NodeAnswers(r, status)
  PROVE  SendInv'
  <1> DEFINE x == [pc |-> "answered", tries |-> req[r].tries, sent |-> req[r].sent,
               status |-> status, fresh |-> 0]
  <1>1. req[r] \in Record /\ req[r].pc = "posted" /\ req[r].tries \in 1..2
    BY DEF SendInv, TypeOK, Counts, NodeAnswers, At, Record
  <1>2. RecordOK(x)
    BY <1>1 DEF Record, RecordOK, Ended
  <1>3. req' = [req EXCEPT ![r] = x]
    BY DEF NodeAnswers
  <1>4. faults' \in Nat
    BY DEF NodeAnswers, SendInv, TypeOK
  <1>5. /\ UNCHANGED <<authHeader, accepted, up, cookieFile, restarts>>
        /\ alone' = alone /\ steady' = steady
    BY DEF NodeAnswers, history
  <1> HIDE DEF x
  <1>6. /\ authHeader' \in Credentials
        /\ alone' \in [Requests -> BOOLEAN] /\ steady' \in [Requests -> BOOLEAN]
    BY <1>5 DEF SendInv, TypeOK
  <1>7. QED
    BY <1>2, <1>3, <1>4, <1>5, <1>6, OneRecord

LEMMA FailKeeps ==
  ASSUME SendInv, NEW r \in Requests, TransportFails(r)
  PROVE  SendInv'
  <1> DEFINE x == [Idle EXCEPT !.pc = "failed"]
  <1>1. RecordOK(x)
    BY DEF Record, RecordOK, Ended, Idle
  <1>2. req' = [req EXCEPT ![r] = x]
    BY DEF TransportFails
  <1>3. faults' \in Nat
    BY DEF TransportFails, SendInv, TypeOK
  <1>4. /\ UNCHANGED <<authHeader, accepted, up, cookieFile, restarts>>
        /\ alone' = alone /\ steady' = steady
    BY DEF TransportFails, history
  <1> HIDE DEF x
  <1>5. /\ authHeader' \in Credentials
        /\ alone' \in [Requests -> BOOLEAN] /\ steady' \in [Requests -> BOOLEAN]
    BY <1>4 DEF SendInv, TypeOK
  <1>6. QED
    BY <1>1, <1>2, <1>3, <1>4, <1>5, OneRecord

(* What Returns, ReadCookie and Refresh leave alone. *)
LEMMA QuietKeeps ==
  ASSUME SendInv, NEW r \in Requests, NEW x, RecordOK(x),
         req' = [req EXCEPT ![r] = x], authHeader' \in Credentials,
         UNCHANGED <<node, history>>
  PROVE  SendInv'
  <1>1. faults' \in Nat /\ UNCHANGED <<accepted, up, cookieFile, restarts>>
    BY DEF node, SendInv, TypeOK
  <1>2. alone' \in [Requests -> BOOLEAN] /\ steady' \in [Requests -> BOOLEAN]
    BY DEF history, SendInv, TypeOK
  <1>3. QED
    BY <1>1, <1>2, OneRecord

LEMMA SendingKeeps ==
  ASSUME SendInv, NEW r \in Requests, Returns(r) \/ ReadCookie(r) \/ Refresh(r) \/ Retry(r)
  PROVE  SendInv'
  <1>1. /\ req[r] \in Record /\ authHeader \in Credentials
        /\ cookieFile \in Credentials \cup {Unreadable}
    BY DEF SendInv, TypeOK, Record
  <1>2. CASE Returns(r)
    <2> DEFINE x == [pc |-> IF req[r].status \in {401, 403} THEN "refused" ELSE "done",
                     tries |-> 0, sent |-> req[r].sent, status |-> req[r].status,
                     fresh |-> req[r].fresh]
    <2>1. req[r].status \in {200, 401, 403, 500}
      BY <1>2 DEF SendInv, Counts, Returns, At
    <2>2. RecordOK(x)
      BY <1>1, <2>1 DEF Record, RecordOK, Ended, Idle
    <2>3. req' = [req EXCEPT ![r] = x] /\ UNCHANGED <<authHeader, node, history>>
      BY <1>2 DEF Returns
    <2> HIDE DEF x
    <2>4. QED
      BY <1>1, <2>2, <2>3, QuietKeeps
  <1>3. CASE ReadCookie(r)
    <2> DEFINE x == [pc |-> "read", tries |-> req[r].tries, sent |-> req[r].sent,
                     status |-> req[r].status, fresh |-> cookieFile]
    <2>1. req[r].tries = 1
      BY <1>3 DEF ReadCookie, MayRefresh
    <2>2. RecordOK(x)
      BY <1>1, <2>1 DEF Record, RecordOK, Ended
    <2>3. req' = [req EXCEPT ![r] = x] /\ UNCHANGED <<authHeader, node, history>>
      BY <1>3 DEF ReadCookie
    <2> HIDE DEF x
    <2>4. QED
      BY <1>1, <2>2, <2>3, QuietKeeps
  <1>4. CASE Refresh(r)
    <2> DEFINE x == [req[r] EXCEPT !.pc = "retry"]
               y == [req[r] EXCEPT !.pc = "refused"]
    <2>1. req[r].tries = 1 /\ req[r].fresh \in Credentials \cup {Unreadable}
      BY <1>4 DEF SendInv, Counts, Refresh, At
    <2>2. CASE req[r].fresh \notin {Unreadable, Compared(r)}
      <3>1. req[r].fresh \in Credentials
        BY <2>1, <2>2
      <3>2. RecordOK(x)
        BY <1>1, <2>1, <3>1 DEF Record, RecordOK, Ended
      <3>3. /\ req' = [req EXCEPT ![r] = x] /\ authHeader' = req[r].fresh
            /\ UNCHANGED <<node, history>>
        BY <1>4, <2>2 DEF Refresh, Installed
      <3> HIDE DEF x
      <3>4. QED
        BY <3>1, <3>2, <3>3, QuietKeeps
    <2>3. CASE req[r].fresh \in {Unreadable, Compared(r)}
      <3>1. RecordOK(y)
        BY <1>1 DEF Record, RecordOK, Ended
      <3>2. req' = [req EXCEPT ![r] = y] /\ UNCHANGED <<authHeader, node, history>>
        BY <1>4, <2>3 DEF Refresh
      <3> HIDE DEF y
      <3>3. QED
        BY <1>1, <3>1, <3>2, QuietKeeps
    <2>4. QED
      BY <2>2, <2>3
  <1>5. CASE Retry(r)
    <2>1. req[r].tries = 1
      BY <1>5 DEF SendInv, Counts, Retry, At
    <2>2. Post(r, 2) /\ UNCHANGED <<authHeader, node, history>>
      BY <1>5, <2>1 DEF Retry
    <2>3. alone' \in [Requests -> BOOLEAN] /\ steady' \in [Requests -> BOOLEAN]
      BY <2>2 DEF history, SendInv, TypeOK
    <2>4. QED
      BY <2>2, <2>3, PostKeeps
  <1>6. QED
    BY <1>2, <1>3, <1>4, <1>5

LEMMA RestartKeeps ==
  ASSUME SendInv, NodeStops \/ NodeStarts
  PROVE  SendInv'
  <1>1. steady' \in [Requests -> BOOLEAN] /\ UNCHANGED <<req, authHeader, faults, alone>>
    BY DEF NodeStops, NodeStarts, Unsteady
  <1>2. CASE NodeStops
    <2>1. TypeOK'
      <3>1. cookieFile' \in {cookieFile, Unreadable} /\ accepted' = accepted
        BY <1>2 DEF NodeStops
      <3>2. cookieFile' \in Credentials \cup {Unreadable}
        BY <3>1 DEF SendInv, TypeOK
      <3>3. restarts' \in Nat
        <4>1. restarts' = restarts + 1
          BY <1>2 DEF NodeStops
        <4>2. QED
          BY <4>1 DEF SendInv, Counts
      <3>4. up' \in BOOLEAN
        BY <1>2 DEF NodeStops
      <3>5. QED
        BY <1>1, <3>1, <3>2, <3>3, <3>4 DEF SendInv, TypeOK, Credentials
    <2>2. Counts'
      BY <1>1, <1>2, LimitsAssumption DEF NodeStops, SendInv, Counts, Credentials
    <2>3. QED
      BY <2>1, <2>2 DEF SendInv
  <1>3. CASE NodeStarts
    <2>1. accepted' \in Credentials /\ cookieFile' = accepted' /\ restarts' = restarts
      BY <1>3, LimitsAssumption DEF NodeStarts, SendInv, Counts, Credentials
    <2>2. TypeOK'
      BY <1>1, <1>3, <2>1 DEF NodeStarts, SendInv, TypeOK, Credentials
    <2>3. Counts'
      BY <1>1, <1>3, LimitsAssumption DEF NodeStarts, SendInv, Counts, Credentials
    <2>4. QED
      BY <2>2, <2>3 DEF SendInv
  <1>4. QED
    BY <1>2, <1>3

LEMMA SendStep == SendInv /\ [Next]_vars => SendInv'
  <1> SUFFICES ASSUME SendInv, [Next]_vars PROVE SendInv'
    OBVIOUS
  <1>1. ASSUME NEW r \in Requests, Start(r) PROVE SendInv'
    BY <1>1, StartKeeps
  <1>2. ASSUME NEW r \in Requests, NEW status \in {200, 401, 403, 500},
               NodeAnswers(r, status)
        PROVE  SendInv'
    BY <1>2, AnswerKeeps
  <1>3. ASSUME NEW r \in Requests, TransportFails(r) PROVE SendInv'
    BY <1>3, FailKeeps
  <1>4. ASSUME NEW r \in Requests,
               Returns(r) \/ ReadCookie(r) \/ Refresh(r) \/ Retry(r)
        PROVE  SendInv'
    BY <1>4, SendingKeeps
  <1>5. CASE NodeStops \/ NodeStarts
    BY <1>5, RestartKeeps
  <1>6. CASE UNCHANGED vars
    BY <1>6 DEF vars, node, history, SendInv, TypeOK, Counts, Credentials
  <1>7. QED
    BY <1>1, <1>2, <1>3, <1>4, <1>5, <1>6 DEF Next, Progress

(* Every variable of send keeps its type: no request is posted more than   *)
(* twice, and the header is always one the node has written (client.ts     *)
(* 218-230).                                                               *)
THEOREM SendTyped == Spec => []TypeOK
  <1>1. SendInv => TypeOK
    BY DEF SendInv
  <1>2. QED
    BY <1>1, SendInit, SendStep, PTL DEF Spec

-----------------------------------------------------------------------------
(* Refused for cause *)

(* What a request that nothing disturbs finds at each phase: the first 401 *)
(* can only mean that the client's header is old, the file then holds the  *)
(* node's credentials, and the second post carries them.                   *)
Undisturbed(x, header, current) ==
  /\ x.pc = "posted" => x.sent = header /\ (x.tries = 2 => header = current)
  /\ x.pc = "answered" /\ x.status = 401 => x.tries = 1 /\ header # current
  /\ x.pc = "read" => x.fresh = current /\ header # current
  /\ x.pc = "retry" => header = current
  /\ x.pc = "refused" => x.status # 401

CauseInv ==
  /\ \A r \in Requests : steady[r] => up /\ cookieFile = accepted
  /\ \A r \in Requests : alone[r] /\ r \in InSend => InSend = {r}
  /\ \A r \in Requests : alone[r] /\ steady[r] => Undisturbed(req[r], authHeader, accepted)

(* Whoever moves in send is not alone with anyone else who is there. *)
LEMMA OneMoves ==
  ASSUME SendInv, CauseInv, NEW r \in InSend, NEW x,
         req' = [req EXCEPT ![r] = x],
         UNCHANGED <<accepted, up, cookieFile, history>>,
         alone[r] /\ steady[r] => Undisturbed(x, authHeader', accepted)
  PROVE  CauseInv'
  <1>1. r \in Requests /\ req \in [Requests -> Record]
    BY DEF InSend, SendInv, TypeOK, Record
  <1>2. req'[r] = x /\ \A q \in Requests : q # r => req'[q] = req[q]
    BY <1>1
  <1>3. InSend' \subseteq InSend
    BY <1>2 DEF InSend
  <1>4. \A q \in Requests : alone[q] /\ q # r => req[q].pc \in Ended
    BY DEF CauseInv, InSend
  <1>5. \A q \in Requests : alone'[q] /\ q \in InSend' => InSend' = {q}
    BY <1>3 DEF CauseInv, history
  <1>6. ASSUME NEW q \in Requests, alone'[q], steady'[q]
        PROVE  Undisturbed(req[q], authHeader, accepted)
    BY <1>6 DEF CauseInv, history
  <1>7. ASSUME NEW q \in Requests, alone'[q], steady'[q]
        PROVE  Undisturbed(req'[q], authHeader', accepted')
    <2>1. CASE q = r
      BY <1>2, <1>7, <2>1 DEF history
    <2>2. CASE q # r
      <3>1. req'[q] = req[q] /\ req[q].pc \in Ended
        BY <1>2, <1>4, <1>7, <2>2 DEF history
      <3>2. QED
        BY <1>6, <1>7, <3>1 DEF Undisturbed, Ended
    <2>3. QED
      BY <2>1, <2>2
  <1>8. \A q \in Requests : steady'[q] => up' /\ cookieFile' = accepted'
    BY DEF CauseInv, history
  <1>9. QED
    BY <1>5, <1>7, <1>8 DEF CauseInv

LEMMA StartAlone ==
  ASSUME SendInv, CauseInv, NEW r \in Requests, Start(r)
  PROVE  CauseInv'
  <1> DEFINE x == [pc |-> "posted", tries |-> 1, sent |-> authHeader, status |-> 0, fresh |-> 0]
  <1>1. /\ req \in [Requests -> Record] /\ steady \in [Requests -> BOOLEAN]
        /\ req' = [req EXCEPT ![r] = x] /\ r \notin InSend
        /\ steady' = [steady EXCEPT ![r] = up /\ cookieFile = accepted]
        /\ UNCHANGED <<authHeader, accepted, up, cookieFile>>
    BY DEF Start, Post, node, InSend, SendInv, TypeOK, Record
  <1>2. alone' = [q \in Requests |-> IF q = r THEN InSend = {} ELSE alone[q] /\ q \notin InSend]
    BY DEF Start
  <1>3. /\ req'[r] = x /\ x.pc = "posted"
        /\ \A q \in Requests : q # r => req'[q] = req[q]
    BY <1>1
  <1>4. InSend' = InSend \cup {r}
    BY <1>3 DEF InSend, Ended
  <1>5. alone'[r] <=> InSend = {}
    BY <1>2, Zenon
  <1>6. \A q \in Requests : q # r => (alone'[q] <=> alone[q] /\ q \notin InSend)
    BY <1>2, Zenon
  <1>7. \A q \in Requests : alone'[q] /\ q \in InSend' => InSend' = {q}
    BY <1>4, <1>5, <1>6
  <1>8. /\ \A q \in Requests : q # r => (steady'[q] <=> steady[q])
        /\ steady'[r] <=> up /\ cookieFile = accepted
    BY <1>1, Zenon
  <1>9. \A q \in Requests : steady'[q] => up' /\ cookieFile' = accepted'
    BY <1>1, <1>8 DEF CauseInv
  <1>10. \A q \in Requests : q # r /\ alone'[q] /\ steady'[q] =>
             Undisturbed(req'[q], authHeader', accepted')
    BY <1>1, <1>3, <1>6, <1>8 DEF CauseInv
  <1>11. Undisturbed(x, authHeader', accepted')
    BY <1>1 DEF Undisturbed
  <1>12. QED
    BY <1>3, <1>7, <1>9, <1>10, <1>11 DEF CauseInv

(* An undisturbed request is answered by a running node, reads credentials *)
(* it accepts, and carries them from then on.                              *)
LEMMA ProgressAlone ==
  ASSUME SendInv, CauseInv, NEW r \in Requests, Progress(r)
  PROVE  CauseInv'
  <1>1. req[r] \in Record /\ accepted \in Nat /\ Unreadable \notin Nat
    BY CredentialsAssumption, LimitsAssumption DEF SendInv, TypeOK, Record, Credentials
  <1>2. r \in InSend
    BY DEF Progress, NodeAnswers, Returns, ReadCookie, Refresh, Retry, At, InSend, Ended
  <1>3. /\ steady[r] => up /\ cookieFile = accepted
        /\ alone[r] /\ steady[r] => Undisturbed(req[r], authHeader, accepted)
    BY DEF CauseInv
  <1>4. ASSUME NEW status \in {200, 401, 403, 500}, NodeAnswers(r, status) PROVE CauseInv'
    <2> DEFINE x == [pc |-> "answered", tries |-> req[r].tries, sent |-> req[r].sent,
                     status |-> status, fresh |-> 0]
    <2>1. /\ req' = [req EXCEPT ![r] = x] /\ authHeader' = authHeader
          /\ UNCHANGED <<accepted, up, cookieFile, history>>
      BY <1>4 DEF NodeAnswers
    <2>2. /\ req[r].pc = "posted" /\ req[r].tries \in 1..2
          /\ status = 401 => req[r].sent # accepted
      BY <1>4 DEF NodeAnswers, At, SendInv, Counts
    <2>3. alone[r] /\ steady[r] => Undisturbed(x, authHeader, accepted)
      BY <1>3, <2>2 DEF Undisturbed
    <2> HIDE DEF x
    <2>4. QED
      BY <1>2, <2>1, <2>3, OneMoves
  <1>5. CASE Returns(r)
    <2> DEFINE x == [pc |-> IF req[r].status \in {401, 403} THEN "refused" ELSE "done",
                     tries |-> 0, sent |-> req[r].sent, status |-> req[r].status,
                     fresh |-> req[r].fresh]
    <2>1. /\ req' = [req EXCEPT ![r] = x] /\ authHeader' = authHeader
          /\ UNCHANGED <<accepted, up, cookieFile, history>>
      BY <1>5 DEF Returns, node
    <2>2. req[r].pc = "answered" /\ ~(req[r].status = 401 /\ req[r].tries = 1)
      BY <1>5 DEF Returns, At, MayRefresh
    <2>3. alone[r] /\ steady[r] => Undisturbed(x, authHeader, accepted)
      BY <1>3, <2>2 DEF Undisturbed
    <2> HIDE DEF x
    <2>4. QED
      BY <1>2, <2>1, <2>3, OneMoves
  <1>6. CASE ReadCookie(r)
    <2> DEFINE x == [pc |-> "read", tries |-> req[r].tries, sent |-> req[r].sent,
                     status |-> req[r].status, fresh |-> cookieFile]
    <2>1. /\ req' = [req EXCEPT ![r] = x] /\ authHeader' = authHeader
          /\ UNCHANGED <<accepted, up, cookieFile, history>>
      BY <1>6 DEF ReadCookie, node
    <2>2. req[r].pc = "answered" /\ req[r].status = 401
      BY <1>6 DEF ReadCookie, At, MayRefresh
    <2>3. alone[r] /\ steady[r] => Undisturbed(x, authHeader, accepted)
      BY <1>3, <2>2 DEF Undisturbed
    <2> HIDE DEF x
    <2>4. QED
      BY <1>2, <2>1, <2>3, OneMoves
  <1>7. CASE Refresh(r)
    <2> DEFINE x == [req[r] EXCEPT !.pc = "retry"]
               y == [req[r] EXCEPT !.pc = "refused"]
    <2>1. req[r].pc = "read"
      BY <1>7 DEF Refresh, At
    <2>2. /\ UNCHANGED <<accepted, up, cookieFile, history>>
          /\ \/ req' = [req EXCEPT ![r] = x] /\ authHeader' = req[r].fresh
             \/ /\ req' = [req EXCEPT ![r] = y]
                /\ req[r].fresh \in {Unreadable, authHeader}
      BY <1>7 DEF Refresh, Installed, Compared, node
    <2>3. alone[r] /\ steady[r] =>
            req[r].fresh = accepted /\ req[r].fresh \notin {Unreadable, authHeader}
      BY <1>1, <1>3, <2>1 DEF Undisturbed
    <2>4. x.pc = "retry"
      BY <1>1 DEF Record
    <2>5. alone[r] /\ steady[r] => Undisturbed(x, accepted, accepted)
      BY <2>4 DEF Undisturbed
    <2> HIDE DEF x, y
    <2>6. QED
      BY <1>2, <2>2, <2>3, <2>5, OneMoves
  <1>8. CASE Retry(r)
    <2> DEFINE x == [pc |-> "posted", tries |-> req[r].tries + 1, sent |-> authHeader,
                     status |-> 0, fresh |-> 0]
    <2>1. /\ req' = [req EXCEPT ![r] = x] /\ authHeader' = authHeader
          /\ UNCHANGED <<accepted, up, cookieFile, history>>
      BY <1>8 DEF Retry, Post, node
    <2>2. req[r].pc = "retry"
      BY <1>8 DEF Retry, At
    <2>3. alone[r] /\ steady[r] => Undisturbed(x, authHeader, accepted)
      BY <1>3, <2>2 DEF Undisturbed
    <2> HIDE DEF x
    <2>4. QED
      BY <1>2, <2>1, <2>3, OneMoves
  <1>9. QED
    BY <1>4, <1>5, <1>6, <1>7, <1>8 DEF Progress

LEMMA CauseStep == SendInv /\ CauseInv /\ [Next]_vars => CauseInv'
  <1> SUFFICES ASSUME SendInv, CauseInv, [Next]_vars PROVE CauseInv'
    OBVIOUS
  <1>1. ASSUME NEW r \in Requests, TransportFails(r) PROVE CauseInv'
    <2> DEFINE x == [Idle EXCEPT !.pc = "failed"]
    <2>1. /\ req' = [req EXCEPT ![r] = x] /\ authHeader' = authHeader
          /\ UNCHANGED <<accepted, up, cookieFile, history>>
      BY <1>1 DEF TransportFails
    <2>2. r \in InSend
      BY <1>1 DEF TransportFails, At, InSend, Ended
    <2>3. Undisturbed(x, authHeader, accepted)
      BY DEF Undisturbed, Idle
    <2> HIDE DEF x
    <2>4. QED
      BY <2>1, <2>2, <2>3, OneMoves
  <1>2. CASE NodeStops \/ NodeStarts
    <2>1. /\ steady' = [r \in Requests |-> FALSE] /\ req' = req /\ alone' = alone
      BY <1>2 DEF NodeStops, NodeStarts, Unsteady
    <2>2. InSend' = InSend
      BY <2>1 DEF InSend
    <2>3. QED
      BY <2>1, <2>2 DEF CauseInv
  <1>3. CASE UNCHANGED vars
    BY <1>3 DEF vars, node, history, CauseInv, InSend
  <1>4. QED
    BY <1>1, <1>2, <1>3, StartAlone, ProgressAlone DEF Next

(* A request that no other overlaps, while the node runs and its cookie    *)
(* file can be read, is not refused for stale credentials, whatever        *)
(* earlier requests and restarts left in the header (client.ts 217-231).   *)
THEOREM NoneRefusedInVain == Spec => []RefusedOnlyForCause
  <1>1. Init => CauseInv
    <2> SUFFICES ASSUME Init PROVE CauseInv
      OBVIOUS
    <2>1. \A r \in Requests : alone[r] = FALSE /\ steady[r] = FALSE
      BY DEF Init
    <2>2. QED
      BY <2>1 DEF CauseInv
  <1>2. CauseInv => RefusedOnlyForCause
    BY DEF CauseInv, RefusedOnlyForCause, Unauthorized, At, Undisturbed
  <1>3. QED
    BY <1>1, <1>2, SendInit, SendStep, CauseStep, PTL DEF Spec

-----------------------------------------------------------------------------
(* Calls and batches only add to send *)

LEMMA ClientStepSends == ClientNext => [Next]_vars
  BY DEF ClientNext, Next, Request, Proceeds, Progress, Answered, Lost, Sending,
     Settle, NodeRestarts

(* Each behaviour of calls and batches is one of send, as RpcAuth has it,  *)
(* so that what holds of every request in send holds of theirs (client.ts  *)
(* 243, 290).                                                              *)
THEOREM ClientUsesSend == ClientSpec => Spec
  <1>1. ClientInit => Init
    BY DEF ClientInit
  <1>2. [ClientNext]_allVars => [Next]_vars
    <2>1. UNCHANGED allVars => UNCHANGED vars
      BY DEF allVars
    <2>2. QED
      BY <2>1, ClientStepSends
  <1>3. QED
    BY <1>1, <1>2, PTL DEF ClientSpec, Spec

-----------------------------------------------------------------------------
(* What a body can say of a call *)

LEMMA WidthIs == \A r : Width(r) \in {1, 2} /\ (r \notin Batches => Width(r) = 1)
  BY DEF Width

(* No element carries the id of a call with another answer than its own.   *)
LEMMA Wire ==
  ASSUME NEW e \in InAnArray \cup OnTheWire, NEW r \in Requests, NEW i \in {1, 2},
         e.id = <<r, i>>
  PROVE  e.says = said[r][i]
  <1>1. <<r, i>> \in Requests \X {1, 2}
    OBVIOUS
  <1>2. Foreign # <<r, i>> /\ NotAnObject # <<r, i>>
    BY <1>1, IdsDiffer
  <1>3. e \in OnTheWire
    BY <1>2 DEF InAnArray
  <1>4. PICK c \in Requests \X {1, 2} : e = [id |-> c, says |-> said[c[1]][c[2]]]
    BY <1>2, <1>3 DEF OnTheWire
  <1>5. c = <<r, i>>
    BY <1>4
  <1>6. QED
    BY <1>4, <1>5

(* What the caller is given of a body. *)
Given(r, o) ==
  /\ \A i \in DOMAIN o.took : /\ i \in 1..Width(r)
                              /\ o.took[i].id = <<r, i>>
                              /\ o.took[i].says = said[r][i]
  /\ o.whole => DOMAIN o.took = 1..Width(r)

LEMMA CallGiven ==
  ASSUME NEW r \in Requests, r \notin Batches, NEW body \in Bodies(r)
  PROVE  Given(r, OutcomeOf(r, body))
  <1> DEFINE o == OutcomeOf(r, body)
             c == CallOutcome(r, body)
  <1>1. /\ Width(r) = 1 /\ ids(r)[1] = <<r, 1>>
    BY WidthIs DEF ids
  <1>2. o.took = c.took /\ (o.whole => IsWhole(r, body) /\ req[r].status = 200)
    BY DEF OutcomeOf
  <1>3. ASSUME body.shape = "object", OwnReply(r, body.els[1])
        PROVE  Given(r, o)
    <2>1. PICK e \in OnTheWire : body.els = <<e>>
      BY <1>3 DEF Bodies
    <2>2. e.id = <<r, 1>>
      BY <1>1, <1>3, <2>1 DEF OwnReply
    <2>3. e.says = said[r][1]
      BY <2>2, Wire
    <2>4. c.took = <<e>> \/ c.took = <<>>
      BY <1>3, <2>1 DEF CallOutcome, Takes, Is
    <2>5. req[r].status = 200 => c.took = <<e>>
      BY <1>3, <2>1 DEF CallOutcome, Takes, Is
    <2> HIDE DEF o, c
    <2>6. QED
      BY <1>1, <1>2, <2>2, <2>3, <2>4, <2>5 DEF Given
  <1>4. ASSUME ~(body.shape = "object" /\ OwnReply(r, body.els[1]))
        PROVE  Given(r, o)
    <2>1. c.took = <<>>
      BY <1>4 DEF CallOutcome, Takes, Is
    <2>2. ~IsWhole(r, body)
      <3> SUFFICES ASSUME IsWhole(r, body) PROVE FALSE
        OBVIOUS
      <3>1. body.shape = "object"
        BY DEF IsWhole
      <3>2. PICK e \in OnTheWire : body.els = <<e>>
        BY <3>1 DEF Bodies
      <3>3. {x.id : x \in ToSet(body.els)} = ToSet(ids(r))
        BY DEF IsWhole
      <3>4. ToSet(body.els) = {e}
        BY <3>2 DEF ToSet
      <3>5. ToSet(ids(r)) = {<<r, 1>>}
        BY <1>1 DEF ToSet, ids
      <3>6. e.id = <<r, 1>>
        BY <3>3, <3>4, <3>5
      <3>7. QED
        BY <1>1, <1>4, <3>1, <3>2, <3>6 DEF OwnReply
    <2> HIDE DEF o, c
    <2>3. QED
      BY <1>2, <2>1, <2>2 DEF Given
  <1>5. QED
    BY <1>3, <1>4

(* An array of a body is a sequence of elements. *)
LEMMA ArrayIsSeq ==
  ASSUME NEW r \in Requests, NEW body \in Bodies(r), body.shape = "array"
  PROVE  /\ Len(body.els) \in Nat /\ DOMAIN body.els = 1..Len(body.els)
         /\ \A k \in DOMAIN body.els : body.els[k] \in InAnArray
  <1>1. body.els \in BoundedSeq(InAnArray, MaxElements)
    BY DEF Bodies
  <1>2. PICK m \in 0..MaxElements : body.els \in [1..m -> InAnArray]
    BY <1>1 DEF BoundedSeq, SeqOf
  <1>3. m \in Nat
    BY ElementsAssumption
  <1>4. body.els \in Seq(InAnArray)
    BY <1>2, <1>3, SeqDef
  <1>5. QED
    BY <1>4, LenProperties, ElementOfSeq

LEMMA MaxOfTwo ==
  ASSUME NEW S, S \subseteq {1, 2}, S # {}
  PROVE  Max(S) \in S
  <1>1. \E x \in S : \A y \in S : x >= y
    <2>1. CASE 2 \in S
      <3>1. \A y \in S : 2 >= y
        OBVIOUS
      <3>2. QED
        BY <2>1, <3>1
    <2>2. CASE 2 \notin S
      <3>1. S = {1}
        BY <2>2
      <3>2. QED
        BY <3>1
    <2>3. QED
      BY <2>1, <2>2
  <1>2. QED
    BY <1>1 DEF Max

(* The array that is taken: as many elements as calls, one for each. *)
Usable(r, els) ==
  /\ Len(els) = Width(r)
  /\ \A k \in DOMAIN els : els[k].id # NotAnObject
  /\ \A i \in 1..Width(r) : Places(r, els, i) # {}

LEMMA WholeIsUsable ==
  ASSUME NEW r \in Batches, NEW body \in Bodies(r), IsWhole(r, body)
  PROVE  body.shape = "array" /\ Usable(r, body.els)
  <1>1. /\ body.shape = "array" /\ Len(body.els) = Width(r)
        /\ {e.id : e \in ToSet(body.els)} = ToSet(ids(r))
    BY DEF IsWhole
  <1>2. r \in Requests
    BY BatchesAreRequests
  <1>3. ToSet(ids(r)) = {ids(r)[i] : i \in 1..Width(r)}
    BY DEF ToSet, ids
  <1>4. \A k \in DOMAIN body.els : body.els[k].id \in ToSet(ids(r))
    BY <1>1 DEF ToSet
  <1>5. NotAnObject \notin ToSet(ids(r))
    BY <1>2, <1>3, IdsDiffer, WidthIs DEF ids
  <1>6. ASSUME NEW i \in 1..Width(r) PROVE Places(r, body.els, i) # {}
    <2>1. ids(r)[i] \in {e.id : e \in ToSet(body.els)}
      BY <1>1, <1>3
    <2>2. PICK k \in DOMAIN body.els : body.els[k].id = ids(r)[i]
      BY <2>1 DEF ToSet
    <2>3. QED
      BY <2>2 DEF Places
  <1>7. QED
    BY <1>1, <1>4, <1>5, <1>6 DEF Usable

LEMMA ArrayGiven ==
  ASSUME NEW r \in Batches, NEW body \in Bodies(r), body.shape = "array",
         Usable(r, body.els), NEW i \in 1..Width(r)
  PROVE  /\ body.els[Max(Places(r, body.els, i))].id = <<r, i>>
         /\ body.els[Max(Places(r, body.els, i))].says = said[r][i]
  <1>1. r \in Requests /\ Width(r) = 2 /\ i \in {1, 2} /\ ids(r)[i] = <<r, i>>
    BY BatchesAreRequests DEF Width, ids
  <1>2. DOMAIN body.els = {1, 2}
    BY <1>1, ArrayIsSeq DEF Usable
  <1>3. Places(r, body.els, i) \subseteq {1, 2} /\ Places(r, body.els, i) # {}
    BY <1>2 DEF Places, Usable
  <1>4. Max(Places(r, body.els, i)) \in Places(r, body.els, i)
    BY <1>3, MaxOfTwo
  <1>5. PICK k \in Places(r, body.els, i) : k = Max(Places(r, body.els, i))
    BY <1>4
  <1>6. k \in DOMAIN body.els /\ body.els[k].id = <<r, i>>
    BY <1>1 DEF Places
  <1>7. body.els[k] \in InAnArray
    BY <1>1, <1>6, ArrayIsSeq
  <1>8. body.els[k].says = said[r][i]
    BY <1>1, <1>6, <1>7, Wire
  <1>9. QED
    BY <1>5, <1>6, <1>8

LEMMA BatchGiven ==
  ASSUME NEW r \in Batches, NEW body \in Bodies(r)
  PROVE  Given(r, OutcomeOf(r, body))
  <1> DEFINE o == OutcomeOf(r, body)
             c == BatchOutcome(r, body)
  <1>1. o.took = c.took /\ (o.whole => IsWhole(r, body) /\ req[r].status = 200)
    BY DEF OutcomeOf
  <1>2. ASSUME body.shape = "array", req[r].status = 200, Usable(r, body.els)
        PROVE  Given(r, o)
    <2> DEFINE f == [i \in 1..Width(r) |-> body.els[Max(Places(r, body.els, i))]]
    <2>1. c.took = f
      <3>1. c = ArrayOutcome(r, body.els)
        BY <1>2 DEF BatchOutcome
      <3>2. ArrayOutcome(r, body.els) = Takes("resolved", f)
        BY <1>2 DEF ArrayOutcome, Usable
      <3>3. QED
        BY <3>1, <3>2 DEF Takes
    <2>2. DOMAIN f = 1..Width(r)
      OBVIOUS
    <2>3. \A i \in 1..Width(r) : f[i].id = <<r, i>> /\ f[i].says = said[r][i]
      BY <1>2, ArrayGiven
    <2> HIDE DEF f, o, c
    <2>4. QED
      BY <1>1, <2>1, <2>2, <2>3 DEF Given
  <1>3. ASSUME ~(body.shape = "array" /\ req[r].status = 200 /\ Usable(r, body.els))
        PROVE  Given(r, o)
    <2>1. c.took = <<>>
      <3>1. CASE body.shape # "array" \/ req[r].status # 200
        BY <3>1 DEF BatchOutcome, Is, Takes
      <3>2. CASE body.shape = "array" /\ req[r].status = 200 /\ ~Usable(r, body.els)
        <4>1. c = ArrayOutcome(r, body.els)
          BY <3>2 DEF BatchOutcome
        <4>2. ArrayOutcome(r, body.els) = Is("rejected")
          BY <3>2 DEF ArrayOutcome, Usable
        <4>3. QED
          BY <4>1, <4>2 DEF Is, Takes
      <3>3. QED
        BY <1>3, <3>1, <3>2
    <2>2. ~o.whole
      BY <1>1, <1>3, WholeIsUsable
    <2> HIDE DEF o, c
    <2>3. QED
      BY <1>1, <2>1, <2>2 DEF Given
  <1>4. QED
    BY <1>2, <1>3

-----------------------------------------------------------------------------
(* Calls and batches: the inductive invariant *)

(* How often the node has run a request, by where it is; and it has an     *)
(* outcome only once send returned.                                        *)
RanOf(r) ==
  /\ req[r].pc \in {"idle", "posted", "read", "retry", "refused"} => ran[r] = 0
  /\ req[r].pc = "answered" =>
       ran[r] = IF req[r].status \in {200, 500} THEN 1 ELSE 0
  /\ req[r].pc = "done" => ran[r] = 1
  /\ req[r].pc = "failed" => ran[r] \in {0, 1}
  /\ req[r].pc # "done" => outcome[r].took = <<>> /\ ~outcome[r].whole

ClientInv ==
  /\ SendInv
  /\ DOMAIN outcome = Requests /\ DOMAIN said = Requests /\ DOMAIN ran = Requests
  /\ \A r \in Requests : RanOf(r) /\ Given(r, outcome[r])

LEMMA NothingGiven ==
  ASSUME NEW r, NEW o, o.took = <<>>, ~o.whole
  PROVE  Given(r, o) /\ Given(r, o)'
  BY DEF Given

(* Enough for a step of request r: the others do not notice it.            *)
LEMMA OneRequest ==
  ASSUME ClientInv, SendInv', NEW r \in Requests,
         DOMAIN outcome' = Requests, DOMAIN said' = Requests, DOMAIN ran' = Requests,
         \A q \in Requests \ {r} :
            /\ req'[q] = req[q] /\ outcome'[q] = outcome[q]
            /\ said'[q] = said[q] /\ ran'[q] = ran[q],
         RanOf(r)', Given(r, outcome[r])'
  PROVE  ClientInv'
  <1>1. ASSUME NEW q \in Requests, q # r PROVE RanOf(q)' /\ Given(q, outcome[q])'
    <2>1. /\ req'[q] = req[q] /\ outcome'[q] = outcome[q]
          /\ said'[q] = said[q] /\ ran'[q] = ran[q]
      BY <1>1
    <2>2. RanOf(q) /\ Given(q, outcome[q])
      BY DEF ClientInv
    <2>3. QED
      BY <2>1, <2>2 DEF RanOf, Given, Width
  <1>2. QED
    BY <1>1 DEF ClientInv

LEMMA ClientInitOK == ClientInit => ClientInv
  <1> SUFFICES ASSUME ClientInit PROVE ClientInv
    OBVIOUS
  <1>1. SendInv
    BY SendInit DEF ClientInit
  <1>2. DOMAIN outcome = Requests /\ DOMAIN said = Requests /\ DOMAIN ran = Requests
    BY DEF ClientInit
  <1>3. ASSUME NEW r \in Requests PROVE RanOf(r) /\ Given(r, outcome[r])
    <2>1. /\ outcome[r].took = <<>> /\ ~outcome[r].whole
          /\ req[r].pc = "idle" /\ ran[r] = 0
      BY DEF ClientInit, Init, Idle, Is, Takes
    <2>2. QED
      BY <2>1, NothingGiven DEF RanOf
  <1>4. QED
    BY <1>1, <1>2, <1>3 DEF ClientInv

LEMMA RequestOK ==
  ASSUME ClientInv, SendInv', NEW r \in Requests, Request(r)
  PROVE  ClientInv'
  <1> DEFINE x == [pc |-> "posted", tries |-> 1, sent |-> authHeader, status |-> 0, fresh |-> 0]
  <1>1. /\ req' = [req EXCEPT ![r] = x] /\ outcome' = [outcome EXCEPT ![r] = Is("none")]
        /\ said' = [said EXCEPT ![r] = <<>>] /\ ran' = [ran EXCEPT ![r] = 0]
    BY DEF Request, Start, Post
  <1>2. /\ DOMAIN outcome = Requests /\ DOMAIN said = Requests /\ DOMAIN ran = Requests
        /\ DOMAIN req = Requests
    BY DEF ClientInv, SendInv, TypeOK
  <1>3. /\ req'[r].pc = "posted" /\ ran'[r] = 0
        /\ outcome'[r].took = <<>> /\ ~outcome'[r].whole
    BY <1>1, <1>2 DEF Is, Takes
  <1>4. RanOf(r)'
    BY <1>3 DEF RanOf
  <1>5. Given(r, outcome[r])'
    BY <1>3 DEF Given
  <1> HIDE DEF x
  <1>6. QED
    BY <1>1, <1>2, <1>4, <1>5, OneRequest

(* What running a request changes. *)
Tally(r, n) ==
  /\ DOMAIN said' = Requests /\ DOMAIN ran' = Requests
  /\ \A q \in Requests \ {r} : said'[q] = said[q] /\ ran'[q] = ran[q]
  /\ ran'[r] = n

LEMMA Tallies ==
  ASSUME ClientInv, NEW r \in Requests, req[r].pc = "posted"
  PROVE  /\ Runs(r) => Tally(r, 1)
         /\ UNCHANGED <<said, ran>> => Tally(r, 0)
  <1>1. /\ DOMAIN said = Requests /\ DOMAIN ran = Requests /\ ran[r] = 0
    BY DEF ClientInv, RanOf
  <1>2. ASSUME Runs(r) PROVE Tally(r, 1)
    <2>1. PICK s : said' = [said EXCEPT ![r] = s]
      BY <1>2 DEF Runs
    <2>2. ran' = [ran EXCEPT ![r] = ran[r] + 1]
      BY <1>2 DEF Runs
    <2>3. QED
      BY <1>1, <2>1, <2>2 DEF Tally
  <1>3. ASSUME UNCHANGED <<said, ran>> PROVE Tally(r, 0)
    BY <1>1, <1>3 DEF Tally
  <1>4. QED
    BY <1>2, <1>3

(* What the node or the network does to a request in flight. *)
LEMMA InFlightOK ==
  ASSUME ClientInv, SendInv', NEW r \in Requests, req[r].pc = "posted",
         NEW x, NEW n \in {0, 1}, Tally(r, n),
         req' = [req EXCEPT ![r] = x], UNCHANGED outcome,
         \/ x.pc = "answered" /\ n = IF x.status \in {200, 500} THEN 1 ELSE 0
         \/ x.pc = "failed"
  PROVE  ClientInv'
  <1>1. /\ outcome[r].took = <<>> /\ ~outcome[r].whole
        /\ DOMAIN outcome = Requests /\ DOMAIN req = Requests
    BY DEF ClientInv, SendInv, TypeOK, RanOf
  <1>2. req'[r] = x /\ outcome' = outcome
    BY <1>1
  <1>3. Given(r, outcome[r])'
    BY <1>1, <1>2 DEF Given
  <1>4. RanOf(r)'
    BY <1>1, <1>2 DEF RanOf, Tally
  <1>5. \A q \in Requests \ {r} : req'[q] = req[q] /\ outcome'[q] = outcome[q]
    BY <1>1, <1>2
  <1>6. QED
    BY <1>1, <1>2, <1>3, <1>4, <1>5, OneRequest DEF Tally

LEMMA AnsweredOK ==
  ASSUME ClientInv, SendInv', NEW r \in Requests, NEW status \in {200, 401, 403, 500},
         Answered(r, status)
  PROVE  ClientInv'
  <1> DEFINE x == [pc |-> "answered", tries |-> req[r].tries, sent |-> req[r].sent,
                   status |-> status, fresh |-> 0]
             n == IF status \in {200, 500} THEN 1 ELSE 0
  <1>1. req[r].pc = "posted" /\ req' = [req EXCEPT ![r] = x] /\ UNCHANGED outcome
    BY DEF Answered, NodeAnswers, At
  <1>2. x.pc = "answered" /\ n = IF x.status \in {200, 500} THEN 1 ELSE 0
    OBVIOUS
  <1>3. IF status \in {200, 500} THEN Runs(r) ELSE UNCHANGED <<said, ran>>
    BY DEF Answered
  <1>4. Tally(r, n)
    <2>1. CASE status \in {200, 500}
      BY <1>1, <1>3, <2>1, Tallies
    <2>2. CASE status \notin {200, 500}
      BY <1>1, <1>3, <2>2, Tallies
    <2>3. QED
      BY <2>1, <2>2
  <1>5. n \in {0, 1}
    OBVIOUS
  <1> HIDE DEF x, n
  <1>6. QED
    BY <1>1, <1>2, <1>4, <1>5, InFlightOK

LEMMA LostOK ==
  ASSUME ClientInv, SendInv', NEW r \in Requests, Lost(r)
  PROVE  ClientInv'
  <1> DEFINE x == [Idle EXCEPT !.pc = "failed"]
  <1>1. req[r].pc = "posted" /\ req' = [req EXCEPT ![r] = x] /\ UNCHANGED outcome
    BY DEF Lost, TransportFails, At
  <1>2. x.pc = "failed"
    BY DEF Idle
  <1>3. Runs(r) \/ UNCHANGED <<said, ran>>
    BY DEF Lost
  <1> HIDE DEF x
  <1>4. PICK n \in {0, 1} : Tally(r, n)
    BY <1>1, <1>3, Tallies
  <1>5. QED
    BY <1>1, <1>2, <1>4, InFlightOK

(* What send does between the answers does not run anything. *)
LEMMA SendingOK ==
  ASSUME ClientInv, SendInv', NEW r \in Requests, Sending(r)
  PROVE  ClientInv'
  <1>1. UNCHANGED client /\ outcome' = outcome /\ said' = said /\ ran' = ran
    BY DEF Sending, client
  <1>2. /\ DOMAIN outcome = Requests /\ DOMAIN said = Requests /\ DOMAIN ran = Requests
        /\ DOMAIN req = Requests /\ RanOf(r) /\ Given(r, outcome[r])
    BY DEF ClientInv, SendInv, TypeOK
  <1>3. Given(r, outcome[r])'
    BY <1>1, <1>2 DEF Given
  <1>4. RanOf(r)' /\ \A q \in Requests \ {r} : req'[q] = req[q]
    <2>1. CASE Returns(r)
      <3> DEFINE x == [pc |-> IF req[r].status \in {401, 403} THEN "refused" ELSE "done",
                       tries |-> 0, sent |-> req[r].sent, status |-> req[r].status,
                       fresh |-> req[r].fresh]
      <3>1. req[r].pc = "answered" /\ req[r].status \in {200, 401, 403, 500}
        BY <2>1 DEF ClientInv, SendInv, Counts, Returns, At
      <3>2. req' = [req EXCEPT ![r] = x]
        BY <2>1 DEF Returns
      <3>3. \/ x.pc = "refused" /\ req[r].status \notin {200, 500}
            \/ x.pc = "done" /\ req[r].status \in {200, 500}
        BY <3>1
      <3> HIDE DEF x
      <3>4. req'[r] = x
        BY <1>2, <3>2
      <3>5. QED
        BY <1>1, <1>2, <3>1, <3>2, <3>3, <3>4 DEF RanOf
    <2>2. CASE ReadCookie(r)
      <3> DEFINE x == [pc |-> "read", tries |-> req[r].tries, sent |-> req[r].sent,
                       status |-> req[r].status, fresh |-> cookieFile]
      <3>1. req[r].pc = "answered" /\ req[r].status = 401
        BY <2>2 DEF ReadCookie, MayRefresh, At
      <3>2. req' = [req EXCEPT ![r] = x] /\ x.pc = "read"
        BY <2>2 DEF ReadCookie
      <3> HIDE DEF x
      <3>3. req'[r] = x
        BY <1>2, <3>2
      <3>4. QED
        BY <1>1, <1>2, <3>1, <3>2, <3>3 DEF RanOf
    <2>3. CASE Refresh(r)
      <3>1. req[r].pc = "read"
        BY <2>3 DEF Refresh, At
      <3>2. /\ \A q \in Requests \ {r} : req'[q] = req[q]
            /\ req'[r].pc \in {"retry", "refused"}
        <4>1. \/ req' = [req EXCEPT ![r] = [req[r] EXCEPT !.pc = "retry"]]
              \/ req' = [req EXCEPT ![r] = [req[r] EXCEPT !.pc = "refused"]]
          BY <2>3 DEF Refresh
        <4>2. req[r] \in Record
          BY DEF ClientInv, SendInv, TypeOK, Record
        <4>3. /\ [req[r] EXCEPT !.pc = "retry"].pc = "retry"
              /\ [req[r] EXCEPT !.pc = "refused"].pc = "refused"
          BY <4>2 DEF Record
        <4>4. QED
          BY <1>2, <4>1, <4>3
      <3>3. QED
        BY <1>1, <1>2, <3>1, <3>2 DEF RanOf
    <2>4. CASE Retry(r)
      <3> DEFINE x == [pc |-> "posted", tries |-> req[r].tries + 1, sent |-> authHeader,
                       status |-> 0, fresh |-> 0]
      <3>1. req[r].pc = "retry"
        BY <2>4 DEF Retry, At
      <3>2. req' = [req EXCEPT ![r] = x] /\ x.pc = "posted"
        BY <2>4 DEF Retry, Post
      <3> HIDE DEF x
      <3>3. req'[r] = x
        BY <1>2, <3>2
      <3>4. QED
        BY <1>1, <1>2, <3>1, <3>2, <3>3 DEF RanOf
    <2>5. QED
      BY <2>1, <2>2, <2>3, <2>4 DEF Sending
  <1>5. QED
    BY <1>1, <1>2, <1>3, <1>4, OneRequest

LEMMA SettleOK ==
  ASSUME ClientInv, SendInv', NEW r \in Requests, Settle(r)
  PROVE  ClientInv'
  <1>1. PICK body \in Bodies(r) : outcome' = [outcome EXCEPT ![r] = OutcomeOf(r, body)]
    BY DEF Settle
  <1>2. req' = req /\ said' = said /\ ran' = ran /\ req[r].pc = "done"
    BY DEF Settle, vars
  <1>3. /\ DOMAIN outcome = Requests /\ DOMAIN said = Requests /\ DOMAIN ran = Requests
        /\ RanOf(r)
    BY DEF ClientInv
  <1> DEFINE o == OutcomeOf(r, body)
  <1>4. Given(r, o)
    BY CallGiven, BatchGiven
  <1> HIDE DEF o
  <1>5. /\ outcome' = [outcome EXCEPT ![r] = o]
        /\ outcome'[r] = o
    BY <1>1, <1>3 DEF o
  <1>6. Given(r, outcome[r])'
    BY <1>2, <1>4, <1>5 DEF Given, Width
  <1>7. RanOf(r)'
    BY <1>2, <1>3 DEF RanOf
  <1>8. QED
    BY <1>2, <1>3, <1>5, <1>6, <1>7, OneRequest

LEMMA ClientStep == ClientInv /\ [ClientNext]_allVars => ClientInv'
  <1> SUFFICES ASSUME ClientInv, [ClientNext]_allVars PROVE ClientInv'
    OBVIOUS
  <1>1. SendInv'
    <2>1. UNCHANGED allVars => UNCHANGED vars
      BY DEF allVars
    <2>2. QED
      BY <2>1, ClientStepSends, SendStep DEF ClientInv
  <1>2. ASSUME NEW r \in Requests, Request(r) PROVE ClientInv'
    BY <1>1, <1>2, RequestOK
  <1>3. ASSUME NEW r \in Requests, NEW status \in {200, 401, 403, 500}, Answered(r, status)
        PROVE  ClientInv'
    BY <1>1, <1>3, AnsweredOK
  <1>4. ASSUME NEW r \in Requests, Lost(r) PROVE ClientInv'
    BY <1>1, <1>4, LostOK
  <1>5. ASSUME NEW r \in Requests, Sending(r) PROVE ClientInv'
    BY <1>1, <1>5, SendingOK
  <1>6. ASSUME NEW r \in Requests, Settle(r) PROVE ClientInv'
    BY <1>1, <1>6, SettleOK
  <1>7. CASE NodeRestarts \/ UNCHANGED allVars
    <2>1. req' = req /\ outcome' = outcome /\ said' = said /\ ran' = ran
      BY <1>7 DEF NodeRestarts, NodeStops, NodeStarts, client, allVars, vars
    <2>2. QED
      BY <1>1, <2>1 DEF ClientInv, RanOf, Given, Width
  <1>8. QED
    BY <1>2, <1>3, <1>4, <1>5, <1>6, <1>7 DEF ClientNext, Proceeds

LEMMA ClientInvHolds == ClientSpec => []ClientInv
  BY ClientInitOK, ClientStep, PTL DEF ClientSpec

-----------------------------------------------------------------------------
(* No answer reaches another call than its own, for every number of        *)
(* requests under way and every reordering, repetition and loss of what    *)
(* the node answered (client.ts 251-275, 314-337).                         *)
THEOREM AnswersReachTheirCall == ClientSpec => []NeverMisattributed
  <1>1. ClientInv => NeverMisattributed
    <2> SUFFICES ASSUME ClientInv, NEW r \in Requests, NEW i \in DOMAIN outcome[r].took
                 PROVE  /\ outcome[r].took[i].id = ids(r)[i]
                        /\ outcome[r].took[i].says = said[r][i]
      BY DEF NeverMisattributed
    <2>1. Given(r, outcome[r])
      BY DEF ClientInv
    <2>2. /\ i \in 1..Width(r) /\ outcome[r].took[i].id = <<r, i>>
          /\ outcome[r].took[i].says = said[r][i]
      BY <2>1 DEF Given
    <2>3. QED
      BY <2>2 DEF ids
  <1>2. QED
    BY <1>1, ClientInvHolds, PTL

(* A complete answer, in whatever order, gives every call its own          *)
(* (client.ts 328-337).                                                    *)
THEOREM WholeAnswersArrive == ClientSpec => []WholeIsDelivered
  <1>1. ClientInv => WholeIsDelivered
    BY DEF ClientInv, Given, WholeIsDelivered
  <1>2. QED
    BY <1>1, ClientInvHolds, PTL

(* However often the node restarts and requests overlap, the retry of send *)
(* never runs a request twice (client.ts 218-230).                         *)
THEOREM RequestsRunOnce == ClientSpec => []RunOnce
  <1>1. ClientInv => RunOnce
    <2> SUFFICES ASSUME ClientInv, NEW r \in Requests
                 PROVE  /\ ran[r] <= 1
                        /\ outcome[r].took # <<>> => ran[r] = 1
                        /\ req[r].pc = "refused" => ran[r] = 0
      BY DEF RunOnce
    <2>1. RanOf(r)
      BY DEF ClientInv
    <2>2. req[r].pc \in {"idle", "posted", "read", "retry", "refused", "answered", "done", "failed"}
      BY DEF ClientInv, SendInv, TypeOK, Ended
    <2>3. ran[r] \in {0, 1}
      BY <2>1, <2>2 DEF RanOf
    <2>4. QED
      BY <2>1, <2>3 DEF RanOf
  <1>2. QED
    BY <1>1, ClientInvHolds, PTL

=============================================================================
