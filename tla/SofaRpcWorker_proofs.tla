------------------------ MODULE SofaRpcWorker_proofs ------------------------
(***************************************************************************)
(* What holds of a worker whose clients speak SofaRPC, for every number of *)
(* clients and every configuration.  The inductive invariant is TypeOK and *)
(* Balanced: the books of Worker_proofs, with the facts that streams have  *)
(* numbers already issued and belong to open connections.                  *)
(***************************************************************************)
EXTENDS SofaRpcWorker, WorkerSteps_proofs

Inv == TypeOK /\ Balanced

LEMMA InitInv == Init => Inv
<1> SUFFICES ASSUME Init PROVE Inv
  OBVIOUS
<1>1. Balanced
  BY InitBalanced DEF Init
<1>2. inq \in [Clients -> Seq(Items)]
  BY EmptySeq DEF Init, WorkerInit
<1>3. data \in BOOLEAN
  BY SofaAssumption DEF Init
<1>4. TypeOK
  BY <1>1, <1>2, <1>3 DEF Init, TypeOK, Balanced
<1> QED
  BY <1>1, <1>4 DEF Inv

\* SessionKept keeps the types of the session.
LEMMA KeptType ==
  ASSUME TypeOK, SessionKept
  PROVE  /\ last_stream_id' \in [Clients -> Nat]
         /\ last_respstatus' \in [Clients -> BOOLEAN]
         /\ owed' \in [Clients -> Nat] /\ answered' \in Nat /\ data' \in BOOLEAN
<1>1. last_stream_id' \in [Clients -> Nat] /\ owed' \in [Clients -> Nat]
  BY DEF TypeOK, SessionKept
<1>2. last_respstatus' \in [Clients -> BOOLEAN]
  BY DEF TypeOK, SessionKept
<1>3. answered' \in Nat
  BY DEF TypeOK, SessionKept
<1>4. data' \in BOOLEAN
  BY DEF TypeOK, SessionKept
<1> QED
  BY <1>1, <1>2, <1>3, <1>4

\* A read the session accepts: the parts of the type that readcb changes.
LEMMA AcceptedType ==
  ASSUME TypeOK, NEW c \in Clients, Reading(c), ReadAccepted(c)
  PROVE  /\ Head(inq[c]) \in Items
         /\ inq' \in [Clients -> Seq(Items)]
         /\ wev' \in [Clients -> BOOLEAN]
         /\ running' \in Clients \cup {NoClient}
<1>1. inq \in [Clients -> Seq(Items)] /\ inq[c] \in Seq(Items) /\ inq[c] # <<>>
  BY DEF TypeOK, Reading
<1>2. Head(inq[c]) \in Items /\ Tail(inq[c]) \in Seq(Items)
  BY <1>1, HeadTailProperties
<1>3. inq' \in [Clients -> Seq(Items)]
  BY <1>1, <1>2 DEF ReadAccepted
<1>4. wev' \in [Clients -> BOOLEAN]
  BY DEF TypeOK, WorkerTypeOK, ReadAccepted
<1>5. running' \in Clients \cup {NoClient}
  BY DEF ReadAccepted
<1> QED
  BY <1>2, <1>3, <1>4, <1>5

\* A header has a stream number, a status and a body flag.
LEMMA HeaderType ==
  ASSUME NEW r \in Items, r.type = "response"
  PROVE  r.id \in Nat /\ r.ok \in BOOLEAN /\ r.body \in BOOLEAN
<1>1. r # [type |-> "rest"] /\ r # Eof
  BY DEF Eof
<1> QED
  BY <1>1 DEF Items

\* What on_read does with a stream, whether it closes it or not
LEMMA DiscardedInv ==
  ASSUME Inv, NEW c \in Clients, NEW i, NEW b \in BOOLEAN, sock[c] = "open",
         Discarded(c, i, b) \/ NoClose(c), UNCHANGED <<current_phase, sock>>
  PROVE  CloseTypeOK' /\ Books' /\ Opened'
<1>0. TypeOK /\ WorkerTypeOK /\ Balanced
  BY DEF Inv, TypeOK
<1>1. CASE on_stream_close(c, i, b, b, FALSE)
  BY <1>0, <1>1, StreamCloseType, StreamCloseBooks
<1>2. CASE NoClose(c)
  <2>1. timer' \in [Clients -> SUBSET {"active", "inactivity"}]
    BY <1>0, <1>2, TimerType DEF WorkerTypeOK, NoClose
  <2>2. UNCHANGED <<sharedVars, qpsVars, brk, sessVars, stats, wb, req_inflight>>
    BY <1>2 DEF NoClose
  <2>3. CloseTypeOK'
    BY <1>0, <2>1, <2>2
       DEF WorkerTypeOK, CountTypeOK, CloseTypeOK, sharedVars, qpsVars, sessVars
  <2>4. Books' /\ Opened'
    BY <1>0, <2>2, UnchangedBooks DEF sessVars
  <2> QED
    BY <2>3, <2>4
<1> QED
  BY <1>1, <1>2 DEF Discarded

\* SofaRpcSession::on_read at a header
LEMMA ReadHeaderInv ==
  ASSUME Inv, NEW c \in Clients, ReadHeader(c)
  PROVE  Inv'
<1> DEFINE r == Head(inq[c])
<1>1. /\ Reading(c) /\ ReadAccepted(c) /\ r.type = "response" /\ TypeOK
      /\ UNCHANGED <<loop, current_phase, sock, addr, srv, data, owed, answered>>
      /\ last_stream_id' = [last_stream_id EXCEPT ![c] = r.id]
      /\ last_respstatus' = [last_respstatus EXCEPT ![c] = r.ok]
      /\ Discarded(c, r.id, r.ok) \/ NoClose(c)
  BY DEF ReadHeader, Inv
<1>2. /\ r \in Items /\ inq' \in [Clients -> Seq(Items)]
      /\ wev' \in [Clients -> BOOLEAN] /\ running' \in Clients \cup {NoClient}
  BY <1>1, AcceptedType
<1>3. r.id \in Nat /\ r.ok \in BOOLEAN /\ r.body \in BOOLEAN
  BY <1>1, <1>2, HeaderType
<1> HIDE DEF r
<1>4. sock[c] = "open" /\ loop = "running"
  BY <1>1 DEF Reading
<1>5. CloseTypeOK' /\ Books' /\ Opened'
  BY <1>1, <1>3, <1>4, DiscardedInv
<1>6. WorkerTypeOK'
  BY <1>1, <1>2, <1>5 DEF TypeOK, WorkerTypeOK, CountTypeOK, CloseTypeOK
<1>7. /\ last_stream_id' \in [Clients -> Nat]
      /\ last_respstatus' \in [Clients -> BOOLEAN]
  BY <1>1, <1>3 DEF TypeOK
<1>8. TypeOK'
  BY <1>1, <1>2, <1>6, <1>7 DEF TypeOK
<1>9. Fresh'
  BY <1>1, <1>4 DEF Fresh
<1> QED
  BY <1>5, <1>6, <1>8, <1>9 DEF Inv, Balanced

\* ... at a later part of the body
LEMMA ReadRestInv ==
  ASSUME Inv, NEW c \in Clients, ReadRest(c)
  PROVE  Inv'
<1> DEFINE i == last_stream_id[c]
           b == last_respstatus[c]
<1>1. /\ Reading(c) /\ ReadAccepted(c) /\ TypeOK
      /\ UNCHANGED <<loop, current_phase, sock, addr, srv, sofaVars>>
      /\ Discarded(c, i, b)
  BY DEF ReadRest, Inv
<1>2. /\ inq' \in [Clients -> Seq(Items)]
      /\ wev' \in [Clients -> BOOLEAN] /\ running' \in Clients \cup {NoClient}
  BY <1>1, AcceptedType
<1>3. b \in BOOLEAN
  BY <1>1 DEF TypeOK
<1> HIDE DEF i, b
<1>4. sock[c] = "open" /\ loop = "running"
  BY <1>1 DEF Reading
<1>5. CloseTypeOK' /\ Books' /\ Opened'
  BY <1>1, <1>3, <1>4, DiscardedInv
<1>6. WorkerTypeOK'
  BY <1>1, <1>2, <1>5 DEF TypeOK, WorkerTypeOK, CountTypeOK, CloseTypeOK
<1>7. TypeOK'
  BY <1>1, <1>2, <1>6 DEF TypeOK, sofaVars
<1>8. Fresh'
  BY <1>1, <1>4 DEF Fresh
<1> QED
  BY <1>5, <1>6, <1>7, <1>8 DEF Inv, Balanced

\* The server's steps touch only the network and the session's bookkeeping.
LEMMA ServerInv ==
  ASSUME Inv, NEW c \in Clients, Answer(c) \/ SendRest(c)
  PROVE  Inv'
<1>0. TypeOK /\ Balanced
  BY DEF Inv
<1>1. /\ UNCHANGED <<sharedVars, qpsVars, loopVars, connVars, sessVars,
                     current_phase, stats, req_inflight, wb, data, last_stream_id,
                     last_respstatus>>
  BY DEF Answer, SendRest
<1>2. /\ inq' \in [Clients -> Seq(Items)] /\ srv' \in [Clients -> Seq(Nat)]
      /\ owed' \in [Clients -> Nat] /\ answered' \in Nat
  <2>0. /\ inq \in [Clients -> Seq(Items)] /\ srv \in [Clients -> Seq(Nat)]
        /\ owed \in [Clients -> Nat] /\ answered \in Nat
        /\ inq[c] \in Seq(Items) /\ srv[c] \in Seq(Nat) /\ owed[c] \in Nat
    BY <1>0 DEF TypeOK, WorkerTypeOK
  <2>1. CASE Answer(c)
    <3>1. PICK j \in 1 .. Len(srv[c]), ok \in Statuses, body \in Bodies,
               p \in 0 .. MaxPieces - 1 :
            /\ ~body => p = 0
            /\ srv' = [srv EXCEPT ![c] = SubSeq(@, 1, j - 1)
                                          \o SubSeq(@, j + 1, Len(@))]
            /\ inq' = [inq EXCEPT ![c] = Append(@,
                         [type |-> "response", id |-> srv[c][j], ok |-> ok,
                          body |-> body])]
            /\ owed' = [owed EXCEPT ![c] = p]
      BY <2>1, Zenon DEF Answer
    <3>2. Len(srv[c]) \in Nat /\ srv[c][j] \in Nat
      BY <2>0, LenProperties, ElementOfSeq
    <3>3. /\ j - 1 \in 0 .. Len(srv[c]) /\ j \in 0 .. Len(srv[c])
          /\ p \in Nat
      BY <3>2, SofaAssumption
    <3>4. /\ SubSeq(srv[c], 1, j - 1) \in Seq(Nat)
          /\ SubSeq(srv[c], j + 1, Len(srv[c])) \in Seq(Nat)
      BY <2>0, <3>3, PartType
    <3>5. SubSeq(srv[c], 1, j - 1) \o SubSeq(srv[c], j + 1, Len(srv[c]))
            \in Seq(Nat)
      BY <3>4, ConcatProperties
    <3>6. ok \in BOOLEAN /\ body \in BOOLEAN
      BY SofaAssumption
    <3>7. [type |-> "response", id |-> srv[c][j], ok |-> ok, body |-> body]
            \in Items
      BY <3>2, <3>6 DEF Items
    <3>8. Append(inq[c], [type |-> "response", id |-> srv[c][j], ok |-> ok,
                          body |-> body]) \in Seq(Items)
      BY <2>0, <3>7, AppendProperties
    <3>9. answered' = answered + 1
      BY <2>1 DEF Answer
    <3> QED
      BY <2>0, <3>1, <3>3, <3>5, <3>8, <3>9
  <2>2. CASE SendRest(c)
    <3>1. /\ inq' = [inq EXCEPT ![c] = Append(inq[c], [type |-> "rest"])]
          /\ owed' = [owed EXCEPT ![c] = owed[c] - 1] /\ owed[c] > 0
          /\ srv' = srv /\ answered' = answered
      BY <2>2 DEF SendRest
    <3>2. [type |-> "rest"] \in Items
      BY DEF Items
    <3>3. Append(inq[c], [type |-> "rest"]) \in Seq(Items)
      BY <2>0, <3>2, AppendProperties
    <3> QED
      BY <2>0, <3>1, <3>3
  <2> QED
    BY <2>1, <2>2
<1>3. WorkerTypeOK'
  BY <1>0, <1>1, <1>2
     DEF TypeOK, WorkerTypeOK, sharedVars, qpsVars, loopVars, connVars, sessVars
<1>4. TypeOK'
  BY <1>0, <1>1, <1>2, <1>3 DEF TypeOK
<1>5. Books' /\ Opened'
  BY <1>0, <1>1, UnchangedBooks DEF connVars, sessVars
<1>6. Fresh'
  BY <1>0, <1>1 DEF Balanced, Fresh, loopVars, sessVars
<1> QED
  BY <1>3, <1>4, <1>5, <1>6 DEF Inv, Balanced

\* Every step keeps the invariant.
LEMMA NextInv == Inv /\ [Next]_vars => Inv'
<1> SUFFICES ASSUME Inv, [Next]_vars PROVE Inv'
  OBVIOUS
<1>0. TypeOK /\ Balanced /\ WorkerTypeOK /\ inq \in [Clients -> Seq(Items)]
  BY DEF Inv, TypeOK
<1>1. ASSUME NEW c \in Clients, ClientStep(c), SessionKept
      PROVE  Inv'
  <2>1. WorkerTypeOK' /\ (inq \in [Clients -> Seq(Items)])'
    BY <1>0, <1>1, ClientStepType
  <2>2. TypeOK'
    BY <1>0, <1>1, <2>1, KeptType DEF TypeOK
  <2>3. Books' /\ Opened' /\ Fresh'
    BY <1>0, <1>1, ClientStepBooks, StepFresh
  <2> QED
    BY <2>1, <2>2, <2>3 DEF Inv, Balanced
<1>2. CASE WorkerStep /\ SessionKept
  <2>1. WorkerTypeOK' /\ (inq \in [Clients -> Seq(Items)])'
    BY <1>0, <1>2, WorkerStepType
  <2>2. TypeOK'
    BY <1>0, <1>2, <2>1, KeptType DEF TypeOK
  <2>3. Books' /\ Opened' /\ Fresh'
    BY <1>0, <1>2, <2>1, WorkerStepBooks, StepFresh
  <2> QED
    BY <2>1, <2>2, <2>3 DEF Inv, Balanced
<1>3. ASSUME NEW c \in Clients, ServerCloses(c), UNCHANGED sofaVars
      PROVE  Inv'
  <2>1. Eof \in Items
    BY DEF Items
  <2>2. WorkerTypeOK' /\ (inq \in [Clients -> Seq(Items)])'
    BY <1>0, <1>3, <2>1, EnvironmentType
  <2>3. TypeOK'
    BY <1>0, <1>3, <2>2 DEF TypeOK, sofaVars
  <2>4. Books' /\ Opened' /\ Fresh'
    BY <1>0, <1>3, EnvironmentBooks, StepFresh
  <2> QED
    BY <2>2, <2>3, <2>4 DEF Inv, Balanced
<1>4. CASE UNCHANGED vars
  <2>1. TypeOK' /\ WorkerTypeOK'
    BY <1>0, <1>4
       DEF TypeOK, WorkerTypeOK, vars, workerVars, sofaVars, sharedVars, qpsVars,
           loopVars, connVars, sessVars, netVars
  <2>2. Books' /\ Opened'
    BY <1>0, <1>4, UnchangedBooks
       DEF vars, workerVars, connVars, sessVars
  <2>3. Fresh'
    BY <1>0, <1>4
       DEF Balanced, Fresh, vars, workerVars, loopVars, sessVars
  <2> QED
    BY <2>1, <2>2, <2>3 DEF Inv, Balanced
<1> QED
  BY <1>1, <1>2, <1>3, <1>4, ReadHeaderInv, ReadRestInv, ServerInv
     DEF Next, Finished
-----------------------------------------------------------------------------
\* The invariant holds in every state a worker reaches.
THEOREM Invariant == Spec => []Inv
  BY InitInv, NextInv, PTL DEF Spec

\* Every variable keeps its type.
THEOREM TypeCorrect == Spec => []TypeOK
<1>1. Inv => TypeOK
  BY DEF Inv
<1> QED
  BY <1>1, Invariant, PTL

\* With one thread no request of -n is lost or sent twice between the budget, the
\* requests sent and the requests counted as started, whatever the connections of
\* any number of clients do.
THEOREM BudgetCorrect == Spec => []BudgetConserved
<1>1. Inv => BudgetConserved
  BY DEF Inv, Balanced, Books
<1> QED
  BY <1>1, Invariant, PTL

\* req_not_issued, the last line of the report, never wraps around.
THEOREM NotIssuedCorrect == Spec => []NotIssuedDoesNotWrap
<1>1. Inv => NotIssuedDoesNotWrap
  BY DEF Inv, Balanced, Books, Ledger, NotIssuedDoesNotWrap
<1> QED
  BY <1>1, Invariant, PTL

\* Giving up a connection never reports a request twice.
THEOREM InflightCorrect == Spec => []InflightWithinStreams
<1>1. Inv => InflightWithinStreams
  BY DEF Inv, Balanced, Books, Ledger, Of, InflightWithinStreams, StreamsOf
<1> QED
  BY <1>1, Invariant, PTL

\* The assertions of warmup_timeout_cb hold.
THEOREM WarmUpCorrect == Spec => []WarmUpCountsNothing
<1>1. Inv => WarmUpCountsNothing
  BY DEF Inv, Balanced, Books, Ledger, WarmUpCountsNothing
<1> QED
  BY <1>1, Invariant, PTL
=============================================================================
