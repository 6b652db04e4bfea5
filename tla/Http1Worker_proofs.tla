------------------------- MODULE Http1Worker_proofs -------------------------
(***************************************************************************)
(* What holds of a worker whose clients speak HTTP/1.1, for every number   *)
(* of clients and every configuration: the same books as for SofaRPC, kept *)
(* by responses that end the connection and by reconnects.                 *)
(***************************************************************************)
EXTENDS Http1Worker, WorkerSteps_proofs

Inv == TypeOK /\ Balanced

LEMMA InitInv == Init => Inv
<1> SUFFICES ASSUME Init PROVE Inv
  OBVIOUS
<1>1. Balanced
  BY InitBalanced DEF Init
<1>2. inq \in [Clients -> Seq(Items)]
  BY EmptySeq DEF Init, WorkerInit
<1>3. TypeOK
  BY <1>1, <1>2 DEF Init, TypeOK, Balanced
<1> QED
  BY <1>1, <1>3 DEF Inv

\* SessionKept keeps the types of the session.
LEMMA KeptType ==
  ASSUME TypeOK, SessionKept
  PROVE  /\ resp' \in [Clients -> Nat \ {0}]
         /\ status_success' \in [Clients -> {"unset", "good", "bad"}]
         /\ sending' \in [Clients -> {"idle", "half", "closed"}]
         /\ answered' \in Nat
<1>1. resp' \in [Clients -> Nat \ {0}]
  BY DEF TypeOK, SessionKept
<1>2. status_success' \in [Clients -> {"unset", "good", "bad"}]
  BY DEF TypeOK, SessionKept
<1>3. sending' \in [Clients -> {"idle", "half", "closed"}] /\ answered' \in Nat
  BY DEF TypeOK, SessionKept
<1> QED
  BY <1>1, <1>2, <1>3

\* A read the session accepts: the parts of the type that readcb changes.
LEMMA AcceptedType ==
  ASSUME TypeOK, NEW c \in Clients, Reading(c), ReadAccepted(c)
  PROVE  /\ inq' \in [Clients -> Seq(Items)]
         /\ wev' \in [Clients -> BOOLEAN]
         /\ running' \in Clients \cup {NoClient}
<1>1. inq \in [Clients -> Seq(Items)] /\ inq[c] \in Seq(Items) /\ inq[c] # <<>>
  BY DEF TypeOK, Reading
<1>2. Tail(inq[c]) \in Seq(Items)
  BY <1>1, HeadTailProperties
<1>3. inq' \in [Clients -> Seq(Items)]
  BY <1>1, <1>2 DEF ReadAccepted
<1>4. wev' \in [Clients -> BOOLEAN]
  BY DEF TypeOK, WorkerTypeOK, ReadAccepted
<1>5. running' \in Clients \cup {NoClient}
  BY DEF ReadAccepted
<1> QED
  BY <1>3, <1>4, <1>5

\* htp_statuscb
LEMMA ReadStatusInv ==
  ASSUME Inv, NEW c \in Clients, ReadStatus(c)
  PROVE  Inv'
<1>1. /\ Reading(c) /\ ReadAccepted(c) /\ TypeOK /\ Balanced
      /\ UNCHANGED <<sharedVars, qpsVars, loop, brk, current_phase, sock, addr,
                     sessVars, srv, stats, req_inflight, wb, resp, sending,
                     answered>>
      /\ timer' = [timer EXCEPT ![c] = timer[c] \cup Inactivity]
  BY DEF ReadStatus, Inv
<1>2. /\ inq' \in [Clients -> Seq(Items)]
      /\ wev' \in [Clients -> BOOLEAN] /\ running' \in Clients \cup {NoClient}
  BY <1>1, AcceptedType
<1>3. timer' \in [Clients -> SUBSET {"active", "inactivity"}]
  BY <1>1, TimerType DEF TypeOK, WorkerTypeOK
<1>4. WorkerTypeOK'
  BY <1>1, <1>2, <1>3 DEF TypeOK, WorkerTypeOK, sharedVars, qpsVars, sessVars
<1>5. status_success' \in [Clients -> {"unset", "good", "bad"}]
  BY <1>1 DEF TypeOK, ReadStatus
<1>6. TypeOK'
  BY <1>1, <1>2, <1>4, <1>5 DEF TypeOK
<1>7. Books' /\ Opened'
  BY <1>1, UnchangedBooks DEF sessVars
<1>8. Fresh'
  BY <1>1 DEF Fresh, Reading
<1> QED
  BY <1>4, <1>6, <1>7, <1>8 DEF Inv, Balanced

\* htp_msg_completecb of a response that keeps the connection
LEMMA ReadCompleteInv ==
  ASSUME Inv, NEW c \in Clients, ReadComplete(c)
  PROVE  Inv'
<1> DEFINE i == resp[c]
           b == status_success[c] = "good"
<1>1. /\ Reading(c) /\ ReadAccepted(c) /\ TypeOK /\ Balanced
      /\ UNCHANGED <<loop, current_phase, sock, addr, srv, sending, answered>>
      /\ on_stream_close(c, i, TRUE, b, FALSE)
      /\ resp' = [resp EXCEPT ![c] = resp[c] + 1]
      /\ status_success' = [status_success EXCEPT ![c] = "unset"]
  BY DEF ReadComplete, Inv
<1>2. /\ inq' \in [Clients -> Seq(Items)]
      /\ wev' \in [Clients -> BOOLEAN] /\ running' \in Clients \cup {NoClient}
  BY <1>1, AcceptedType
<1>3. b \in BOOLEAN /\ TRUE \in BOOLEAN
  OBVIOUS
<1> HIDE DEF i, b
<1>4. CloseTypeOK'
  BY <1>1, <1>3, StreamCloseType DEF TypeOK
<1>5. WorkerTypeOK'
  BY <1>1, <1>2, <1>4 DEF TypeOK, WorkerTypeOK, CountTypeOK, CloseTypeOK
<1>6. /\ resp' \in [Clients -> Nat \ {0}]
      /\ status_success' \in [Clients -> {"unset", "good", "bad"}]
  BY <1>1 DEF TypeOK
<1>7. TypeOK'
  BY <1>1, <1>2, <1>5, <1>6 DEF TypeOK
<1>8. sock[c] = "open" /\ loop = "running"
  BY <1>1 DEF Reading
<1>9. Books' /\ Opened'
  BY <1>1, <1>3, <1>8, StreamCloseBooks
<1>10. Fresh'
  BY <1>1, <1>8 DEF Fresh
<1> QED
  BY <1>5, <1>7, <1>9, <1>10 DEF Inv, Balanced

\* ... of a response that ends it: the stream is closed, the others are
\* abandoned with the connection
LEMMA ReadFinalInv ==
  ASSUME Inv, NEW c \in Clients, ReadFinal(c)
  PROVE  Inv'
<1> DEFINE b == status_success[c] = "good"
           s == ClosedStats(TRUE, b)
           f == ClosedInflight(c)
           o == streams \ {<<c, resp[c]>>}
<1>1. /\ Reading(c) /\ TypeOK /\ Balanced /\ WorkerTypeOK /\ SessionKept
      /\ Known(c, resp[c])
      /\ try_again_or_fail(c, s, f, TRUE)
  BY DEF ReadFinal, Inv, Balanced, HasStream, Known
<1>2. b \in BOOLEAN /\ TRUE \in BOOLEAN
  OBVIOUS
<1> HIDE DEF b
<1>3. s \in StatsType /\ f \in [Clients -> Nat]
  BY <1>1, <1>2, ClosedType
<1>4. Ledger(s, f, o)
  BY <1>1, <1>2, CloseLedger DEF Balanced, Books
<1>5. s.req_started = stats.req_started
  BY <1>1 DEF ClosedStats, WorkerTypeOK, StatsType
<1> HIDE DEF s, f
<1>6. WorkerTypeOK' /\ (inq \in [Clients -> Seq(Items)])'
  <2>1. ConnTypeOK(Items) /\ CountTypeOK /\ LoopTypeOK
    BY <1>1 DEF TypeOK, WorkerTypeOK, ConnTypeOK, CountTypeOK, LoopTypeOK
  <2>2. ConnTypeOK(Items)' /\ CountTypeOK' /\ LoopTypeOK'
    BY <1>1, <1>3, <2>1, TryAgainType
  <2> QED
    BY <2>2 DEF WorkerTypeOK, ConnTypeOK, CountTypeOK, LoopTypeOK
<1>7. TypeOK'
  BY <1>1, <1>6, KeptType DEF TypeOK
<1>8. Books' /\ Opened'
  <2>1. /\ process_abandoned_streams(c, s, f)
        /\ UNCHANGED <<sharedVars, current_phase>>
    BY <1>1 DEF try_again_or_fail
  <2>2. PICK v, w, t : Teardown({c}, v, w, t)
    BY <1>1 DEF try_again_or_fail, disconnect, reconnect
  <2>3. {x \in o : x[1] # c} = {x \in streams : x[1] # c}
    OBVIOUS
  <2> HIDE DEF o
  <2> QED
    BY <1>1, <1>4, <1>5, <2>1, <2>2, <2>3, GiveUpBooks
<1>9. Fresh'
  BY <1>1 DEF Fresh, Reading, try_again_or_fail
<1> QED
  BY <1>6, <1>7, <1>8, <1>9 DEF Inv, Balanced

\* assert(req_stat) fails: only the loop ends
LEMMA AbortInv ==
  ASSUME Inv, NEW c \in Clients, Abort(c)
  PROVE  Inv'
<1>1. /\ TypeOK /\ Balanced /\ loop' = "aborted"
      /\ UNCHANGED <<sharedVars, qpsVars, brk, running, connVars, sessVars,
                     netVars, current_phase, stats, req_inflight, wb, httpVars>>
  BY DEF Abort, Inv
<1>2. TypeOK' /\ WorkerTypeOK'
  BY <1>1
     DEF TypeOK, WorkerTypeOK, httpVars, sharedVars, qpsVars, connVars, sessVars,
         netVars
<1>3. Books' /\ Opened'
  BY <1>1, UnchangedBooks DEF connVars, sessVars
<1>4. Fresh'
  BY <1>1 DEF Fresh
<1> QED
  BY <1>2, <1>3, <1>4 DEF Inv, Balanced

\* The server's steps touch only the network.
LEMMA ServerInv ==
  ASSUME Inv, NEW c \in Clients, Answer(c) \/ AnswerEnds(c)
  PROVE  Inv'
<1>0. TypeOK /\ Balanced
  BY DEF Inv
<1>1. UNCHANGED <<sharedVars, qpsVars, loopVars, connVars, sessVars,
                  current_phase, stats, req_inflight, wb, resp, status_success>>
  BY DEF Answer, AnswerEnds
<1>2. /\ inq' \in [Clients -> Seq(Items)] /\ srv' \in [Clients -> Seq(Nat)]
      /\ sending' \in [Clients -> {"idle", "half", "closed"}]
      /\ answered' \in Nat
  <2>0. /\ inq \in [Clients -> Seq(Items)] /\ srv \in [Clients -> Seq(Nat)]
        /\ sending \in [Clients -> {"idle", "half", "closed"}] /\ answered \in Nat
        /\ inq[c] \in Seq(Items) /\ srv[c] \in Seq(Nat)
    BY <1>0 DEF TypeOK, WorkerTypeOK
  <2>1. CASE Answer(c)
    <3>1. PICK ok \in Statuses :
            inq' = [inq EXCEPT ![c] = Append(@, [type |-> "status", ok |-> ok])]
      BY <2>1, Zenon DEF Answer
    <3>2. [type |-> "status", ok |-> ok] \in Items
      BY Http1Assumption DEF Items
    <3>3. Append(inq[c], [type |-> "status", ok |-> ok]) \in Seq(Items)
      BY <2>0, <3>2, AppendProperties
    <3>4. /\ sending' = [sending EXCEPT ![c] = "half"]
          /\ answered' = answered + 1 /\ srv' = srv
      BY <2>1 DEF Answer
    <3> QED
      BY <2>0, <3>1, <3>3, <3>4
  <2>2. CASE AnswerEnds(c)
    <3>1. PICK close \in Closes :
            /\ inq' = [inq EXCEPT ![c] =
                         Append(@, [type |-> "complete", close |-> close])]
            /\ sending' = [sending EXCEPT ![c] = IF close THEN "closed" ELSE "idle"]
      BY <2>2, Zenon DEF AnswerEnds
    <3>2. [type |-> "complete", close |-> close] \in Items
      BY Http1Assumption DEF Items
    <3>3. Append(inq[c], [type |-> "complete", close |-> close]) \in Seq(Items)
      BY <2>0, <3>2, AppendProperties
    <3>4. srv' = [srv EXCEPT ![c] = Tail(srv[c])] /\ srv[c] # <<>>
          /\ answered' = answered
      BY <2>2 DEF AnswerEnds
    <3>5. Tail(srv[c]) \in Seq(Nat)
      BY <2>0, <3>4, HeadTailProperties
    <3> QED
      BY <2>0, <3>1, <3>3, <3>4, <3>5
  <2> QED
    BY <2>1, <2>2
<1>3. WorkerTypeOK'
  BY <1>0, <1>1, <1>2
     DEF TypeOK, WorkerTypeOK, sharedVars, qpsVars, loopVars, connVars, sessVars
<1>4. TypeOK'
  BY <1>0, <1>1, <1>2, <1>3 DEF TypeOK
<1>5. Books' /\ Opened'
  BY <1>0, <1>1, UnchangedBooks DEF connVars, sessVars
<1>6. Fresh'
  BY <1>0, <1>1 DEF Balanced, Fresh, loopVars, sessVars
<1> QED
  BY <1>3, <1>4, <1>5, <1>6 DEF Inv, Balanced

\* Every step keeps the invariant.
LEMMA NextInv == Inv /\ [Next]_vars => Inv'
<1> SUFFICES ASSUME Inv, [Next]_vars PROVE Inv'
  OBVIOUS
<1>0. TypeOK /\ Balanced /\ WorkerTypeOK /\ inq \in [Clients -> Seq(Items)]
  BY DEF Inv, TypeOK
<1>1. ASSUME NEW c \in Clients, ClientStep(c), SessionKept
      PROVE  Inv'
  <2>1. WorkerTypeOK' /\ (inq \in [Clients -> Seq(Items)])'
    BY <1>0, <1>1, ClientStepType
  <2>2. TypeOK'
    BY <1>0, <1>1, <2>1, KeptType DEF TypeOK
  <2>3. Books' /\ Opened' /\ Fresh'
    BY <1>0, <1>1, ClientStepBooks, StepFresh
  <2> QED
    BY <2>1, <2>2, <2>3 DEF Inv, Balanced
<1>2. CASE WorkerStep /\ SessionKept
  <2>1. WorkerTypeOK' /\ (inq \in [Clients -> Seq(Items)])'
    BY <1>0, <1>2, WorkerStepType
  <2>2. TypeOK'
    BY <1>0, <1>2, <2>1, KeptType DEF TypeOK
  <2>3. Books' /\ Opened' /\ Fresh'
    BY <1>0, <1>2, <2>1, WorkerStepBooks, StepFresh
  <2> QED
    BY <2>1, <2>2, <2>3 DEF Inv, Balanced
<1>3. ASSUME NEW c \in Clients, ServerCloses(c), UNCHANGED httpVars
      PROVE  Inv'
  <2>1. Eof \in Items
    BY DEF Items
  <2>2. WorkerTypeOK' /\ (inq \in [Clients -> Seq(Items)])'
    BY <1>0, <1>3, <2>1, EnvironmentType
  <2>3. TypeOK'
    BY <1>0, <1>3, <2>2 DEF TypeOK, httpVars
  <2>4. Books' /\ Opened' /\ Fresh'
    BY <1>0, <1>3, EnvironmentBooks, StepFresh
  <2> QED
    BY <2>2, <2>3, <2>4 DEF Inv, Balanced
<1>4. CASE UNCHANGED vars
  <2>1. TypeOK' /\ WorkerTypeOK'
    BY <1>0, <1>4
       DEF TypeOK, WorkerTypeOK, vars, workerVars, httpVars, sharedVars, qpsVars,
           loopVars, connVars, sessVars, netVars
  <2>2. Books' /\ Opened'
    BY <1>0, <1>4, UnchangedBooks
       DEF vars, workerVars, connVars, sessVars
  <2>3. Fresh'
    BY <1>0, <1>4
       DEF Balanced, Fresh, vars, workerVars, loopVars, sessVars
  <2> QED
    BY <2>1, <2>2, <2>3 DEF Inv, Balanced
<1> QED
  BY <1>1, <1>2, <1>3, <1>4, ReadStatusInv, ReadCompleteInv, ReadFinalInv,
     AbortInv, ServerInv
     DEF Next, Finished
-----------------------------------------------------------------------------
\* The invariant holds in every state a worker reaches.
THEOREM Invariant == Spec => []Inv
  BY InitInv, NextInv, PTL DEF Spec

\* Every variable keeps its type.
THEOREM TypeCorrect == Spec => []TypeOK
<1>1. Inv => TypeOK
  BY DEF Inv
<1> QED
  BY <1>1, Invariant, PTL

\* With one thread no request of -n is lost or sent twice between the budget, the
\* requests sent and the requests counted as started, whatever the connections of
\* any number of clients do.
THEOREM BudgetCorrect == Spec => []BudgetConserved
<1>1. Inv => BudgetConserved
  BY DEF Inv, Balanced, Books
<1> QED
  BY <1>1, Invariant, PTL

\* req_not_issued, the last line of the report, never wraps around.
THEOREM NotIssuedCorrect == Spec => []NotIssuedDoesNotWrap
<1>1. Inv => NotIssuedDoesNotWrap
  BY DEF Inv, Balanced, Books, Ledger, NotIssuedDoesNotWrap
<1> QED
  BY <1>1, Invariant, PTL

\* Giving up a connection never reports a request twice.
THEOREM InflightCorrect == Spec => []InflightWithinStreams
<1>1. Inv => InflightWithinStreams
  BY DEF Inv, Balanced, Books, Ledger, Of, InflightWithinStreams, StreamsOf
<1> QED
  BY <1>1, Invariant, PTL

\* The assertions of warmup_timeout_cb hold.
THEOREM WarmUpCorrect == Spec => []WarmUpCountsNothing
<1>1. Inv => WarmUpCountsNothing
  BY DEF Inv, Balanced, Books, Ledger, WarmUpCountsNothing
<1> QED
  BY <1>1, Invariant, PTL
=============================================================================
