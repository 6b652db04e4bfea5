--------------------------- MODULE SofaRpcWorker ----------------------------
(***************************************************************************)
(* A worker whose clients speak SofaRPC: Worker with SofaRpcSession and a  *)
(* server that answers every request once, in any order.                   *)
(*                                                                         *)
(* The read loop sees a response as SofaRpcSession::on_read does: a header *)
(* with the part of the body that has arrived, then one item for each      *)
(* later read that brings more of that body.                               *)
(***************************************************************************)
EXTENDS Worker

CONSTANTS
  MaxPieces,     \* reads over which a response may be spread
  Statuses,      \* subset of BOOLEAN: RESPONSE_STATUS_SUCCESS or not
  Bodies,        \* subset of BOOLEAN: the response has a body or not
  Datas,         \* subset of BOOLEAN: -d names a file that is not empty or not
  MaxAnswers     \* bound: responses the server sends

ASSUME SofaAssumption ==
  /\ MaxPieces \in Nat \ {0} /\ MaxAnswers \in Nat
  /\ Statuses \subseteq BOOLEAN /\ Bodies \subseteq BOOLEAN
  /\ Datas \subseteq BOOLEAN

VARIABLES
  data,        \* config.data_length is positive
  last_stream_id, last_respstatus,   \* whose body is being discarded
  owed,        \* pieces of the current response the server has not sent
  answered     \* responses sent

sofaVars == <<data, last_stream_id, last_respstatus, owed, answered>>
vars == <<workerVars, sofaVars>>

Init ==
  /\ WorkerInit
  /\ data \in Datas
  /\ last_stream_id = [c \in Clients |-> 0]
  /\ last_respstatus = [c \in Clients |-> FALSE]
  /\ owed = [c \in Clients |-> 0]
  /\ answered = 0

\* the session and the connection's state at the server end with the connection
SessionKept ==
  /\ last_stream_id' = [c \in Clients |->
                          IF sock'[c] = "open" THEN last_stream_id[c] ELSE 0]
  /\ last_respstatus' = [c \in Clients |->
                           sock'[c] = "open" /\ last_respstatus[c]]
  /\ owed' = [c \in Clients |-> IF sock'[c] = "open" THEN owed[c] ELSE 0]
  /\ UNCHANGED <<data, answered>>

\* A read that closes nothing
NoClose(c) ==
  /\ timer' = [timer EXCEPT ![c] = @ \cup Inactivity]
  /\ UNCHANGED <<sharedVars, qpsVars, brk, sessVars, stats, wb, req_inflight>>

\* Part of the body of response i has been discarded: its stream is closed, even
\* if more of the body is to come.  With -d a stream the client knows is not:
\* its data_offset, which SofaRPC never advances, is below data_length.
Discarded(c, i, ok) ==
  IF Known(c, i) /\ data THEN NoClose(c) ELSE on_stream_close(c, i, ok, ok, FALSE)

\* SofaRpcSession::on_read at a header: on_sofarpc_status, then the part of the
\* body that is there is discarded.  A response without a body closes nothing.
ReadHeader(c) ==
  /\ Reading(c) /\ Head(inq[c]).type = "response"
  /\ LET r == Head(inq[c])
     IN /\ last_stream_id' = [last_stream_id EXCEPT ![c] = r.id]
        /\ last_respstatus' = [last_respstatus EXCEPT ![c] = r.ok]
        /\ IF r.body THEN Discarded(c, r.id, r.ok) ELSE NoClose(c)
  /\ ReadAccepted(c)
  /\ UNCHANGED <<loop, current_phase, sock, addr, srv, data, owed, answered>>

\* ... at a later read with more of the body: the stream is closed again
ReadRest(c) ==
  /\ Reading(c) /\ Head(inq[c]).type = "rest"
  /\ Discarded(c, last_stream_id[c], last_respstatus[c])
  /\ ReadAccepted(c)
  /\ UNCHANGED <<loop, current_phase, sock, addr, srv, sofaVars>>

\* The server answers a request; the response is spread over 1 + owed'[c] reads
Answer(c) ==
  /\ sock[c] = "open" /\ ~Ended(c) /\ owed[c] = 0 /\ answered < MaxAnswers
  /\ \E j \in 1 .. Len(srv[c]), ok \in Statuses, body \in Bodies,
        p \in 0 .. MaxPieces - 1 :
       /\ ~body => p = 0
       /\ srv' = [srv EXCEPT ![c] = SubSeq(@, 1, j - 1) \o SubSeq(@, j + 1, Len(@))]
       /\ inq' = [inq EXCEPT ![c] = Append(@, [type |-> "response", id |-> srv[c][j],
                                               ok |-> ok, body |-> body])]
       /\ owed' = [owed EXCEPT ![c] = p]
  /\ answered' = answered + 1
  /\ UNCHANGED <<sharedVars, qpsVars, loopVars, connVars, sessVars,
                 current_phase, stats, req_inflight, wb, data, last_stream_id,
                 last_respstatus>>

SendRest(c) ==
  /\ sock[c] = "open" /\ ~Ended(c) /\ owed[c] > 0
  /\ owed' = [owed EXCEPT ![c] = @ - 1]
  /\ inq' = [inq EXCEPT ![c] = Append(@, [type |-> "rest"])]
  /\ UNCHANGED <<sharedVars, qpsVars, loopVars, connVars, sessVars, srv,
                 current_phase, stats, req_inflight, wb, data, last_stream_id,
                 last_respstatus, answered>>

\* the worker has ended, and main joins its thread
Finished == loop = "done" /\ UNCHANGED vars

Next ==
  \/ \E c \in Clients : ClientStep(c) /\ SessionKept
  \/ WorkerStep /\ SessionKept
  \/ \E c \in Clients : ReadHeader(c) \/ ReadRest(c)
  \/ \E c \in Clients : ServerCloses(c) /\ UNCHANGED sofaVars
  \/ \E c \in Clients : Answer(c) \/ SendRest(c)
  \/ Finished

Spec == Init /\ [][Next]_vars

\* libev serves every watcher that is ready, its timers expire, sockets and
\* the server make progress
Fairness ==
  /\ WF_vars(run /\ SessionKept)
  /\ SF_vars(warmup_timeout_cb /\ SessionKept)
  /\ SF_vars(duration_timeout_cb /\ SessionKept)
  /\ WF_vars(LoopReturns /\ SessionKept)
  /\ \A c \in Clients :
       /\ SF_vars((ConnectDone(c) \/ ConnectFailed(c)) /\ SessionKept)
       /\ SF_vars((writecb(c) \/ StaleWrite(c)) /\ SessionKept)
       /\ SF_vars(ReadHeader(c) \/ ReadRest(c))
       /\ SF_vars((ReadDrained(c) \/ ReadEof(c)) /\ SessionKept)
       /\ SF_vars(conn_timeout_cb(c) /\ SessionKept)
       /\ WF_vars(Answer(c) \/ SendRest(c))

FairSpec == Spec /\ Fairness
-----------------------------------------------------------------------------
Items ==
  [type : {"response"}, id : Nat, ok : BOOLEAN, body : BOOLEAN]
    \cup {[type |-> "rest"], Eof}

\* Every variable has its type.
TypeOK ==
  /\ WorkerTypeOK
  /\ inq \in [Clients -> Seq(Items)] /\ data \in BOOLEAN
  /\ last_stream_id \in [Clients -> Nat] /\ last_respstatus \in [Clients -> BOOLEAN]
  /\ owed \in [Clients -> Nat] /\ answered \in Nat

\* Nothing is counted after the main phase: the callbacks that still run
\* between duration_timeout_cb and the end of ev_run leave the statistics
\* alone.
NothingCountedAfterwards ==
  [][current_phase = "DURATION_OVER" => stats' = stats]_vars

\* The worker's loop ends.
RunEnds == <>(loop = "done")
=============================================================================
