---------------------------- MODULE Http1Worker -----------------------------
(***************************************************************************)
(* A worker whose clients speak HTTP/1.1 without request bodies: Worker    *)
(* with Http1Session and a server that answers the requests it received    *)
(* in their order.                                                         *)
(*                                                                         *)
(* The read loop sees a response as the callbacks of llhttp do: its status *)
(* line, then its end, which may be part of a later read.  The response i  *)
(* of a connection is taken as the answer to stream i of that connection   *)
(* (stream_resp_counter_ = 2 * i - 1).                                     *)
(***************************************************************************)
EXTENDS Worker

CONSTANTS
  Statuses,      \* subset of BOOLEAN: the status code is below 400 or not
  Closes,        \* subset of BOOLEAN: the response ends the connection or not
  MaxAnswers     \* bound: responses the server sends

ASSUME Http1Assumption ==
  /\ Statuses \subseteq BOOLEAN /\ Closes \subseteq BOOLEAN
  /\ MaxAnswers \in Nat

VARIABLES
  resp,             \* the stream the next response answers
  status_success,   \* of that stream: "unset" (-1), "good" (1), "bad" (0)
  sending,          \* the server's response: "idle", "half" sent, "closed"
  answered          \* responses sent

httpVars == <<resp, status_success, sending, answered>>
vars == <<workerVars, httpVars>>

Init ==
  /\ WorkerInit
  /\ resp = [c \in Clients |-> 1]
  /\ status_success = [c \in Clients |-> "unset"]
  /\ sending = [c \in Clients |-> "idle"]
  /\ answered = 0

mutant_SessionKept == UNCHANGED httpVars

\* the session ends with the connection
SessionKept ==
  /\ resp' = [c \in Clients |-> IF sock'[c] = "open" THEN resp[c] ELSE 1]
  /\ status_success' = [c \in Clients |->
       IF sock'[c] = "open" THEN status_success[c] ELSE "unset"]
  /\ sending' = [c \in Clients |-> IF sock'[c] = "open" THEN sending[c] ELSE "idle"]
  /\ UNCHANGED answered

HasStream(c) == <<c, resp[c]>> \in streams

\* htp_statuscb: on_status_code marks the stream, outside the main phase as
\* good.  (htp_msg_begincb refuses a response numbered beyond the next request;
\* PipelineIsContiguous says that there is none.)
ReadStatus(c) ==
  /\ Reading(c) /\ Head(inq[c]).type = "status"
  /\ status_success' = [status_success EXCEPT ![c] =
       IF ~HasStream(c) THEN @
       ELSE IF Head(inq[c]).ok \/ ~Main THEN "good" ELSE "bad"]
  /\ timer' = [timer EXCEPT ![c] = @ \cup Inactivity]
  /\ ReadAccepted(c)
  /\ UNCHANGED <<sharedVars, qpsVars, loop, brk, current_phase, sock, addr,
                 sessVars, srv, stats, req_inflight, wb, resp, sending, answered>>

\* htp_msg_completecb of a response that keeps the connection
ReadComplete(c) ==
  /\ Reading(c) /\ Head(inq[c]).type = "complete" /\ ~Head(inq[c]).close
  /\ HasStream(c)
  /\ on_stream_close(c, resp[c], TRUE, status_success[c] = "good", FALSE)
  /\ resp' = [resp EXCEPT ![c] = @ + 1]
  /\ status_success' = [status_success EXCEPT ![c] = "unset"]
  /\ ReadAccepted(c)
  /\ UNCHANGED <<loop, current_phase, sock, addr, srv, sending, answered>>

\* ... of a response that ends it: on_stream_close issues nothing, the parser
\* is paused, on_read fails, and a new connection is tried
ReadFinal(c) ==
  /\ Reading(c) /\ Head(inq[c]).type = "complete" /\ Head(inq[c]).close
  /\ HasStream(c)
  /\ try_again_or_fail(c, ClosedStats(TRUE, status_success[c] = "good"),
                       ClosedInflight(c), TRUE)
  /\ SessionKept

\* assert(req_stat) fails: the process aborts
Abort(c) ==
  /\ Reading(c) /\ Head(inq[c]).type = "complete" /\ ~HasStream(c)
  /\ loop' = "aborted"
  /\ UNCHANGED <<sharedVars, qpsVars, brk, running, connVars, sessVars, netVars,
                 current_phase, stats, req_inflight, wb, httpVars>>

\* The server answers its first request: the status line, then the rest
Answer(c) ==
  /\ sock[c] = "open" /\ ~Ended(c) /\ sending[c] = "idle" /\ srv[c] # <<>>
  /\ answered < MaxAnswers
  /\ \E ok \in Statuses :
       inq' = [inq EXCEPT ![c] = Append(@, [type |-> "status", ok |-> ok])]
  /\ sending' = [sending EXCEPT ![c] = "half"]
  /\ answered' = answered + 1
  /\ UNCHANGED <<sharedVars, qpsVars, loopVars, connVars, sessVars, srv,
                 current_phase, stats, req_inflight, wb, resp, status_success>>

AnswerEnds(c) ==
  /\ sock[c] = "open" /\ ~Ended(c) /\ sending[c] = "half" /\ srv[c] # <<>>
  /\ \E close \in Closes :
       /\ inq' = [inq EXCEPT ![c] = Append(@, [type |-> "complete", close |-> close])]
       /\ sending' = [sending EXCEPT ![c] = IF close THEN "closed" ELSE "idle"]
  /\ srv' = [srv EXCEPT ![c] = Tail(@)]
  /\ UNCHANGED <<sharedVars, qpsVars, loopVars, connVars, sessVars,
                 current_phase, stats, req_inflight, wb, resp, status_success,
                 answered>>

\* the worker has ended, and main joins its thread
Finished == loop \in {"done", "aborted"} /\ UNCHANGED vars

Next ==
  \/ \E c \in Clients : ClientStep(c) /\ SessionKept
  \/ WorkerStep /\ SessionKept
  \/ \E c \in Clients :
       ReadStatus(c) \/ ReadComplete(c) \/ ReadFinal(c) \/ Abort(c)
  \/ \E c \in Clients : ServerCloses(c) /\ UNCHANGED httpVars
  \/ \E c \in Clients : Answer(c) \/ AnswerEnds(c)
  \/ Finished

Spec == Init /\ [][Next]_vars
-----------------------------------------------------------------------------
Items ==
  [type : {"status"}, ok : BOOLEAN] \cup [type : {"complete"}, close : BOOLEAN]
    \cup {Eof}

\* Every variable has its type.
TypeOK ==
  /\ WorkerTypeOK
  /\ inq \in [Clients -> Seq(Items)]
  /\ resp \in [Clients -> Nat \ {0}]
  /\ status_success \in [Clients -> {"unset", "good", "bad"}]
  /\ sending \in [Clients -> {"idle", "half", "closed"}]
  /\ answered \in Nat

\* The open streams of a connection are exactly the requests from the next
\* response to the last request: pipelined responses close them in order, and
\* no response is numbered beyond the next request.
PipelineIsContiguous ==
  \A c \in Clients :
    sock[c] = "open" => /\ resp[c] <= issued[c] + 1
                        /\ StreamsOf(c) = {c} \X (resp[c] .. issued[c])

\* However connections end and are made again, the books of HTTP/1.1 are exact:
\* req_inflight is the number of open streams (at most -m), clients that are gone hold
\* none, and req_not_issued of main does not wrap.
BooksAreExact ==
  InflightIsExact /\ ConcurrencyBounded /\ GoneClientsAreSettled /\ NotIssuedDoesNotWrap

\* assert(req_stat) in htp_msg_completecb: a complete response answers a stream
\* of the connection.
ResponseHasStream == loop # "aborted"
=============================================================================
