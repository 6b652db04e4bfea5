----------------------------- MODULE Http1Body ------------------------------
(***************************************************************************)
(* A client of h2load in HTTP/1.1 with a request body (-d): Http1Session   *)
(* reads the file in pieces of 16k as wb empties, so a response may        *)
(* be complete before the body of its request is sent, and the connection  *)
(* may go down in between.  The client is in the main phase and alone,     *)
(* without qps; Http1Worker has the other modes, without a body.           *)
(*                                                                         *)
(* A unit of wb is the head of a request (number 0) or a piece of its body *)
(* (1, 2, ...), with the connection and the stream it belongs to.  The     *)
(* read handler takes all that has arrived; the socket takes any part of   *)
(* wb, to the middle of a unit.                                            *)
(***************************************************************************)
EXTENDS Integers, Sequences, FiniteSets, SequencesExt

CONSTANTS DataLengths, \* lengths of the file, in pieces
          MaxReqs    \* -n

VARIABLES k,         \* the client, its session and its statistics
          inq,       \* what arrived from the server
          srv,       \* the server's end of the connection
          data_length

vars == <<k, inq, srv, data_length>>

----------------------------------------------------------------------------
(* Client and Http1Session.  err: a callback returned -1.                  *)

Session(c) ==
  [c EXCEPT !.streams = <<>>, !.stream_req_counter_ = 1, !.stream_resp_counter_ = 1, !.complete_ = FALSE,
            !.final = FALSE, !.err = FALSE]

Piece(c, n) == [conn |-> c.conn, id |-> c.stream_req_counter_, n |-> n]

RECURSIVE on_stream_close(_, _)

mutant_session_on_write(c) ==
  LET id == c.stream_req_counter_
      o == c.streams[id].data_offset + 1
      b == [c EXCEPT !.streams[id].data_offset = o, !.wb = Append(@, Piece(c, o))]
      e == IF o = data_length THEN [b EXCEPT !.stream_req_counter_ = @ + 2] ELSE b
  IN  CASE c.complete_ -> [c EXCEPT !.err = TRUE]
        [] ~c.complete_ /\ (id \notin DOMAIN c.streams \/ o > data_length) -> c
        [] OTHER -> e

\* Http1Session::on_write; pread does not fail
session_on_write(c) ==
  LET id == c.stream_req_counter_
      o == c.streams[id].data_offset + 1
      b == [c EXCEPT !.streams[id].data_offset = o, !.wb = Append(@, Piece(c, o))]
      e == IF o = data_length THEN [b EXCEPT !.stream_req_counter_ = @ + 2] ELSE b
  IN  CASE c.complete_ -> [c EXCEPT !.err = TRUE]
        [] ~c.complete_ /\ (id \notin DOMAIN c.streams \/ o > data_length) -> c
        [] OTHER -> IF o = data_length /\ e.stream_resp_counter_ = e.stream_req_counter_
                    THEN on_stream_close(e, e.stream_resp_counter_ - 2) ELSE e

\* Http1Session::submit_request
submit_request(c) ==
  LET h == [c EXCEPT !.streams = (c.stream_req_counter_ :> [data_offset |-> 0, ok |-> FALSE]) @@ @,
                     !.wb = Append(@, Piece(c, 0))]
  IN  IF data_length = 0 THEN [h EXCEPT !.stream_req_counter_ = @ + 2] ELSE session_on_write(h)

\* Client::submit_request, which fails when nothing is left; the session is not
\* complete_ before that
client_submit_request(c) ==
  LET s == submit_request([c EXCEPT !.total_req_left = @ - 1])
  IN  IF c.total_req_left = 0 THEN c
      ELSE [s EXCEPT !.req_started = @ + 1, !.req_inflight = @ + 1]

\* Client::on_stream_close with success; process_request_failure does nothing here
on_stream_close(c, id) ==
  LET good == c.streams[id].ok
      e == [c EXCEPT !.req_inflight = IF @ > 0 THEN @ - 1 ELSE 0, !.req_success = @ + 1,
                     !.req_failed = IF good THEN @ ELSE @ + 1,
                     !.streams = [i \in DOMAIN @ \ {id} |-> @[i]],
                     !.closed = Append(@, [conn |-> c.conn, id |-> id, sent |-> c.streams[id].data_offset])]
  IN  IF id \notin DOMAIN c.streams THEN [c EXCEPT !.req_inflight = IF @ > 0 THEN @ - 1 ELSE 0]
      ELSE IF c.total_req_left = 0 THEN [e EXCEPT !.complete_ = TRUE, !.wev = TRUE]
      ELSE IF c.final THEN e ELSE client_submit_request(e)

\* htp_statuscb
statuscb(c, ok) ==
  IF c.stream_resp_counter_ \in DOMAIN c.streams
  THEN [c EXCEPT !.streams[c.stream_resp_counter_].ok = ok] ELSE c

\* htp_msg_completecb: a response that is complete too early closes no stream
msg_completecb(c, close) ==
  LET f == [c EXCEPT !.final = close]
      id == c.stream_resp_counter_
      d == IF f.streams[id].data_offset >= data_length THEN on_stream_close(f, id) ELSE f
      r == [d EXCEPT !.stream_resp_counter_ = @ + 2]
  IN  IF id \notin DOMAIN c.streams THEN [c EXCEPT !.state = "aborted", !.err = TRUE]
      ELSE IF close THEN [r EXCEPT !.stream_req_counter_ = r.stream_resp_counter_,
                                   !.new_connection_requested = TRUE, !.err = TRUE]
      ELSE r

\* One item of read_clear; htp_msg_begincb refuses a response that no request is for,
\* and nothing more is done after an error.
on_read(c, e) ==
  CASE c.err -> c
    [] ~c.err /\ e.t = "eof" -> [c EXCEPT !.err = TRUE]
    [] ~c.err /\ e.t \in {"interim", "begin"} ->
         [c EXCEPT !.err = c.stream_resp_counter_ > c.stream_req_counter_, !.wev = TRUE]
    [] ~c.err /\ e.t = "status" -> [statuscb(c, e.ok) EXCEPT !.wev = TRUE]
    [] OTHER -> [msg_completecb(c, e.close) EXCEPT !.wev = TRUE]

\* Client::on_write: rleft() is below the threshold of 16k unless a
\* whole piece is in wb
Pieces(c) == Cardinality({i \in 1..Len(c.wb) : c.wb[i].n > 0 /\ ~(i = 1 /\ c.partial)})

client_on_write(c) == IF Pieces(c) > 0 THEN c ELSE session_on_write(c)

\* Client::disconnect: wb is not touched
disconnect(c) == [Session(c) EXCEPT !.wev = FALSE]

Abandoned(c) ==
  [c EXCEPT !.req_failed = @ + c.req_inflight, !.req_error = @ + c.req_inflight, !.req_inflight = 0]

fail(c) == [Abandoned(disconnect(c)) EXCEPT !.state = "gone"]

mutant_try_again_or_fail(c) ==
  LET d == [disconnect(c) EXCEPT !.new_connection_requested = FALSE]
  IN  {IF c.new_connection_requested /\ c.total_req_left > 0
       THEN [d EXCEPT !.state = "connecting"] ELSE fail(c)}

\* connect() may get no socket
try_again_or_fail(c) ==
  LET d == [Abandoned(disconnect(c)) EXCEPT !.new_connection_requested = FALSE]
  IN  IF c.new_connection_requested /\ c.total_req_left > 0
      THEN {[d EXCEPT !.state = "connecting"], [d EXCEPT !.state = "gone"]}
      ELSE {fail([c EXCEPT !.new_connection_requested = FALSE])}

\* What write_clear may leave: the client, and the units the socket took.
RECURSIVE write_clear(_, _)
write_clear(c, out) ==
  LET w == client_on_write(c)
      Took(n, part) == [w EXCEPT !.wb = SubSeq(@, n + 1, Len(@)), !.partial = part]
  IN  IF w.err THEN {<<w, out>>}
      ELSE IF w.wb = <<>> THEN {<<[w EXCEPT !.wev = FALSE], out>>}
      ELSE {<<[w EXCEPT !.wev = TRUE], out>>}
           \cup UNION {write_clear(Took(n, FALSE), out \o SubSeq(w.wb, 1, n)) : n \in 1..(IF Len(w.wb) > 1 THEN 2 ELSE 1)}
           \cup (IF w.partial THEN {} ELSE write_clear(Took(0, TRUE), out))

----------------------------------------------------------------------------
(* The handlers of the event loop.                                         *)

NewServer == [got |-> <<>>, clean |-> TRUE, begun |-> 0, status |-> 0, answered |-> 0, interim |-> 0, ended |-> FALSE]

Init ==
  /\ data_length \in DataLengths
  /\ \E n \in 1..MaxReqs :
       k = [state |-> "connecting", conn |-> 0, streams |-> <<>>, stream_req_counter_ |-> 1, stream_resp_counter_ |-> 1,
            complete_ |-> FALSE, final |-> FALSE, new_connection_requested |-> FALSE, err |-> FALSE,
            wb |-> <<>>, partial |-> FALSE, wev |-> FALSE, nreqs |-> n, total_req_left |-> n,
            req_started |-> 0, req_inflight |-> 0, req_success |-> 0, req_failed |-> 0, req_error |-> 0,
            closed |-> <<>>]
  /\ inq = <<>>
  /\ srv = NewServer

\* connection_made: max_concurrent_streams is 1 with -d
connection_made ==
  /\ k.state = "connecting"
  /\ k' = [client_submit_request([k EXCEPT !.state = "open", !.conn = @ + 1]) EXCEPT !.wev = TRUE]
  /\ inq' = <<>>
  /\ srv' = [NewServer EXCEPT !.clean = k.wb = <<>>]
  /\ UNCHANGED data_length

\* what writecb does with an outcome of write_clear
Written(o) ==
  /\ k' = IF o[1].err THEN fail(o[1]) ELSE o[1]
  /\ srv' = [srv EXCEPT !.got = @ \o o[2]]

writecb ==
  /\ k.state = "open" /\ k.wev
  /\ \E o \in write_clear(k, <<>>) : Written(o)
  /\ UNCHANGED <<inq, data_length>>

readcb ==
  /\ k.state = "open" /\ inq # <<>>
  /\ \E c \in {FoldLeft(on_read, k, inq)} :
       IF c.state = "aborted" THEN k' = c /\ UNCHANGED srv
       ELSE IF c.err THEN k' \in try_again_or_fail(c) /\ UNCHANGED srv
       ELSE \E o \in write_clear(c, <<>>) : Written(o)
  /\ inq' = <<>>
  /\ UNCHANGED data_length

----------------------------------------------------------------------------
(* The server: it answers the requests it reads in their order, before or  *)
(* after it has read their bodies.  What is left of an earlier connection  *)
(* is no request to it: it refuses it and ends the connection.             *)

Send(e) == inq' = Append(inq, e) /\ UNCHANGED <<k, data_length>>

CanSend == k.state = "open" /\ ~srv.ended

Heads == Cardinality({i \in 1..Len(srv.got) : srv.got[i].n = 0})

CanAnswer == CanSend /\ srv.clean /\ srv.begun = srv.answered /\ Heads > srv.begun

\* a response 1xx, once for a request
Interim ==
  /\ CanAnswer /\ srv.interim = srv.begun
  /\ srv' = [srv EXCEPT !.interim = @ + 1]
  /\ Send([t |-> "interim"])

Begin ==
  /\ CanAnswer
  /\ srv' = [srv EXCEPT !.begun = @ + 1, !.interim = srv.begun + 1]
  /\ Send([t |-> "begin"])

Status ==
  /\ CanSend /\ srv.begun > srv.status
  /\ srv' = [srv EXCEPT !.status = srv.begun]
  /\ \E ok \in BOOLEAN : Send([t |-> "status", ok |-> ok])

Complete ==
  /\ CanSend /\ srv.status > srv.answered
  /\ \E close \in BOOLEAN :
       /\ srv' = [srv EXCEPT !.answered = @ + 1, !.ended = close]
       /\ Send([t |-> "complete", close |-> close])

\* an error, to what is left of an earlier connection
Refuse ==
  /\ CanSend /\ ~srv.clean /\ srv.got # <<>>
  /\ srv' = [srv EXCEPT !.answered = 1, !.ended = TRUE]
  /\ inq' = inq \o <<[t |-> "begin"], [t |-> "status", ok |-> FALSE], [t |-> "complete", close |-> TRUE]>>
  /\ UNCHANGED <<k, data_length>>

Eof ==
  /\ CanSend
  /\ srv' = [srv EXCEPT !.ended = TRUE]
  /\ Send([t |-> "eof"])

Next == connection_made \/ writecb \/ readcb \/ Interim \/ Begin \/ Status \/ Complete \/ Refuse \/ Eof

Spec == Init /\ [][Next]_vars

----------------------------------------------------------------------------
(* Properties.                                                             *)

\* A stream is closed once, with its whole body handed to wb and its
\* response complete, whichever of the two came first; assert(req_stat) of
\* htp_msg_completecb holds.
ClosedWhenBothAreDone ==
  /\ k.state # "aborted"
  /\ \A i \in 1..Len(k.closed) :
       /\ k.closed[i].sent = data_length
       /\ k.closed[i].conn = k.conn /\ k.state = "open" => k.closed[i].id < 2 * srv.answered
       /\ \A j \in 1..(i - 1) : k.closed[j].conn # k.closed[i].conn \/ k.closed[j].id # k.closed[i].id

\* Every request of -n is left, in flight, a success or an error, also one whose
\* response was complete before its connection went down under its body; the
\* requests in flight are the open streams.
EachRequestOnce ==
  /\ k.total_req_left + k.req_started = k.nreqs
  /\ k.req_started = k.req_success + k.req_error + k.req_inflight
  /\ k.req_success = Len(k.closed)
  /\ k.state = "open" => k.req_inflight = Cardinality(DOMAIN k.streams)

\* A server whose connection began with an empty wb reads whole requests one after the other:
\* Http1Session starts no request before the body of the last one is in wb.
BodiesFollowHeads ==
  srv.clean =>
    \A i \in 1..Len(srv.got) :
      srv.got[i] = [conn |-> k.conn, id |-> 2 * ((i - 1) \div (data_length + 1)) + 1, n |-> (i - 1) % (data_length + 1)]

\* When neither handler has anything to do, a client that is still connected waits for
\* the server: the server has read all of a request and not ended its response.
\* A response that came before the end of the body is not forgotten.
OnlyTheServerIsAwaited ==
  k.state = "open" /\ ~k.wev /\ inq = <<>> /\ srv.clean =>
    /\ Len(srv.got) = Heads * (data_length + 1)
    /\ Heads = srv.answered + 1
============================================================================
