----------------------------- MODULE H2Session -----------------------------
(***************************************************************************)
(* One end of an HTTP/2 connection as nghttp2_session keeps it: streams,   *)
(* outbound queues, flow control windows, SETTINGS and GOAWAY.  A session  *)
(* is a record; each operator is a function of nghttp2_session.c or        *)
(* nghttp2_submit.c from the session before the call to the one after it.  *)
(*                                                                         *)
(* Frames are whole (InboundFrame has the bytes), header blocks are empty  *)
(* (Hpack has their coding), and DATA is a number of units.  Which stream  *)
(* sends DATA next is a choice (StreamTree has the priorities).  Memory is *)
(* never exhausted and the application's callbacks do not fail, except for *)
(* the ones that supply DATA.                                              *)
(***************************************************************************)
EXTENDS Integers, Sequences, FiniteSets, FiniteSetsExt, SequencesExt

CONSTANTS MAX_WINDOW_SIZE,      \* 2^31 - 1, scaled down
          MAX_STREAM_ID,        \* 2^31 - 1, scaled down and odd
          DATA_PAYLOADLEN,      \* 16384, scaled down
          INITIAL_WINDOW_SIZE,  \* 65535, scaled down
          MAX_OBQ_FLOOD_ITEM,   \* ACKs that may be queued
          MAX_RESERVED          \* max_incoming_reserved_streams

ASSUME LimitsAssumption ==
  /\ {MAX_WINDOW_SIZE, MAX_STREAM_ID, DATA_PAYLOADLEN, INITIAL_WINDOW_SIZE,
      MAX_OBQ_FLOOD_ITEM, MAX_RESERVED} \subseteq Nat
  /\ MAX_STREAM_ID % 2 = 1 /\ DATA_PAYLOADLEN > 0
  /\ INITIAL_WINDOW_SIZE <= MAX_WINDOW_SIZE

NoItem == [left |-> -1, trailer |-> FALSE]
NoFrame == [t |-> "none"]
UNLIMITED == MAX_STREAM_ID   \* NGHTTP2_DEFAULT_MAX_CONCURRENT_STREAMS

Put(f, k, v) == [x \in DOMAIN f \cup {k} |-> IF x = k THEN v ELSE f[x]]
Drop(f, k) == [x \in DOMAIN f \ {k} |-> f[x]]

----------------------------------------------------------------------------
(* The session and its streams.                                            *)

default_settings ==
  [MAX_CONCURRENT_STREAMS |-> UNLIMITED, ENABLE_PUSH |-> 1,
   INITIAL_WINDOW_SIZE |-> INITIAL_WINDOW_SIZE, MAX_FRAME_SIZE |-> DATA_PAYLOADLEN]

\* The flow control fields of a stream, or (key 0) of the connection.
Window(remote, local) ==
  [remote_window_size |-> remote, local_window_size |-> local,
   recv_window_size |-> 0, consumed_size |-> 0, recv_reduction |-> 0,
   window_update_queued |-> FALSE]

stream_init(state) ==
  [state |-> state, shut |-> {}, push |-> state = "RESERVED", closed |-> FALSE,
   deferred |-> {}, item |-> NoItem]

session_new(server, auto) ==
  [server |-> server, auto |-> auto, streams |-> <<>>, closed_streams |-> <<>>,
   win |-> [i \in {0} |-> Window(INITIAL_WINDOW_SIZE, INITIAL_WINDOW_SIZE)],
   ob_urgent |-> <<>>, ob_reg |-> <<>>, ob_syn |-> <<>>, aob |-> NoFrame,
   next_stream_id |-> IF server THEN 2 ELSE 1,
   last_sent |-> 0, last_recv |-> 0, last_proc |-> 0,
   local_last |-> MAX_STREAM_ID, remote_last |-> MAX_STREAM_ID, goaway |-> {},
   num_outgoing |-> 0, num_incoming |-> 0, num_reserved |-> 0,
   local |-> default_settings,
   remote |-> [default_settings EXCEPT !.MAX_CONCURRENT_STREAMS = 100],
   inflight |-> <<>>, pending_max |-> UNLIMITED, pending_push |-> 1,
   remote_settings_received |-> FALSE, flood |-> 0,
   first |-> TRUE, ign |-> FALSE, fatal |-> FALSE,
   begun |-> {}, closes |-> <<>>, held |-> <<>>, error |-> "NO_ERROR"]

is_my_stream_id(s, id) == id # 0 /\ id % 2 = (IF s.server THEN 0 ELSE 1)

\* nghttp2_session_get_stream finds the stream: it is known and not closed.
\* (Idle streams exist for priorities only and are StreamTree's.)
Live(s, id) == id \in DOMAIN s.streams /\ ~s.streams[id].closed

is_new_peer_stream_id(s, id) == id # 0 /\ ~is_my_stream_id(s, id) /\ s.last_recv < id

mutant_detect_idle_stream(s, id) ==
  IF is_my_stream_id(s, id) THEN s.last_sent <= id ELSE is_new_peer_stream_id(s, id)

detect_idle_stream(s, id) ==
  IF is_my_stream_id(s, id) THEN s.last_sent < id ELSE is_new_peer_stream_id(s, id)

outgoing_concurrent_streams_max(s) == s.remote.MAX_CONCURRENT_STREAMS <= s.num_outgoing
incoming_concurrent_streams_max(s) == s.local.MAX_CONCURRENT_STREAMS <= s.num_incoming
incoming_concurrent_streams_pending_max(s) == s.pending_max <= s.num_incoming

\* Streams whose DATA item is scheduled in the dependency tree.
Ready(s) == {id \in DOMAIN s.streams :
               s.streams[id].item # NoItem /\ s.streams[id].deferred = {}}

want_read(s) ==
  /\ "TERM_SENT" \notin s.goaway
  /\ \/ \E id \in DOMAIN s.streams : ~s.streams[id].closed
     \/ s.goaway \cap {"SENT", "RECV"} = {}

want_write(s) ==
  /\ "TERM_SENT" \notin s.goaway
  /\ \/ s.aob # NoFrame \/ s.ob_urgent # <<>> \/ s.ob_reg # <<>>
     \/ Ready(s) # {} /\ s.win[0].remote_window_size > 0
     \/ s.ob_syn # <<>> /\ ~outgoing_concurrent_streams_max(s)

session_is_closing(s) ==
  "TERM_ON_SEND" \in s.goaway \/ (~want_read(s) /\ ~want_write(s))

mutant_allow_incoming_new_stream(s) == "TERM_ON_SEND" \notin s.goaway

allow_incoming_new_stream(s) == s.goaway \cap {"TERM_ON_SEND", "SENT"} = {}

----------------------------------------------------------------------------
(* Opening, closing and queueing.                                          *)

open_stream(s, id, state) ==
  LET mine == is_my_stream_id(s, id)
      shut == IF state # "RESERVED" THEN {} ELSE IF mine THEN {"RD"} ELSE {"WR"}
      w == Window(s.remote.INITIAL_WINDOW_SIZE, s.local.INITIAL_WINDOW_SIZE)
      One(c) == IF c THEN 1 ELSE 0
  IN  [s EXCEPT !.streams = Put(@, id, [stream_init(state) EXCEPT !.shut = shut]),
                !.win = Put(@, id, w),
                !.num_reserved = @ + One(state = "RESERVED" /\ ~mine),
                !.num_outgoing = @ + One(state # "RESERVED" /\ mine),
                !.num_incoming = @ + One(state # "RESERVED" /\ ~mine)]

destroy_stream(s, id) == [s EXCEPT !.streams = Drop(@, id), !.win = Drop(@, id)]

\* on_stream_close_callback is the entry in closes.  A server keeps the
\* closed streams of its peer, for the dependency tree.
close_stream(s, id, code) ==
  IF ~Live(s, id) THEN s
  ELSE LET mine == is_my_stream_id(s, id)
           push == s.streams[id].push
           One(c) == IF c THEN 1 ELSE 0
           old == IF id \in DOMAIN s.closes THEN s.closes[id] ELSE <<>>
           c == [s EXCEPT !.closes = Put(@, id, Append(old, code)),
                          !.num_reserved = @ - One(push /\ ~mine),
                          !.num_outgoing = @ - One(~push /\ mine),
                          !.num_incoming = @ - One(~push /\ ~mine)]
       IN  IF s.server /\ ~mine
           THEN [c EXCEPT !.closed_streams = Append(@, id),
                          !.streams[id].closed = TRUE,
                          !.streams[id].item = NoItem,
                          !.streams[id].deferred = {}]
           ELSE destroy_stream(c, id)

\* The oldest closed streams go until they and the open ones fit the limit.
adjust_closed_stream(s) ==
  LET limit == IF s.local.MAX_CONCURRENT_STREAMS = UNLIMITED
               THEN s.pending_max ELSE s.local.MAX_CONCURRENT_STREAMS
      excess == Len(s.closed_streams) + s.num_incoming - limit
      gone == Min({Len(s.closed_streams), Max({0, excess})})
      ids == {s.closed_streams[i] : i \in 1..gone}
      Keep(f) == [x \in DOMAIN f \ ids |-> f[x]]
  IN  [s EXCEPT !.streams = Keep(@), !.win = Keep(@),
                !.closed_streams = SubSeq(@, gone + 1, Len(@))]

close_stream_if_shut_rdwr(s, id) ==
  IF s.streams[id].shut = {"RD", "WR"} THEN close_stream(s, id, "NO_ERROR") ELSE s

stream_shutdown(s, id, how) == [s EXCEPT !.streams[id].shut = @ \cup {how}]

close_stream_on_goaway(s, last, incoming) ==
  FoldSet(LAMBDA id, t : close_stream(t, id, "REFUSED_STREAM"), s,
          {id \in DOMAIN s.streams :
             id > last /\ Live(s, id) /\ is_my_stream_id(s, id) = ~incoming})

\* An item goes to its queue.  Requests and push responses have one of their
\* own, since MAX_CONCURRENT_STREAMS may hold them up; DATA waits at its stream.
add_item(s, f) ==
  LET live == f.t \notin {"SETTINGS", "PING", "GOAWAY"} /\ Live(s, f.id)
      Queue(t, q) == [t EXCEPT ![q] = Append(@, f)]
  IN  CASE f.t = "DATA" -> IF live /\ s.streams[f.id].item = NoItem
                           THEN [s EXCEPT !.streams[f.id].item = f.body] ELSE s
        [] f.t = "HEADERS" ->
             Queue(s, IF f.cat = "REQUEST" \/ (live /\ s.streams[f.id].state = "RESERVED")
                      THEN "ob_syn" ELSE "ob_reg")
        [] f.t \in {"SETTINGS", "PING"} -> Queue(s, "ob_urgent")
        [] f.t = "RST_STREAM" ->
             Queue(IF live THEN [s EXCEPT !.streams[f.id].state = "CLOSING"] ELSE s, "ob_reg")
        [] f.t = "PUSH_PROMISE" ->
             IF live THEN Queue(open_stream(s, f.pid, "RESERVED"), "ob_reg") ELSE s
        [] f.t = "WINDOW_UPDATE" ->
             Queue(IF f.id = 0 \/ live THEN [s EXCEPT !.win[f.id].window_update_queued = TRUE]
                   ELSE s, "ob_reg")
        [] OTHER -> Queue(s, "ob_reg")

add_window_update(s, id, inc) == add_item(s, [t |-> "WINDOW_UPDATE", id |-> id, inc |-> inc])

\* The request the client has queued and not sent is cancelled in the queue.
add_rst_stream(s, id, code) ==
  LET i == SelectInSeq(s.ob_syn, LAMBDA f : f.id = id)
  IN  CASE Live(s, id) /\ s.streams[id].state = "CLOSING" -> s
        [] ~s.server /\ i # 0 /\ s.ob_syn[i].canceled = "no" ->
             [s EXCEPT !.ob_syn[i].canceled = code]
        [] OTHER -> add_item(s, [t |-> "RST_STREAM", id |-> id, code |-> code])

add_goaway(s, last, code, aux) ==
  IF is_my_stream_id(s, last) THEN s
  ELSE add_item(s, [t |-> "GOAWAY", last |-> Min({last, s.local_last}), code |-> code, aux |-> aux])

terminate_session(s, code) ==
  IF "TERM_ON_SEND" \in s.goaway THEN s
  ELSE add_goaway([s EXCEPT !.ign = TRUE, !.goaway = @ \cup {"TERM_ON_SEND"}, !.error = code],
                  s.last_proc, code, "TERM_ON_SEND")

add_ping(s, ack) ==
  IF ack /\ s.flood >= MAX_OBQ_FLOOD_ITEM THEN [s EXCEPT !.fatal = TRUE]
  ELSE add_item([s EXCEPT !.flood = IF ack THEN @ + 1 ELSE @], [t |-> "PING", ack |-> ack])

\* The last entry of each kind counts for what is pending.
Pending(iv, key, old) ==
  LET i == SelectLastInSeq(iv, LAMBDA e : e[1] = key) IN IF i = 0 THEN old ELSE iv[i][2]

add_settings(s, ack, iv) ==
  IF ack /\ s.flood >= MAX_OBQ_FLOOD_ITEM THEN [s EXCEPT !.fatal = TRUE]
  ELSE add_item([s EXCEPT !.flood = IF ack THEN @ + 1 ELSE @,
                          !.inflight = IF ack THEN @ ELSE Append(@, iv),
                          !.pending_max = Pending(iv, "MAX_CONCURRENT_STREAMS", @),
                          !.pending_push = Pending(iv, "ENABLE_PUSH", @)],
                [t |-> "SETTINGS", ack |-> ack, iv |-> iv])

\* nghttp2_submit_data: no stream, or one that has an item, refuses it.
submit_data(s, id, body) == add_item(s, [t |-> "DATA", id |-> id, body |-> body])

----------------------------------------------------------------------------
(* Receiving side of flow control.                                         *)

should_send_window_update(local, recv) == recv > 0 /\ recv >= local \div 2

\* Hand n units of credit back to the peer in one WINDOW_UPDATE.
Replenish(s, id, n) ==
  add_window_update([s EXCEPT !.win[id].recv_window_size = @ - n], id, n)

mutant_update_recv_window_size(s, id, delta, send) ==
  LET w == s.win[id]
      recv == w.recv_window_size + delta
      t == [s EXCEPT !.win[id].recv_window_size = recv]
  IN  IF recv > w.local_window_size \/ recv > MAX_WINDOW_SIZE
      THEN IF id = 0 THEN terminate_session(s, "FLOW_CONTROL_ERROR")
           ELSE add_rst_stream(s, id, "FLOW_CONTROL_ERROR")
      ELSE IF send /\ s.auto /\ should_send_window_update(w.local_window_size, recv)
           THEN add_window_update(t, id, recv) ELSE t

\* session_update_recv_{connection,stream}_window_size.
update_recv_window_size(s, id, delta, send) ==
  LET w == s.win[id]
      recv == w.recv_window_size + delta
      t == [s EXCEPT !.win[id].recv_window_size = recv]
  IN  IF recv > w.local_window_size \/ recv > MAX_WINDOW_SIZE
      THEN IF id = 0 THEN terminate_session(s, "FLOW_CONTROL_ERROR")
           ELSE add_rst_stream(s, id, "FLOW_CONTROL_ERROR")
      ELSE IF /\ send /\ s.auto /\ ~w.window_update_queued
              /\ should_send_window_update(w.local_window_size, recv)
           THEN Replenish(t, id, recv) ELSE t

update_consumed_size(s, id, delta) ==
  LET w == s.win[id]
      c == w.consumed_size + delta
      n == Min({c, w.recv_window_size})
      Left(m) == [s EXCEPT !.win[id].consumed_size = c - m]
  IN  IF c > MAX_WINDOW_SIZE THEN terminate_session(s, "FLOW_CONTROL_ERROR")
      ELSE IF ~w.window_update_queued /\ should_send_window_update(w.local_window_size, n)
           THEN Replenish(Left(n), id, n) ELSE Left(0)

\* nghttp2_session_consume, for applications that do without auto.
session_consume(s, id, n) ==
  LET OfStream(t) == IF Live(t, id) THEN update_consumed_size(t, id, n) ELSE t
  IN  IF s.auto THEN s ELSE OfStream(update_consumed_size(s, 0, n))

\* The window after a change by delta, the credit to announce, and whether the
\* change is possible.
adjust_local_window_size(w, delta) ==
  LET d == delta - Max({0, w.recv_window_size})
      red == Min({w.recv_reduction, d})
  IN  CASE delta > 0 /\ d <= 0 ->
             [ok |-> TRUE, inc |-> delta,
              w |-> [w EXCEPT !.recv_window_size = -d]]
        [] delta > 0 /\ d > 0 ->
             [ok |-> w.local_window_size <= MAX_WINDOW_SIZE - d, inc |-> delta - red,
              w |-> [w EXCEPT !.local_window_size = @ + d,
                              !.recv_reduction = @ - red,
                              !.recv_window_size = IF @ < 0 THEN @ + red ELSE red]]
        [] OTHER ->
             [ok |-> w.local_window_size + delta >= 0, inc |-> 0,
              w |-> [w EXCEPT !.local_window_size = @ + delta,
                              !.recv_window_size = @ + delta,
                              !.recv_reduction = @ - delta]]

increase_local_window_size(w, delta) ==
  LET red == Min({w.recv_reduction, delta})
  IN  [ok |-> w.local_window_size <= MAX_WINDOW_SIZE - delta, inc |-> delta - red,
       w |-> [w EXCEPT !.local_window_size = @ + delta,
                       !.recv_reduction = @ - red, !.recv_window_size = @ + red]]

submit_window_update(s, id, delta) ==
  LET a == adjust_local_window_size(s.win[id], delta)
      t == [s EXCEPT !.win[id] = a.w]
  IN  IF delta = 0 \/ ~(id = 0 \/ Live(s, id)) \/ ~a.ok THEN s
      ELSE IF a.inc > 0
           THEN add_window_update(
                  [t EXCEPT !.win[id].consumed_size = Max({0, @ - a.inc})], id, a.inc)
           ELSE t

set_local_window_size(s, id, size) ==
  LET delta == size - s.win[id].local_window_size
      a == IF delta < 0 THEN adjust_local_window_size(s.win[id], delta)
           ELSE increase_local_window_size(s.win[id], delta)
      t == [s EXCEPT !.win[id] = a.w]
  IN  IF delta = 0 \/ ~(id = 0 \/ Live(s, id)) \/ ~a.ok THEN s
      ELSE IF a.inc > 0 THEN add_window_update(t, id, a.inc) ELSE t

----------------------------------------------------------------------------
(* Sending: taking an item from the queues, and what follows its bytes.    *)

pop_next_ob_item(s) ==
  CASE s.ob_urgent # <<>> -> "urgent"
    [] s.ob_urgent = <<>> /\ s.ob_reg # <<>> -> "reg"
    [] s.ob_urgent = <<>> /\ s.ob_reg = <<>> /\ s.ob_syn # <<>>
         /\ ~outgoing_concurrent_streams_max(s) -> "syn"
    [] OTHER -> "data"

predicate_for_stream_send(s, id) ==
  Live(s, id) /\ ~session_is_closing(s) /\ "WR" \notin s.streams[id].shut

predicate_request_headers_send(s, item) ==
  item.canceled = "no" /\ "RECV" \notin s.goaway /\ ~session_is_closing(s)

predicate_response_headers_send(s, id) ==
  /\ predicate_for_stream_send(s, id)
  /\ s.server /\ ~is_my_stream_id(s, id) /\ s.streams[id].state = "OPENING"

predicate_push_response_headers_send(s, id) ==
  /\ predicate_for_stream_send(s, id)
  /\ s.server /\ s.streams[id].state = "RESERVED" /\ "RECV" \notin s.goaway

predicate_headers_send(s, id) ==
  /\ predicate_for_stream_send(s, id)
  /\ s.streams[id].state # "CLOSING"
  /\ s.streams[id].state = "OPENED" \/ is_my_stream_id(s, id)

predicate_push_promise_send(s, id) ==
  /\ s.server /\ predicate_for_stream_send(s, id)
  /\ s.remote.ENABLE_PUSH # 0 /\ s.streams[id].state # "CLOSING"
  /\ "RECV" \notin s.goaway

predicate_window_update_send(s, id) ==
  /\ ~session_is_closing(s)
  /\ id = 0 \/ /\ Live(s, id)
               /\ s.streams[id].state # "CLOSING"
               /\ ~(s.streams[id].state = "RESERVED" /\ is_my_stream_id(s, id))

predicate_data_send(s, id) ==
  /\ predicate_for_stream_send(s, id)
  /\ \/ is_my_stream_id(s, id) /\ s.streams[id].state \notin {"CLOSING", "RESERVED"}
     \/ ~is_my_stream_id(s, id) /\ s.streams[id].state = "OPENED"

next_data_read(s, id) ==
  Max({0, Min({DATA_PAYLOADLEN, s.win[id].remote_window_size,
               s.win[0].remote_window_size, s.remote.MAX_FRAME_SIZE})})

detach_item(s, id) ==
  IF id \notin DOMAIN s.streams THEN s
  ELSE [s EXCEPT !.streams[id].item = NoItem, !.streams[id].deferred = {}]

\* The category a HEADERS that is not a request is sent with, "none" when the
\* stream does not allow it.
headers_cat(s, id) ==
  CASE Live(s, id) /\ s.streams[id].state = "RESERVED" ->
         IF predicate_push_response_headers_send(s, id) THEN "PUSH_RESPONSE" ELSE "none"
    [] predicate_response_headers_send(s, id) -> "RESPONSE"
    [] ~predicate_response_headers_send(s, id) /\ predicate_headers_send(s, id) -> "HEADERS"
    [] OTHER -> "none"

\* An item of ob_urgent or ob_reg that must be dropped instead of sent.
NotSent(s, f) ==
  CASE f.t = "SETTINGS" -> f.ack /\ session_is_closing(s)
    [] f.t = "PING" -> "TERM_ON_SEND" \in s.goaway
    [] f.t = "RST_STREAM" -> session_is_closing(s)
    [] f.t = "WINDOW_UPDATE" -> ~predicate_window_update_send(s, f.id)
    [] f.t = "HEADERS" -> headers_cat(s, f.id) = "none"
    [] f.t = "PUSH_PROMISE" -> ~predicate_push_promise_send(s, f.id)
    [] OTHER -> FALSE

\* session_prep_frame and the failure branch of mem_send_internal for control
\* frames; the ACKs of SETTINGS and PING leave the flood counter either way.
prep_control(s, q) ==
  LET f == Head(s[q])
      acked == f.t \in {"SETTINGS", "PING"} /\ f.ack
      t == [s EXCEPT ![q] = Tail(@), !.flood = IF acked THEN @ - 1 ELSE @]
  IN  CASE NotSent(t, f) /\ f.t = "PUSH_PROMISE" -> close_stream(t, f.pid, "INTERNAL_ERROR")
        [] NotSent(t, f) /\ f.t # "PUSH_PROMISE" -> t
        [] OTHER ->
             [t EXCEPT !.aob = IF f.t = "HEADERS"
                               THEN [f EXCEPT !.cat = headers_cat(t, f.id)] ELSE f,
                       !.last_sent = IF f.t = "PUSH_PROMISE" THEN f.pid ELSE @,
                       !.local_last = IF f.t = "GOAWAY" THEN f.last ELSE @]

\* The request at the head of ob_syn leaves the queue and its stream is opened.
open_request(s) ==
  open_stream([s EXCEPT !.ob_syn = Tail(@)], Head(s.ob_syn).id, "INITIAL")

\* Is the head of ob_syn a request that will not be sent?
RequestRefused(s) ==
  Head(s.ob_syn).cat = "REQUEST" /\ ~predicate_request_headers_send(open_request(s), Head(s.ob_syn))

\* The end of the failure branch of mem_send_internal for request f, which comes
\* after on_frame_not_send_callback: its stream is closed.
close_refused(s, f) ==
  close_stream(s, f.id, IF f.canceled # "no" THEN f.canceled ELSE "REFUSED_STREAM")

\* ob_syn holds requests of a client or push responses of a server.
prep_syn(s) ==
  LET f == Head(s.ob_syn)
  IN  CASE f.cat # "REQUEST" -> prep_control(s, "ob_syn")
        [] RequestRefused(s) -> close_refused(open_request(s), f)
        [] OTHER -> [open_request(s) EXCEPT !.aob = f, !.last_sent = f.id]

\* The DATA item of stream id; how is what its read callback does: it supplies
\* data, defers, or fails.  With trailers the callback submits them at the end
\* of the body and END_STREAM is theirs.
prep_data(s, id, how) ==
  LET item == s.streams[id].item
      n == Min({item.left, next_data_read(s, id)})
      eof == n = item.left
      es == eof /\ ~item.trailer
      t == [s EXCEPT !.streams[id].item.left = @ - n]
      u == IF eof /\ item.trailer
           THEN add_item(t, [t |-> "HEADERS", id |-> id, es |-> TRUE, cat |-> "HEADERS",
                             canceled |-> "no", body |-> NoItem])
           ELSE t
  IN  CASE ~predicate_data_send(s, id) -> detach_item(s, id)
        [] predicate_data_send(s, id) /\ next_data_read(s, id) = 0 ->
             [s EXCEPT !.streams[id].deferred = @ \cup {"FLOW_CONTROL"}]
        [] OTHER ->
             CASE how = "defer" -> [s EXCEPT !.streams[id].deferred = @ \cup {"USER"}]
               [] how = "fail" -> add_rst_stream(detach_item(s, id), id, "INTERNAL_ERROR")
               [] how = "data" /\ n = 0 /\ eof /\ ~es -> detach_item(u, id)
               [] OTHER -> [u EXCEPT !.aob = [t |-> "DATA", id |-> id, len |-> n,
                                              es |-> es, eof |-> eof]]

\* What the peer gets of the frame in aob.
WireFrame(f) ==
  CASE f.t = "HEADERS" -> [t |-> "HEADERS", id |-> f.id, es |-> f.es]
    [] f.t = "DATA" -> [t |-> "DATA", id |-> f.id, len |-> f.len, es |-> f.es]
    [] f.t = "GOAWAY" -> [t |-> "GOAWAY", last |-> f.last, code |-> f.code]
    [] OTHER -> f

data_sent(s, f) ==
  LET c == [s EXCEPT !.win[0].remote_window_size = @ - f.len]
      w == [c EXCEPT !.win[f.id].remote_window_size = @ - f.len]
      d == detach_item(w, f.id)
  IN  CASE ~Live(s, f.id) -> c
        [] Live(s, f.id) /\ f.eof ->
             IF f.es THEN close_stream_if_shut_rdwr(stream_shutdown(d, f.id, "WR"), f.id) ELSE d
        [] OTHER -> IF predicate_data_send(w, f.id) THEN w ELSE d

headers_sent(s, f) ==
  LET o == [s EXCEPT !.streams[f.id].state = IF f.cat = "REQUEST" THEN "OPENING"
                                             ELSE IF f.cat = "HEADERS" THEN @ ELSE "OPENED",
                     !.streams[f.id].push = IF f.cat = "PUSH_RESPONSE" THEN FALSE ELSE @,
                     !.num_outgoing = IF f.cat = "PUSH_RESPONSE" THEN @ + 1 ELSE @]
      e == IF f.es THEN close_stream_if_shut_rdwr(stream_shutdown(o, f.id, "WR"), f.id) ELSE o
  IN  IF ~Live(s, f.id) THEN s
      ELSE IF f.body = NoItem THEN e ELSE submit_data(e, f.id, f.body)

goaway_sent(s, f) ==
  IF f.aux = "SHUTDOWN_NOTICE" THEN s
  ELSE close_stream_on_goaway(
         [s EXCEPT !.goaway = @ \cup {"SENT"} \cup (IF f.aux = "TERM_ON_SEND"
                                                    THEN {"TERM_SENT"} ELSE {})],
         f.last, TRUE)

\* Credit that gathered while the WINDOW_UPDATE was queued goes out next.
window_update_sent(s, f) ==
  LET t == [s EXCEPT !.win[f.id].window_update_queued = FALSE]
  IN  CASE f.id # 0 /\ ~Live(s, f.id) -> s
        [] f.id # 0 /\ Live(s, f.id) /\ "RD" \in s.streams[f.id].shut -> t
        [] OTHER -> IF s.auto THEN update_recv_window_size(t, f.id, 0, TRUE)
                    ELSE update_consumed_size(t, f.id, 0)

\* session_after_frame_sent1 and 2.
after_frame_sent(s) ==
  LET f == s.aob
      t == [s EXCEPT !.aob = NoFrame]
  IN  CASE f.t = "DATA" -> data_sent(t, f)
        [] f.t = "HEADERS" -> headers_sent(t, f)
        [] f.t = "RST_STREAM" -> close_stream(t, f.id, f.code)
        [] f.t = "GOAWAY" -> goaway_sent(t, f)
        [] f.t = "WINDOW_UPDATE" -> window_update_sent(t, f)
        [] OTHER -> t

----------------------------------------------------------------------------
(* Receiving.                                                              *)

\* nghttp2_session_on_request_headers_received; begun is the application's
\* on_begin_headers_callback.  The second component tells whether the header
\* block is passed on (it is not ignored).
on_request_headers_received(s, f) ==
  LET r == [s EXCEPT !.last_recv = f.id]
      o == adjust_closed_stream(open_stream(r, f.id, "OPENING"))
      old == f.id \in DOMAIN s.streams /\ "RD" \in s.streams[f.id].shut
  IN  CASE ~s.server ->
             IF detect_idle_stream(s, f.id) THEN <<terminate_session(s, "PROTOCOL_ERROR"), FALSE>>
             ELSE <<s, FALSE>>
        [] s.server /\ ~is_new_peer_stream_id(s, f.id) ->
             IF f.id = 0 \/ is_my_stream_id(s, f.id)
             THEN <<terminate_session(s, "PROTOCOL_ERROR"), FALSE>>
             ELSE IF old THEN <<terminate_session(s, "STREAM_CLOSED"), FALSE>> ELSE <<s, FALSE>>
        [] OTHER ->
             IF incoming_concurrent_streams_max(r)
             THEN <<terminate_session(r, "PROTOCOL_ERROR"), FALSE>>
             ELSE IF ~allow_incoming_new_stream(r) THEN <<r, FALSE>>
             ELSE IF incoming_concurrent_streams_pending_max(r)
                  THEN <<add_rst_stream(r, f.id, "REFUSED_STREAM"), FALSE>>
                  ELSE <<[o EXCEPT !.last_proc = o.last_recv, !.begun = @ \cup {f.id}], TRUE>>

on_response_headers_received(s, f) ==
  IF "RD" \in s.streams[f.id].shut THEN <<terminate_session(s, "STREAM_CLOSED"), FALSE>>
  ELSE <<[s EXCEPT !.streams[f.id].state = "OPENED"], TRUE>>

on_push_response_headers_received(s, f) ==
  CASE s.server \/ incoming_concurrent_streams_max(s) ->
         <<terminate_session(s, "PROTOCOL_ERROR"), FALSE>>
    [] ~s.server /\ ~incoming_concurrent_streams_max(s) /\ ~allow_incoming_new_stream(s) ->
         <<s, FALSE>>
    [] OTHER ->
         IF incoming_concurrent_streams_pending_max(s)
         THEN <<add_rst_stream(s, f.id, "REFUSED_STREAM"), FALSE>>
         ELSE <<[s EXCEPT !.streams[f.id].state = "OPENED", !.streams[f.id].push = FALSE,
                          !.num_reserved = @ - 1, !.num_incoming = @ + 1], TRUE>>

on_headers_received(s, f) ==
  LET st == s.streams[f.id]
  IN  IF "RD" \in st.shut THEN <<terminate_session(s, "STREAM_CLOSED"), FALSE>>
      ELSE <<s, IF is_my_stream_id(s, f.id) THEN st.state = "OPENED" ELSE st.state # "CLOSING">>

process_headers_frame(s, f) ==
  CASE ~Live(s, f.id) -> on_request_headers_received(s, f)
    [] Live(s, f.id) /\ s.streams[f.id].state = "RESERVED" ->
         on_push_response_headers_received(s, f)
    [] Live(s, f.id) /\ s.streams[f.id].state = "OPENING" /\ is_my_stream_id(s, f.id) ->
         on_response_headers_received(s, f)
    [] OTHER -> on_headers_received(s, f)

\* process_headers_frame, then session_after_header_block_received.
recv_headers(s, f) ==
  LET After(t, passed_on) ==
        IF ~passed_on \/ t.ign \/ ~Live(t, f.id) \/ ~f.es THEN t
        ELSE IF t.streams[f.id].state = "CLOSING" THEN t
        ELSE close_stream_if_shut_rdwr(stream_shutdown(t, f.id, "RD"), f.id)
      Processed(p) == After(p[1], p[2])
  IN  Processed(process_headers_frame(s, f))

on_rst_stream_received(s, f) ==
  CASE f.id = 0 \/ detect_idle_stream(s, f.id) -> terminate_session(s, "PROTOCOL_ERROR")
    [] ~(f.id = 0 \/ detect_idle_stream(s, f.id)) /\ Live(s, f.id) ->
         close_stream(stream_shutdown(s, f.id, "RD"), f.id, f.code)
    [] OTHER -> s

\* update_remote_initial_window_size_func for every stream; a window that got
\* room again resumes its DATA.
update_remote_initial_window_size(s, new) ==
  LET delta == new - s.remote.INITIAL_WINDOW_SIZE
      One(t, id) ==
        LET n == t.win[id].remote_window_size + delta
        IN  IF n > MAX_WINDOW_SIZE THEN add_rst_stream(t, id, "FLOW_CONTROL_ERROR")
            ELSE [t EXCEPT !.win[id].remote_window_size = n,
                           !.streams[id].deferred = IF n > 0 THEN @ \ {"FLOW_CONTROL"} ELSE @]
  IN  FoldSet(LAMBDA id, t : One(t, id), s, DOMAIN s.streams)

update_local_initial_window_size(s, new) ==
  LET delta == new - s.local.INITIAL_WINDOW_SIZE
      One(t, id) ==
        LET w == t.win[id]
            n == w.local_window_size + delta
            u == [t EXCEPT !.win[id].local_window_size = n]
        IN  IF n > MAX_WINDOW_SIZE THEN add_rst_stream(t, id, "FLOW_CONTROL_ERROR")
            ELSE IF /\ t.auto /\ ~w.window_update_queued
                    /\ should_send_window_update(n, w.recv_window_size)
                 THEN Replenish(u, id, w.recv_window_size) ELSE u
  IN  FoldSet(LAMBDA id, t : One(t, id), s, DOMAIN s.streams)

\* nghttp2_session_update_local_settings: the last INITIAL_WINDOW_SIZE counts
\* for the streams, then every entry is stored.
update_local_settings(s, iv) ==
  LET new == Pending(iv, "INITIAL_WINDOW_SIZE", s.local.INITIAL_WINDOW_SIZE)
      Store(t) == [t EXCEPT !.local = FoldLeft(LAMBDA r, e : [r EXCEPT ![e[1]] = e[2]], @, iv)]
  IN  Store(update_local_initial_window_size(s, new))

\* One entry of a SETTINGS frame.
settings_entry(s, e) ==
  CASE e[1] = "INITIAL_WINDOW_SIZE" ->
         IF e[2] > MAX_WINDOW_SIZE THEN terminate_session(s, "FLOW_CONTROL_ERROR")
         ELSE [update_remote_initial_window_size(s, e[2]) EXCEPT !.remote[e[1]] = e[2]]
    [] e[1] = "ENABLE_PUSH" /\ (e[2] \notin {0, 1} \/ (~s.server /\ e[2] # 0)) ->
         terminate_session(s, "PROTOCOL_ERROR")
    [] OTHER -> [s EXCEPT !.remote[e[1]] = e[2]]

\* The entries of the peer's SETTINGS, in order, until one is wrong.
noack_settings(s, iv) ==
  LET t == [s EXCEPT !.remote_settings_received = TRUE,
                     !.remote.MAX_CONCURRENT_STREAMS =
                        IF s.remote_settings_received THEN @ ELSE UNLIMITED]
  IN  FoldLeft(LAMBDA r, e : IF r.ign THEN r ELSE settings_entry(r, e), t, iv)

on_settings_received(s, f) ==
  LET Acknowledge(u) == IF u.ign \/ session_is_closing(u) THEN u ELSE add_settings(u, TRUE, <<>>)
  IN  IF f.ack
      THEN IF s.inflight = <<>> THEN terminate_session(s, "PROTOCOL_ERROR")
           ELSE update_local_settings([s EXCEPT !.inflight = Tail(@)], Head(s.inflight))
      ELSE Acknowledge(noack_settings(s, f.iv))

on_push_promise_received(s, f) ==
  LET r == [s EXCEPT !.last_recv = f.pid]
      unwanted == \/ ~Live(r, f.id) \/ r.streams[f.id].state = "CLOSING"
                  \/ r.pending_push = 0 \/ r.num_reserved >= MAX_RESERVED
  IN  CASE f.id = 0 \/ s.server \/ s.local.ENABLE_PUSH = 0 \/ ~is_my_stream_id(s, f.id) ->
             terminate_session(s, "PROTOCOL_ERROR")
        [] ~allow_incoming_new_stream(s) -> s
        [] ~is_new_peer_stream_id(s, f.pid) \/ detect_idle_stream(s, f.id) ->
             terminate_session(s, "PROTOCOL_ERROR")
        [] OTHER ->
             IF unwanted THEN add_rst_stream(r, f.pid, "CANCEL")
             ELSE IF "RD" \in r.streams[f.id].shut THEN terminate_session(r, "STREAM_CLOSED")
             ELSE [open_stream(r, f.pid, "RESERVED") EXCEPT !.last_proc = f.pid]

on_ping_received(s, f) ==
  IF ~f.ack /\ ~session_is_closing(s) THEN add_ping(s, TRUE) ELSE s

on_goaway_received(s, f) ==
  IF (f.last > 0 /\ ~is_my_stream_id(s, f.last)) \/ s.remote_last < f.last
  THEN terminate_session(s, "PROTOCOL_ERROR")
  ELSE close_stream_on_goaway(
         [s EXCEPT !.goaway = @ \cup {"RECV"}, !.remote_last = f.last], f.last, FALSE)

mutant_on_window_update_received(s, f) ==
  LET reserved == ~is_my_stream_id(s, f.id) /\ s.streams[f.id].state = "RESERVED"
      fits == s.win[f.id].remote_window_size <= MAX_WINDOW_SIZE - f.inc
      t == [s EXCEPT !.win[f.id].remote_window_size = @ + f.inc]
  IN  CASE f.id = 0 ->
             IF f.inc = 0 THEN terminate_session(s, "PROTOCOL_ERROR")
             ELSE IF fits THEN t ELSE terminate_session(s, "FLOW_CONTROL_ERROR")
        [] f.id # 0 /\ detect_idle_stream(s, f.id) -> terminate_session(s, "PROTOCOL_ERROR")
        [] f.id # 0 /\ ~detect_idle_stream(s, f.id) /\ Live(s, f.id) ->
             IF reserved \/ f.inc = 0 THEN terminate_session(s, "PROTOCOL_ERROR")
             ELSE IF ~fits THEN add_rst_stream(s, f.id, "FLOW_CONTROL_ERROR")
             ELSE t
        [] OTHER -> s

on_window_update_received(s, f) ==
  LET reserved == ~is_my_stream_id(s, f.id) /\ s.streams[f.id].state = "RESERVED"
      fits == s.win[f.id].remote_window_size <= MAX_WINDOW_SIZE - f.inc
      t == [s EXCEPT !.win[f.id].remote_window_size = @ + f.inc]
  IN  CASE f.id = 0 ->
             IF f.inc = 0 THEN terminate_session(s, "PROTOCOL_ERROR")
             ELSE IF fits THEN t ELSE terminate_session(s, "FLOW_CONTROL_ERROR")
        [] f.id # 0 /\ detect_idle_stream(s, f.id) -> terminate_session(s, "PROTOCOL_ERROR")
        [] f.id # 0 /\ ~detect_idle_stream(s, f.id) /\ Live(s, f.id) ->
             IF reserved \/ f.inc = 0 THEN terminate_session(s, "PROTOCOL_ERROR")
             ELSE IF ~fits THEN add_rst_stream(s, f.id, "FLOW_CONTROL_ERROR")
             ELSE [t EXCEPT !.streams[f.id].deferred =
                      IF t.win[f.id].remote_window_size > 0 THEN @ \ {"FLOW_CONTROL"} ELSE @]
        [] OTHER -> s

\* session_on_data_received_fail_fast: "ok", "ignore", or the error.
data_fail_fast(s, id) ==
  LET st == s.streams[id]
  IN  CASE id = 0 \/ detect_idle_stream(s, id) -> "PROTOCOL_ERROR"
        [] id # 0 /\ ~detect_idle_stream(s, id) /\ id \notin DOMAIN s.streams -> "ignore"
        [] OTHER ->
             CASE "RD" \in st.shut -> "STREAM_CLOSED"
               [] "RD" \notin st.shut /\ (st.closed \/ st.state = "CLOSING") -> "ignore"
               [] OTHER -> IF is_my_stream_id(s, id)
                           THEN IF st.state = "OPENED" THEN "ok" ELSE "PROTOCOL_ERROR"
                           ELSE IF st.state = "RESERVED" THEN "PROTOCOL_ERROR" ELSE "ok"

\* The states READ_DATA and IGN_DATA of nghttp2_session_mem_recv and
\* session_process_data_frame, for a frame that arrives in one piece.
recv_data(s, f) ==
  LET why == data_fail_fast(s, f.id)
      Charged(t, id, send) == IF f.len = 0 THEN t ELSE update_recv_window_size(t, id, f.len, send)
      had == IF f.id \in DOMAIN s.held THEN s.held[f.id] ELSE 0
      Held(w) == IF s.auto \/ f.len = 0 THEN w ELSE [w EXCEPT !.held = Put(@, f.id, had + f.len)]
      Ended(u) == IF u.streams[f.id].state = "CLOSING" \/ ~f.es THEN u
                  ELSE close_stream_if_shut_rdwr(stream_shutdown(u, f.id, "RD"), f.id)
      Ignored(t) == IF t.ign \/ s.auto \/ f.len = 0 THEN t ELSE update_consumed_size(t, 0, f.len)
      Taken(t) == IF t.ign THEN t ELSE Ended(Held(Charged(t, f.id, ~f.es)))
  IN  CASE why = "ignore" -> Ignored(Charged(s, 0, TRUE))
        [] why = "ok" -> Taken(Charged(s, 0, TRUE))
        [] OTHER -> terminate_session(s, why)

\* One frame in the loop of nghttp2_session_mem_recv.
recv_frame(s, f) ==
  LET t == [s EXCEPT !.first = FALSE]
  IN  CASE s.ign \/ s.fatal -> s
        [] ~s.ign /\ ~s.fatal /\ s.first /\ ~(f.t = "SETTINGS" /\ ~f.ack) ->
             terminate_session(s, "PROTOCOL_ERROR")
        [] OTHER ->
             CASE f.t = "DATA" -> recv_data(t, f)
               [] f.t = "HEADERS" -> recv_headers(t, f)
               [] f.t = "RST_STREAM" -> on_rst_stream_received(t, f)
               [] f.t = "SETTINGS" -> on_settings_received(t, f)
               [] f.t = "PUSH_PROMISE" -> on_push_promise_received(t, f)
               [] f.t = "PING" -> on_ping_received(t, f)
               [] f.t = "GOAWAY" -> on_goaway_received(t, f)
               [] f.t = "WINDOW_UPDATE" -> on_window_update_received(t, f)

\* One call of nghttp2_session_mem_recv with the frames fs: whether the session
\* reads at all is asked once, before the first of them.
mem_recv(s, fs) == IF want_read(s) THEN FoldLeft(recv_frame, s, fs) ELSE s

----------------------------------------------------------------------------
(* The application's calls.                                                *)

headers_item(id, cat, body) ==
  [t |-> "HEADERS", id |-> id, es |-> body = NoItem, cat |-> cat,
   canceled |-> "no", body |-> body]

submit_request(s, body) ==
  add_item([s EXCEPT !.next_stream_id = @ + 2], headers_item(s.next_stream_id, "REQUEST", body))

submit_response(s, id, body) == add_item(s, headers_item(id, "HEADERS", body))

submit_goaway(s, last) ==
  IF "TERM_ON_SEND" \in s.goaway THEN s ELSE add_goaway(s, last, "NO_ERROR", "NONE")

submit_shutdown_notice(s) ==
  IF ~s.server \/ s.goaway # {} THEN s
  ELSE add_goaway(s, MAX_STREAM_ID, "NO_ERROR", "SHUTDOWN_NOTICE")

\* The promised stream is opened when the promise is queued.
submit_push_promise(s, id) ==
  IF ~s.server \/ is_my_stream_id(s, id) THEN s
  ELSE add_item([s EXCEPT !.next_stream_id = @ + 2],
                [t |-> "PUSH_PROMISE", id |-> id, pid |-> s.next_stream_id])

session_resume_data(s, id) ==
  IF Live(s, id) THEN [s EXCEPT !.streams[id].deferred = @ \ {"USER"}] ELSE s

\* nghttp2_session_upgrade: stream 1 is the request of the HTTP/1.1 Upgrade, and
\* iv the client's SETTINGS in its HTTP2-Settings field.
upgrade(s, iv) ==
  LET Opened(t) == open_stream(t, 1, "OPENING")
  IN  IF s.server
      THEN stream_shutdown(Opened(noack_settings([s EXCEPT !.last_recv = 1, !.last_proc = 1, !.begun = {1}], iv)),
                           1, "RD")
      ELSE stream_shutdown(Opened(add_settings([s EXCEPT !.last_sent = 1, !.next_stream_id = @ + 2], FALSE, iv)),
                           1, "WR")
=============================================================================
