----------------------------- MODULE Http2Client -----------------------------
(***************************************************************************)
(* A client of h2load in HTTP/2: Http2Session and the parts of Client it   *)
(* calls back, on top of an nghttp2 session, against a server that is      *)
(* another one.  The read handler takes any number of the frames that have *)
(* arrived; the write handler fills the write buffer wb from the session   *)
(* until the session has nothing more or wb is full, and the socket takes  *)
(* a part of wb.  The worker is in its main phase and alone, without qps.  *)
(* Bytes in wb are counted in frames.                                      *)
(***************************************************************************)
EXTENDS H2Pair

CONSTANT BACKOFF_WRITE_BUFFER_THRES   \* 16k bytes, as a number of frames

VARIABLES app,   \* the client's counters, its map of streams, and its state
          wb     \* frames on their way to the socket

cvars == <<ses, chan, ops, answered, ended, sc, app, wb>>

\* The session, what the client keeps, and wb: what a handler works on.
Now == [s |-> ses.client, a |-> app, wb |-> wb]

Fresh ==
  [state |-> "CONNECTING", streams |-> {}, total_req_left |-> sc.nreqs, total_req_send |-> 0,
   req_started |-> 0, req_inflight |-> 0, req_done |-> 0, req_success |-> 0,
   req_status_success |-> 0, req_failed |-> 0, req_error |-> 0, req_timedout |-> 0]

CInit ==
  /\ sc \in Scenarios
  /\ ses = [client |-> session_new(FALSE, TRUE), server |-> Opened("server")]
  /\ chan = [e \in Ends |-> <<>>] /\ ops = sc.ops /\ answered = {} /\ ended = {}
  /\ app = Fresh /\ wb = <<>>

----------------------------------------------------------------------------
(* Client and Http2Session.                                                *)

check_request_allowed(s) == "RECV" \notin s.goaway /\ ~session_is_closing(s)

\* Client::submit_request: the budget is charged before the session is asked.
client_submit_request(p) ==
  LET b == [p EXCEPT !.a.total_req_left = @ - 1, !.a.total_req_send = @ + 1]
      t == submit_request(p.s, sc.body)
  IN  CASE p.a.total_req_left = 0 -> p
        [] p.a.total_req_left > 0 /\ ~check_request_allowed(p.s) -> b
        [] OTHER -> [b EXCEPT !.s = t, !.a.streams = @ \cup {p.s.next_stream_id},
                              !.a.req_started = @ + 1, !.a.req_inflight = @ + 1]

mutant_on_stream_close(p, id, success) ==
  LET d == [p EXCEPT !.a.req_inflight = Max({0, @ - 1})]
      One(c) == IF c THEN 1 ELSE 0
      e == [d EXCEPT !.a.streams = @ \ {id}, !.a.req_done = @ + 1,
                     !.a.req_success = @ + One(success),
                     !.a.req_status_success = @ + One(success /\ sc.good),
                     !.a.req_failed = @ + One(~(success /\ sc.good)),
                     !.a.req_error = @ + One(~success)]
  IN  IF e.a.total_req_left = 0 THEN [e EXCEPT !.s = terminate_session(@, "NO_ERROR")]
      ELSE client_submit_request(e)

mutant_keep_stream(p, id, success) ==
  LET d == [p EXCEPT !.a.req_inflight = Max({0, @ - 1})]
      One(c) == IF c THEN 1 ELSE 0
      e == [d EXCEPT !.a.req_done = @ + 1,
                     !.a.req_success = @ + One(success),
                     !.a.req_status_success = @ + One(success /\ sc.good),
                     !.a.req_failed = @ + One(~(success /\ sc.good)),
                     !.a.req_error = @ + One(~success)]
  IN  CASE id \notin p.a.streams -> d
        [] id \in p.a.streams /\ e.a.total_req_left = 0 ->
             [e EXCEPT !.s = terminate_session(@, "NO_ERROR")]
        [] OTHER -> client_submit_request(e)

\* sc.good: the server's answers have a status below 400 (Client::on_header).
on_stream_close(p, id, success) ==
  LET d == [p EXCEPT !.a.req_inflight = Max({0, @ - 1})]
      One(c) == IF c THEN 1 ELSE 0
      e == [d EXCEPT !.a.streams = @ \ {id}, !.a.req_done = @ + 1,
                     !.a.req_success = @ + One(success),
                     !.a.req_status_success = @ + One(success /\ sc.good),
                     !.a.req_failed = @ + One(~(success /\ sc.good)),
                     !.a.req_error = @ + One(~success)]
  IN  CASE id \notin p.a.streams -> d
        [] id \in p.a.streams /\ e.a.total_req_left = 0 ->
             [e EXCEPT !.s = terminate_session(@, "NO_ERROR")]
        [] OTHER -> client_submit_request(e)

\* The close callbacks of a library call that took the session from p.s to t.
CloseCallbacks(p, t) ==
  LET Count(s, id) == IF id \in DOMAIN s.closes THEN Len(s.closes[id]) ELSE 0
      new == {id \in DOMAIN t.closes : Count(t, id) > Count(p.s, id)}
  IN  FoldSet(LAMBDA id, q : on_stream_close(q, id, Last(t.closes[id]) = "NO_ERROR"),
              [p EXCEPT !.s = t], new)

\* Termination out of a callback: the frame being received ends with
\* session_inbound_frame_reset, which lets the session go on reading after DATA
\* and HEADERS, and not after the other frames.
RecvOne(p, f) ==
  LET FrameReset(q, ign) == IF f.t \in {"DATA", "HEADERS"} THEN [q EXCEPT !.s.ign = ign] ELSE q
      Called(t) == FrameReset(CloseCallbacks(p, t), t.ign)
  IN  Called(recv_frame(p.s, f))

\* A request that is not sent is reported twice: by on_frame_not_send_callback,
\* which may terminate the session, and then by the close of the stream that was
\* opened for it.
NotSentRequest(p) ==
  LET f == Head(p.s.ob_syn)
      told == on_stream_close([p EXCEPT !.s = open_request(p.s)], f.id, FALSE)
  IN  CloseCallbacks(told, close_refused(told.s, f))

PrepareOne(p, t) ==
  IF pop_next_ob_item(p.s) = "syn" /\ RequestRefused(p.s) THEN NotSentRequest(p)
  ELSE CloseCallbacks(p, t)

\* send_callback appends the frame of aob to wb.
Sent(p) ==
  CloseCallbacks([p EXCEPT !.wb = Append(@, WireFrame(p.s.aob))], after_frame_sent(p.s))

WouldBlock(p) == Len(p.wb) >= BACKOFF_WRITE_BUFFER_THRES

\* nghttp2_session_send: frame after frame until nothing is left or the callback
\* answers WOULDBLOCK with the frame in aob.
RECURSIVE session_send(_)
session_send(p) ==
  IF p.s.aob # NoFrame
  THEN IF WouldBlock(p) THEN {p} ELSE session_send(Sent(p))
  ELSE LET next == {PrepareOne(p, q[1]) : q \in PreparedFrom(p.s, sc.reads)}
       IN  IF next = {} THEN {p} ELSE UNION {session_send(n) : n \in next}

\* The test at the end of on_read and on_write: nothing is left to do.
Finished(p) == ~want_read(p.s) /\ ~want_write(p.s) /\ p.wb = <<>>

\* Client::fail, and try_again_or_fail of a client that asked for no reconnect.
fail(p) ==
  [p EXCEPT !.a.state = "IDLE", !.a.streams = {}, !.a.req_failed = @ + p.a.req_inflight,
            !.a.req_error = @ + p.a.req_inflight, !.a.req_inflight = 0]

\* What becomes of the client after on_read or on_write.
Answer(p) == IF p.s.fatal \/ Finished(p) THEN fail(p) ELSE p

Set(p) ==
  /\ ses' = [ses EXCEPT !.client = p.s] /\ app' = p.a /\ wb' = p.wb
  /\ UNCHANGED <<ops, answered, ended, sc>>

----------------------------------------------------------------------------
(* The event loop of the client.                                           *)

\* Http2Session::on_connect and Client::connection_made.
connection_made ==
  LET s == set_local_window_size(add_settings(ses.client, FALSE, sc.iv.client), 0, sc.window)
      n == Min({sc.m, sc.nreqs})
  IN  /\ app.state = "CONNECTING"
      /\ Set(FoldLeft(LAMBDA p, i : client_submit_request(p),
                      [Now EXCEPT !.s = s, !.a.state = "CONNECTED"], [i \in 1..n |-> i]))
      /\ UNCHANGED chan

\* Client::read_clear: one read() brings the next n frames.
read_clear ==
  /\ app.state = "CONNECTED"
  /\ \E n \in 1..Len(chan.client) :
       LET p == IF want_read(ses.client) THEN FoldLeft(RecvOne, Now, SubSeq(chan.client, 1, n))
                ELSE Now
       IN  /\ Set(Answer(p))
           /\ chan' = [chan EXCEPT !.client = SubSeq(@, n + 1, Len(@))]

\* One round of Client::write_clear: on_write, then writev takes n frames of wb.
write_clear ==
  /\ app.state = "CONNECTED"
  /\ \E p \in (IF WouldBlock(Now) THEN {Now} ELSE session_send(Now)) :
       IF ~WouldBlock(Now) /\ Answer(p) # p
       THEN Set(Answer(p)) /\ UNCHANGED chan
       ELSE \E n \in 0..Len(p.wb) :
              /\ Set([p EXCEPT !.wb = SubSeq(@, n + 1, Len(@))])
              /\ chan' = [chan EXCEPT !.server = @ \o SubSeq(p.wb, 1, n)]

\* conn_timeout_cb: the time of -T or -N is over.
timeout ==
  /\ app.state = "CONNECTED" /\ sc.timers
  /\ Set(fail([Now EXCEPT !.a.req_timedout = @ + app.req_inflight]))
  /\ UNCHANGED chan

\* The server has no more use for the connection.
ServerDone == ~want_read(ses.server) /\ ~want_write(ses.server)

\* read() answers 0, after everything the server sent.
Eof ==
  /\ app.state = "CONNECTED" /\ (sc.hangs_up \/ ServerDone) /\ chan.client = <<>>
  /\ Set(fail(Now)) /\ UNCHANGED chan

Server ==
  /\ app.state = "CONNECTED"
  /\ \/ Send("server") \/ Recv("server") \/ Respond \/ Reset("server")
     \/ Goaway("server") \/ Shutdown \/ Terminate("server") \/ Settings("server")
  /\ UNCHANGED <<app, wb>>

CNext == connection_made \/ read_clear \/ write_clear \/ timeout \/ Eof \/ Server

CSpec == CInit /\ [][CNext]_cvars

----------------------------------------------------------------------------
(* Safety.                                                                 *)

\* No request is counted twice: those that succeeded, failed or are in flight are
\* at most the started ones, so req_not_issued of main does not wrap, although a
\* request that is not sent goes through on_stream_close twice.
CountedOnce ==
  app.req_status_success + app.req_failed + app.req_inflight <= app.req_started

\* A request h2load counts as a success was answered in full by the server.
SuccessWasAnswered == app.req_success <= Cardinality(ended)

\* The client's map of streams and the session agree: the streams of the map are
\* those nghttp2 has open or queued, so the assertions on req_stat in
\* before_frame_send_callback and file_read_callback hold.
StreamsAgree ==
  app.state = "CONNECTED" =>
    app.streams = OpenIds("client") \cup {ses.client.ob_syn[i].id : i \in DOMAIN ses.client.ob_syn}

\* -m bounds what the client has open or queued.
StreamsBounded == Cardinality(app.streams) <= sc.m

\* The budget of -n is charged before the session is asked, so a request that the
\* session refuses is lost to the budget.  None is lost before a GOAWAY arrives, and
\* none after the streams that were open then have ended: what is lost and what
\* is still open are together at most -m.
BudgetLossBounded ==
  LET lost == app.total_req_send - app.req_started
  IN  /\ app.total_req_left + app.total_req_send = sc.nreqs
      /\ "RECV" \notin ses.client.goaway => lost = 0
      /\ lost + Cardinality(app.streams) <= sc.m

\* The client does not hang: when nothing is on its way and neither session has
\* anything to do, the client disconnects.
ClientEnds ==
  LET Quiet(e) == chan[e] = <<>> /\ ses[e].aob = NoFrame
                  /\ PreparedFrom(ses[e], {"data"}) = {}
  IN  (\A e \in Ends : Quiet(e)) /\ wb = <<>> /\ ~ServerDone
        /\ ses.server.begun \subseteq answered
        => Answer(Now).a.state # "CONNECTED"
----------------------------------------------------------------------------
(* The connection of H2Pair, with wb as a part of the way to the server.   *)

Joined == INSTANCE H2Pair WITH chan <- [chan EXCEPT !.server = @ \o wb]

\* Flow control loses and invents nothing (CreditConserved), also while DATA and
\* WINDOW_UPDATE wait in wb.
CreditConservedWithBuffer == Joined!CreditConserved

\* SETTINGS take effect in step (SettingsInSync), also while SETTINGS wait in wb.
SettingsInSyncWithBuffer == Joined!SettingsInSync

\* When nothing is queued, in wb or on the wire, the ends agree on the open
\* streams and on how they are shut (QuiescentAgreement).
QuiescentAgreementWithBuffer == Joined!QuiescentAgreement

\* No request hangs (NoRequestStalls): not for flow control, nor because its
\* frames stay in wb or a WOULDBLOCK frame in aob.
NoRequestStallsWithBuffer == Joined!NoRequestStalls
----------------------------------------------------------------------------
(* What h2load relies on, put together.                                    *)

\* Every request of -n is accounted for: it is still in the budget, or was started,
\* or is one of the at most -m that a GOAWAY costs; a started one is counted once by
\* on_stream_close; and it is a success only if the server answered it in full.
RequestsAccounted == CountedOnce /\ SuccessWasAnswered /\ BudgetLossBounded

\* A stream is opened and closed once at every layer: nghttp2 calls
\* on_stream_close once for it and counts it as long as it is open, and the
\* client's map holds it for that time, never more than -m of them; the streams of
\* a session, their windows and its counters fit together.
StreamsSettled == TypeOK /\ StreamsAgree /\ StreamsBounded /\ ClosedOnce /\ CountersExact

\* The ends keep in step while frames cross: flow control loses and invents no
\* credit, SETTINGS take effect for both at the same place of the stream of
\* frames, and at rest both agree on the open streams.
EndsInStep ==
  /\ CreditConservedWithBuffer /\ SettingsInSyncWithBuffer /\ QuiescentAgreementWithBuffer

\* Two ends that follow the protocol never punish each other for what crossed on the
\* wire: no connection error, and no stream reset for flow control on account of a
\* frame that arrives.  That an end may reset a stream on account of its own
\* WINDOW_UPDATE is the subject of NoFlowControlReset, which is refuted.
NoFalseAccusation == NoConnectionError /\ ArrivalsWithinWindows

\* When no step is left, nothing was left undone: no request hangs in a session,
\* in wb or for flow control, and the client of h2load has disconnected.
NothingHangs == NoRequestStallsWithBuffer /\ ClientEnds
=============================================================================
