------------------------------- MODULE H2Pair -------------------------------
(***************************************************************************)
(* Two nghttp2 sessions, a client and a server, joined by a connection     *)
(* that delivers frames in order.  The applications call the library as    *)
(* often as a scenario allows; each call, each frame sent and each frame   *)
(* received is a step.  Where the transport blocks, a frame that was       *)
(* prepared waits in aob while the session goes on receiving.              *)
(***************************************************************************)
EXTENDS H2Session, TLC

CONSTANTS Scenarios,    \* what the two applications do, see MCH2Pair
          MaxRequests   \* requests a scenario may make

VARIABLES ses,       \* the two sessions
          chan,      \* chan[e]: frames on their way to e
          ops,       \* ops[e][op]: calls e's application may still make
          answered,  \* requests and pushes the server's application answered
          ended,     \* streams of requests on which the server sent END_STREAM
          sc         \* the scenario

vars == <<ses, chan, ops, answered, ended, sc>>

Ends == {"client", "server"}
Peer(e) == IF e = "client" THEN "server" ELSE "client"

\* An end is created and queues its SETTINGS; with an upgrade stream 1 is open.
Opened(e) ==
  LET s == session_new(e = "server", sc.auto[e])
      u == upgrade(s, sc.iv.client)
  IN  IF ~sc.upgrade THEN add_settings(s, FALSE, sc.iv[e])
      ELSE IF e = "client" THEN u ELSE add_settings(u, FALSE, sc.iv.server)

Init ==
  /\ sc \in Scenarios
  /\ ses = [e \in Ends |-> Opened(e)]
  /\ chan = [e \in Ends |-> <<>>]
  /\ ops = sc.ops
  /\ answered = {} /\ ended = {}

----------------------------------------------------------------------------
(* The library's own steps.                                                *)

\* session_prep_frame for the next item of session s, in each way it can go; how
\* is what the application's read callback may do.
PreparedFrom(s, how) ==
  CASE pop_next_ob_item(s) = "urgent" -> {<<prep_control(s, "ob_urgent"), "data">>}
    [] pop_next_ob_item(s) = "reg" -> {<<prep_control(s, "ob_reg"), "data">>}
    [] pop_next_ob_item(s) = "syn" -> {<<prep_syn(s), "data">>}
    [] OTHER -> IF s.win[0].remote_window_size <= 0 THEN {}
                ELSE {<<prep_data(s, id, h), h>> : id \in Ready(s), h \in how}

Prepared(e) == PreparedFrom(ses[e], {h \in {"data", "defer", "fail"} : h = "data" \/ ops[e][h] > 0})

Idle(e) == ses[e].aob = NoFrame /\ ~ses[e].fatal

\* The frame of aob goes out.
PutOut(e, s) ==
  LET f == WireFrame(s.aob)
  IN  IF s.aob = NoFrame
      THEN ses' = [ses EXCEPT ![e] = s] /\ UNCHANGED <<chan, ended>>
      ELSE /\ ses' = [ses EXCEPT ![e] = after_frame_sent(s)]
           /\ chan' = [chan EXCEPT ![Peer(e)] = Append(@, f)]
           /\ ended' = IF e = "server" /\ f.t \in {"DATA", "HEADERS"} /\ f.id % 2 = 1
                       THEN IF f.es THEN ended \cup {f.id} ELSE ended ELSE ended

Spent(e, h) == IF h = "data" THEN ops ELSE [ops EXCEPT ![e][h] = @ - 1]

Send(e) ==
  /\ Idle(e)
  /\ \E p \in Prepared(e) : PutOut(e, p[1]) /\ ops' = Spent(e, p[2])
  /\ UNCHANGED <<answered, sc>>

\* The send callback answers WOULDBLOCK: the frame stays in aob.
Block(e) ==
  /\ Idle(e) /\ sc.blocks
  /\ \E p \in Prepared(e) : /\ p[1].aob # NoFrame
                            /\ ses' = [ses EXCEPT ![e] = p[1]]
                            /\ ops' = Spent(e, p[2])
  /\ UNCHANGED <<chan, answered, ended, sc>>

Unblock(e) ==
  /\ ses[e].aob # NoFrame
  /\ PutOut(e, ses[e])
  /\ UNCHANGED <<ops, answered, sc>>

\* One read brings the next n frames.
Recv(e) ==
  /\ ~ses[e].fatal
  /\ \E n \in 1..Len(chan[e]) :
       /\ ses' = [ses EXCEPT ![e] = mem_recv(@, SubSeq(chan[e], 1, n))]
       /\ chan' = [chan EXCEPT ![e] = SubSeq(@, n + 1, Len(@))]
  /\ UNCHANGED <<ops, answered, ended, sc>>

----------------------------------------------------------------------------
(* The applications' calls.                                                *)

\* One call that leaves session s behind.
Call(e, op, s) ==
  /\ ops[e][op] > 0 /\ ~ses[e].fatal
  /\ ses' = [ses EXCEPT ![e] = s]
  /\ ops' = [ops EXCEPT ![e][op] = @ - 1]
  /\ UNCHANGED <<chan, ended, sc>>

OpenIds(e) == {id \in DOMAIN ses[e].streams : Live(ses[e], id)}

Request == Call("client", "request", submit_request(ses.client, sc.body)) /\ UNCHANGED answered

\* The server answers a request, or the push it promised, once.
Respond ==
  /\ \E id \in (ses.server.begun \cup
                  {i \in OpenIds("server") : is_my_stream_id(ses.server, i)}) \ answered :
       /\ answered' = answered \cup {id}
       /\ ses' = [ses EXCEPT !.server = submit_response(@, id, sc.answer)]
  /\ UNCHANGED <<chan, ops, ended, sc>>

Reset(e) ==
  /\ \E id \in OpenIds(e) \cup {ses[e].ob_syn[i].id : i \in DOMAIN ses[e].ob_syn} :
       Call(e, "rst", add_rst_stream(ses[e], id, "CANCEL"))
  /\ UNCHANGED answered

Push ==
  /\ \E id \in {i \in OpenIds("server") : i % 2 = 1} :
       Call("server", "push", submit_push_promise(ses.server, id))
  /\ UNCHANGED answered

\* A notice of shutdown, where there is one, comes before the GOAWAY.
Goaway(e) ==
  ops[e].shutdown = 0 /\ Call(e, "goaway", submit_goaway(ses[e], ses[e].last_proc)) /\ UNCHANGED answered
Shutdown == Call("server", "shutdown", submit_shutdown_notice(ses.server)) /\ UNCHANGED answered
Terminate(e) == Call(e, "terminate", terminate_session(ses[e], "NO_ERROR")) /\ UNCHANGED answered
Ping(e) == Call(e, "ping", add_ping(ses[e], FALSE)) /\ UNCHANGED answered
Settings(e) == Call(e, "settings", add_settings(ses[e], FALSE, sc.iv2[e])) /\ UNCHANGED answered

WindowUpdate(e) ==
  /\ \E id \in OpenIds(e) \cup {0}, d \in sc.deltas :
       Call(e, "window", submit_window_update(ses[e], id, d))
  /\ UNCHANGED answered

SetWindow(e) ==
  /\ \E id \in OpenIds(e) \cup {0}, n \in sc.sizes :
       Call(e, "setwin", set_local_window_size(ses[e], id, n))
  /\ UNCHANGED answered

\* The application hands back what it has processed, with auto off.
Consume(e) ==
  /\ \E id \in DOMAIN ses[e].held :
       LET s == session_consume(ses[e], id, ses[e].held[id])
       IN  ses' = [ses EXCEPT ![e] = [s EXCEPT !.held = Drop(@, id)]]
  /\ UNCHANGED <<chan, ops, answered, ended, sc>>

Resume(e) ==
  /\ \E id \in OpenIds(e) :
       /\ "USER" \in ses[e].streams[id].deferred
       /\ ses' = [ses EXCEPT ![e] = session_resume_data(@, id)]
  /\ UNCHANGED <<chan, ops, answered, ended, sc>>

Step(e) ==
  \/ Send(e) \/ Block(e) \/ Unblock(e) \/ Recv(e)
  \/ Reset(e) \/ Goaway(e) \/ Terminate(e) \/ Ping(e) \/ Settings(e)
  \/ WindowUpdate(e) \/ SetWindow(e) \/ Consume(e) \/ Resume(e)

Next == Request \/ Respond \/ Push \/ Shutdown \/ (\E e \in Ends : Step(e))

Spec == Init /\ [][Next]_vars

----------------------------------------------------------------------------
(* Safety.                                                                 *)

\* The streams, windows and counters of both sessions have their types.
TypeOK ==
  /\ sc \in Scenarios /\ DOMAIN ses = Ends /\ DOMAIN chan = Ends
  /\ answered \subseteq 1..MAX_STREAM_ID /\ ended \subseteq answered
  /\ \A e \in Ends :
       LET s == ses[e]
       IN  /\ DOMAIN s.win = DOMAIN s.streams \cup {0}
           /\ \A id \in DOMAIN s.streams :
                /\ s.streams[id].state \in {"INITIAL", "OPENING", "OPENED", "CLOSING", "RESERVED"}
                /\ s.streams[id].shut \subseteq {"RD", "WR"}
           /\ {s.num_outgoing, s.num_incoming, s.num_reserved, s.flood} \subseteq Nat
           /\ s.goaway \subseteq {"TERM_ON_SEND", "TERM_SENT", "SENT", "RECV"}

\* Two well-behaved ends never accuse each other: no queue of ACKs overflows, no
\* frame that crosses another on the wire is a connection error.
NoConnectionError == \A e \in Ends : ses[e].error = "NO_ERROR" /\ ~ses[e].fatal

\* No stream is reset for flow control when both ends keep to their windows, as
\* the comment before session_update_recv_stream_window_size has it.  A smaller
\* INITIAL_WINDOW_SIZE that takes effect while a WINDOW_UPDATE is queued refutes
\* it: the check made when the update goes out finds the window exceeded.
NoFlowControlReset ==
  \A e \in Ends : \A id \in DOMAIN ses[e].closes :
    \A i \in DOMAIN ses[e].closes[id] : ses[e].closes[id][i] # "FLOW_CONTROL_ERROR"

\* The streams that session s is about to reset for flow control.
Accused(s) ==
  {s.ob_reg[i].id : i \in {j \in DOMAIN s.ob_reg :
      s.ob_reg[j].t = "RST_STREAM" /\ s.ob_reg[j].code = "FLOW_CONTROL_ERROR"}}

\* Nothing that is on its way breaks the rules of flow control for the end that
\* gets it: whichever frames an end reads next, DATA that overtook nothing but
\* was sent before a smaller window was known, WINDOW_UPDATE and SETTINGS that
\* enlarge a window, it resets no stream on account of them.
ArrivalsWithinWindows ==
  \A e \in Ends : chan[e] # <<>> => Accused(mem_recv(ses[e], chan[e])) \subseteq Accused(ses[e])

\* The counters that the limits on concurrent streams are checked against are the
\* numbers of streams of each kind (open_stream, close_stream, push responses).
CountersExact ==
  \A e \in Ends :
    LET s == ses[e]
        Of(mine, push) == Cardinality({id \in OpenIds(e) :
                            is_my_stream_id(s, id) = mine /\ s.streams[id].push = push})
    IN  /\ s.num_outgoing = Of(TRUE, FALSE)
        /\ s.num_incoming = Of(FALSE, FALSE)
        /\ s.num_reserved = Of(FALSE, TRUE)

Units(q, id) ==
  FoldLeft(LAMBDA n, f : IF f.t = "DATA" /\ id \in {0, f.id} THEN n + f.len ELSE n, 0, q)
Credit(q, id) ==
  FoldLeft(LAMBDA n, f : IF f.t = "WINDOW_UPDATE" /\ f.id = id THEN n + f.inc ELSE n, 0, q)

\* A GOAWAY alone does not stop a session from taking part; it takes no more part
\* once it was terminated, or went away and has no stream left.
Reads(s) == want_read(s) /\ "TERM_ON_SEND" \notin s.goaway

\* Flow control loses and invents nothing: what e may send, what it has in
\* flight and the credit on its way to it are what its peer is ready to take, up
\* to a change of INITIAL_WINDOW_SIZE that is not acknowledged yet.
CreditConserved ==
  \A e \in Ends :
    LET a == ses[e]
        b == ses[Peer(e)]
        Moving(id) == Units(chan[Peer(e)], id) + Credit(chan[e], id)
                      + Credit(b.ob_reg, id) + Credit(<<b.aob>>, id)
        Room(id) == b.win[id].local_window_size - b.win[id].recv_window_size
    IN  Reads(a) /\ Reads(b) =>
          /\ a.win[0].remote_window_size + Moving(0) = Room(0)
          /\ \A id \in OpenIds(e) \cap OpenIds(Peer(e)) :
               a.streams[id].state # "CLOSING" /\ b.streams[id].state # "CLOSING" =>
                 a.win[id].remote_window_size - a.remote.INITIAL_WINDOW_SIZE + Moving(id)
                   = Room(id) - b.local.INITIAL_WINDOW_SIZE

\* SETTINGS take effect in step: what an end has in force, with the SETTINGS its
\* peer has processed and it has not seen acknowledged, is what the peer goes by.
SettingsInSync ==
  \A e \in Ends :
    LET s == ses[e]
        p == ses[Peer(e)]
        unseen == Len(SelectSeq(s.ob_urgent \o <<s.aob>> \o chan[Peer(e)],
                                LAMBDA f : f.t = "SETTINGS" /\ ~f.ack))
        seen == SubSeq(s.inflight, 1, Len(s.inflight) - unseen)
        now == FoldLeft(LAMBDA r, iv : FoldLeft(LAMBDA q, x : [q EXCEPT ![x[1]] = x[2]], r, iv),
                        s.local, seen)
    IN  ~p.first /\ Reads(s) /\ Reads(p) => p.remote = now

\* When nothing is queued or on the wire both ends know the same open streams,
\* and one end has shut for writing what the other has shut for reading.
QuiescentAgreement ==
  LET c == ses.client
      v == ses.server
      Quiet(s) == s.ob_urgent \o s.ob_reg = <<>> /\ s.aob = NoFrame /\ Reads(s)
  IN  Quiet(c) /\ Quiet(v) /\ chan.client = <<>> /\ chan.server = <<>> =>
        /\ OpenIds("client") = OpenIds("server")
        /\ \A id \in OpenIds("client") :
             /\ "RD" \in c.streams[id].shut <=> "WR" \in v.streams[id].shut
             /\ "WR" \in c.streams[id].shut <=> "RD" \in v.streams[id].shut

\* on_stream_close_callback is called at most once for a stream: the application
\* frees what it keeps for the stream in it.
ClosedOnce == \A e \in Ends : \A id \in DOMAIN ses[e].closes : Len(ses[e].closes[id]) = 1

----------------------------------------------------------------------------
(* What the connection is for.                                             *)

Ids == {2 * i - 1 : i \in 1..MaxRequests}

Outcome(id) ==
  CASE id \in DOMAIN ses.client.closes ->
         (CASE ses.client.closes[id][1] = "NO_ERROR" -> "done"
            [] ses.client.closes[id][1] = "REFUSED_STREAM" -> "refused"
            [] OTHER -> "failed")
    [] id \notin DOMAIN ses.client.closes /\ id < ses.client.next_stream_id -> "pending"
    [] OTHER -> "none"

X == INSTANCE Exchange WITH client <- [id \in Ids |-> Outcome(id)],
                            begun <- ses.server.begun, ended <- ended

\* The two sessions implement Exchange: a request closed without an error was
\* answered in full, and a refused one is never processed.
Implements == X!Spec

\* Flow control, limits on streams and deferred data never leave a request
\* hanging: when neither end has anything to send, receive, answer, resume or
\* hand back, every request is closed at the client, unless an end tore the
\* connection down.
NoRequestStalls ==
  LET Torn == \E e \in Ends : "TERM_ON_SEND" \in ses[e].goaway \/ ses[e].fatal
      Stuck(e) == /\ chan[e] = <<>> /\ ses[e].aob = NoFrame /\ Prepared(e) = {}
                  /\ ses[e].held = <<>>
                  /\ \A id \in OpenIds(e) : "USER" \notin ses[e].streams[id].deferred
  IN  Torn \/ (\E e \in Ends : ~Stuck(e)) \/ ses.server.begun \ answered # {}
        \/ \A id \in Ids : Outcome(id) # "pending"
=============================================================================
