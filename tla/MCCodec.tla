------------------------------ MODULE MCCodec ------------------------------
(***************************************************************************)
(* The parts that turn messages into bytes and back, and the bodies of     *)
(* HTTP/1.1 requests, on small instances.                                  *)
(* They do not depend on each other; part says which of them a behaviour   *)
(* is about, and the variables of the others stay 0.                       *)
(***************************************************************************)
EXTENDS Hpack, TLC

\* InboundFrame
CONSTANTS Wires, MAX_FRAME_SIZE, MaxUint32, MaxPauses
\* FrameBuffers
CONSTANTS MAX_PAYLOADLEN, max_send_header_block_length, BoundSlack, Frames, ReadLengths, MaxFrames
\* HttpMessaging
CONSTANTS Families, IntMax
\* SofaRpcWire
CONSTANTS Base, Args, Class, Content, Bodies, Statuses, Writes, MaxRequests
\* Http1Body
CONSTANTS DataLengths, MaxReqs

VARIABLES part,
          wire, got_pos, got_avail, go, ib, got, log, gone, pauses,
          framebufs, item, sent, last, nframes,
          msg, frame, at, stream, given, verdict,
          arg, data, streams, stream_req_counter_, wb, up, answers, down, read_buffer_,
          bytes_to_discard_, last_stream_id_, last_respstatus_, statuses, closes,
          k, inq, srv, data_length

inbound == <<wire, got_pos, got_avail, go, ib, got, log, gone, pauses>>
frames == <<framebufs, item, sent, last, nframes>>
http == <<msg, frame, at, stream, given, verdict>>
sofa == <<arg, data, streams, stream_req_counter_, wb, up, answers, down, read_buffer_,
          bytes_to_discard_, last_stream_id_, last_respstatus_, statuses, closes>>
body == <<k, inq, srv, data_length>>
mcvars == <<part, vars, inbound, frames, http, sofa, body>>

Inb == INSTANCE InboundFrame WITH pos <- got_pos, avail <- got_avail, UINT32_MAX <- MaxUint32
Fb == INSTANCE FrameBuffers WITH wire <- sent
Ht == INSTANCE HttpMessaging WITH out <- given
Sw == INSTANCE SofaRpcWire
Hb == INSTANCE Http1Body
\* The names that Wires, Frames and Families are made with
InbN == INSTANCE InboundFrame WITH pos <- got_pos, avail <- got_avail, UINT32_MAX <- MaxUint32, Wires <- {}
FbN == INSTANCE FrameBuffers WITH wire <- sent, Frames <- {}
HtN == INSTANCE HttpMessaging WITH out <- given, Families <- {}

----------------------------------------------------------------------------
(* InboundFrame: every kind of frame, well formed and not, alone and in    *)
(* header blocks that go on in CONTINUATION.                               *)

Fr(t, len) == [t |-> t, len |-> len, flags |-> {}, pad |-> 0, verdict |-> "ok", iv |-> <<>>]
Flagged(t, len, flags, pad) == [Fr(t, len) EXCEPT !.flags = flags, !.pad = pad]
Verdict(f, v) == [f EXCEPT !.verdict = v]
SettingsOf(iv) == [Fr("SETTINGS", 6 * Len(iv)) EXCEPT !.iv = iv]
EH == "END_HEADERS"
HTS == InbN!HTS

Singles ==
  {Fr(x[1], x[2]) : x \in
     {<<"DATA", 3>>, <<"DATA", 0>>, <<"DATA", 30>>, <<"PRIORITY", 5>>, <<"PRIORITY", 4>>,
      <<"RST_STREAM", 4>>, <<"WINDOW_UPDATE", 5>>, <<"PING", 8>>, <<"PING", 7>>, <<"GOAWAY", 8>>,
      <<"GOAWAY", 10>>, <<"GOAWAY", 7>>, <<"EXT", 2>>, <<"EXT", 0>>, <<"UNKNOWN", 2>>,
      <<"ORIGIN", 0>>, <<"ORIGIN", 2>>, <<"ALTSVC", 1>>, <<"ALTSVC", 2>>, <<"CONTINUATION", 1>>,
      <<"SETTINGS", 5>>}}
  \cup {Flagged("DATA", x[1], {"PADDED"}, x[2]) : x \in {<<3, 2>>, <<3, 1>>, <<3, 3>>, <<0, 0>>, <<1, 0>>}}
  \cup {Flagged("HEADERS", x[1], {EH} \cup x[2], x[3]) : x \in
          {<<0, {}, 0>>, <<3, {}, 0>>, <<4, {"PADDED"}, 2>>, <<4, {"PADDED"}, 3>>, <<4, {"PADDED"}, 4>>,
           <<0, {"PADDED"}, 0>>, <<7, {"PRIORITY"}, 0>>, <<9, {"PRIORITY", "PADDED"}, 2>>,
           <<7, {"PRIORITY", "PADDED"}, 2>>, <<4, {"PRIORITY"}, 0>>}}
  \cup {Flagged("PUSH_PROMISE", x[1], x[2], x[3]) : x \in
          {<<6, {EH}, 0>>, <<7, {EH, "PADDED"}, 1>>, <<5, {EH, "PADDED"}, 1>>, <<3, {EH}, 0>>,
           <<0, {"PADDED"}, 0>>}}
  \cup {Verdict(Fr("DATA", 3), "ignore"), Verdict(Fr("DATA", 3), "error"),
        Verdict(Flagged("DATA", 3, {"PADDED"}, 1), "ignore"), Verdict(Fr("ORIGIN", 2), "ignore"),
        Verdict(Flagged("HEADERS", 3, {EH}, 0), "ignore"), Verdict(Flagged("HEADERS", 3, {EH}, 0), "error")}
  \cup {Flagged("ALTSVC", 4, {}, 1), Flagged("ALTSVC", 4, {}, 3),
        Flagged("SETTINGS", 0, {"ACK"}, 0), Flagged("SETTINGS", 6, {"ACK"}, 0)}
  \cup {SettingsOf(<<<<HTS, 4>>, <<HTS, 2>>, <<HTS, 3>>>>),
        SettingsOf(<<<<HTS, 4>>, <<"MAX_FRAME_SIZE", 2>>, <<"X", 1>>>>), SettingsOf(<<<<"X", 1>>, <<"X", 2>>>>)}

First == Fr("SETTINGS", 0)
Open == Flagged("HEADERS", 2, {}, 0)
MCWires ==
  {<<First, f, Fr("UNKNOWN", 1)>> : f \in Singles} \cup
  {<<First, Flagged("HEADERS", 4, {"PADDED"}, 1), Fr("CONTINUATION", 2), Flagged("CONTINUATION", 1, {EH}, 0)>>,
   <<First, Open, Fr("DATA", 3)>>, <<First, Open, Flagged("CONTINUATION", 30, {EH}, 0)>>,
   <<First, Open, Verdict(Flagged("CONTINUATION", 2, {EH}, 0), "error")>>,
   <<First, Verdict(Open, "ignore"), Flagged("CONTINUATION", 0, {EH}, 0)>>,
   <<Fr("PING", 8)>>, <<Flagged("SETTINGS", 0, {"ACK"}, 0)>>}

----------------------------------------------------------------------------
(* Hpack: a static table of fifteen entries, so that the index of the last *)
(* needs a second octet after the 4-bit prefix; octets with short and long *)
(* Huffman codes; two names in the same bucket.                            *)

\* '0', 'a', 'b', '!', line feed and EOS of the code of RFC 7541
MCHuffSyms == 48 :> [nbits |-> 5, code |-> 0] @@ 97 :> [nbits |-> 5, code |-> 3]
                @@ 98 :> [nbits |-> 6, code |-> 35] @@ 33 :> [nbits |-> 10, code |-> 1016]
                @@ 10 :> [nbits |-> 30, code |-> 1073741820] @@ 256 :> [nbits |-> 30, code |-> 1073741823]

Name(i) == CASE i = 0 -> <<97>> [] i \in 1..2 -> <<97, 48>> [] i = 3 -> <<98>>
             [] i = 14 -> <<98, 48>> [] OTHER -> <<33, i>>
MCStaticTable == [i \in 1..15 |->
  [name |-> Name(i - 1), value |-> IF i = 2 THEN <<48>> ELSE IF i = 3 THEN <<98>> ELSE <<>>,
   token |-> IF i = 3 THEN 1 ELSE i - 1]]

TokenlessX == <<33>>    \* two names without a token
TokenlessY == <<97, 97, 97, 97>>
MCHash == TokenlessX :> 1 @@ TokenlessY :> 3 @@ [n \in {Name(i) : i \in 0..14} |-> 0]
MCOtherTokens == <<33, 33>> :> 15

Nv(n, v) == [name |-> n, value |-> v, no_index |-> FALSE]
Secret(n, v) == [name |-> n, value |-> v, no_index |-> TRUE]
MCLists ==
  {<<Nv(TokenlessX, <<48>>), Nv(TokenlessY, <<48>>)>>, <<Nv(TokenlessX, <<98>>), Nv(<<97, 48>>, <<98>>), Nv(<<98, 48>>, <<>>)>>,
   <<Nv(<<97, 48>>, <<33>>), Nv(<<33, 33>>, <<>>)>>, <<Secret(TokenlessY, <<10, 10, 10, 10, 10, 10, 10, 10>>)>>}
SmallDeflater == <<40, 0>>
MCDeflaters == {SmallDeflater, <<200, 255>>}
MCSizes == {<<0>>, <<0, 72>>, <<110>>, <<40>>}
----------------------------------------------------------------------------
(* FrameBuffers: frames whose lengths meet every limit: the payload of one *)
(* buffer, of the whole chain, the limit of header blocks and of what is   *)
(* submitted.                                                              *)

Octs(n) == [i \in 1..n |-> (7 * i) % 251]
Pri(e, d, w) == [exclusive |-> e, dep |-> d, weight |-> w]
MCFrames ==
     {[type |-> "HEADERS", flags |-> {FbN!END_HEADERS}, id |-> 3, block |-> Octs(n)] : n \in {0, 99, 100, 101, 383, 384}}
  \cup {[type |-> "HEADERS", flags |-> {FbN!END_HEADERS, FbN!END_STREAM, FbN!PRIORITY}, id |-> 70000,
         pri |-> Pri(TRUE, 5, 256), block |-> Octs(n)] : n \in {1, 96, 200}}
  \cup {[type |-> "PUSH_PROMISE", flags |-> {FbN!END_HEADERS}, id |-> 3, promised |-> 4, block |-> Octs(n)] : n \in {2, 97}}
  \cup {[type |-> "DATA", id |-> 1, data |-> Octs(n), no_copy |-> c, no_end_stream |-> e] :
          n \in {0, 120}, c \in BOOLEAN, e \in BOOLEAN}
  \cup {[type |-> "PRIORITY", flags |-> {}, id |-> 3, pri |-> Pri(FALSE, 7, 1)],
        [type |-> "RST_STREAM", flags |-> {}, id |-> 3, code |-> 8],
        [type |-> "PING", flags |-> {FbN!ACK}, id |-> 0, opaque |-> Octs(8)],
        [type |-> "WINDOW_UPDATE", flags |-> {}, id |-> 0, inc |-> 2147483647]}
  \cup {[type |-> "SETTINGS", flags |-> {}, id |-> 0, iv |-> [i \in 1..n |-> <<i, 16384 * i>>]] : n \in {0, 16, 17}}
  \cup {[type |-> "GOAWAY", flags |-> {}, id |-> 0, last |-> 2147483647, code |-> 11, opaque |-> Octs(n)] : n \in {0, 92, 93}}
  \cup {[type |-> "ALTSVC", flags |-> {}, id |-> 0, origin |-> Octs(4), value |-> Octs(n)] : n \in {3, 94, 95}}
  \cup {[type |-> "ORIGIN", flags |-> {}, id |-> 0, ov |-> [i \in 1..n |-> Octs(46 * (i - 1) + 2)]] : n \in {0, 2, 3}}
  \cup {[type |-> "EXTENSION", flags |-> {}, id |-> 0, opaque |-> Octs(n)] : n \in {0, 100, 101}}
----------------------------------------------------------------------------
(* HttpMessaging: typical messages, each with up to one field left out and *)
(* up to one field of a pool put in anywhere.                              *)

F(token, value) == [token |-> token, name |-> << >>, value |-> value]
Other(name, value) == [token |-> "other", name |-> name, value |-> value]

GET == <<71, 69, 84>>
mget == F(":method", GET)
mh == F(":method", HtN!HEAD)
mc == F(":method", HtN!CONNECT)
mo == F(":method", HtN!OPTIONS)
pa == F(":path", <<HtN!SLASH>>)
pstar == F(":path", <<HtN!ASTERISK>>)
sc == F(":scheme", HtN!http)
au == F(":authority", <<97>>)
pr == F(":protocol", <<119>>)
ho == F("host", <<97>>)
cl(s) == F("content-length", s)
st(s) == F(":status", s)
xx == Other(<<120>>, <<49>>)

s100 == st(<<49, 48, 48>>)
s200 == st(<<50, 48, 48>>)
s204 == st(<<50, 48, 52>>)
s304 == st(<<51, 48, 52>>)

RequestPool ==
  {mget, mc, pa, pstar, F(":path", <<120>>), sc, F(":scheme", <<70, 84, 80>>), F(":scheme", <<49>>),
   au, F(":authority", <<32>>), pr, ho, F("host", <<47>>), cl(<<50>>), cl(<<51>>), cl(<<50, 120>>),
   s200, xx}

ResponsePool ==
  {st(<<49, 48, 49>>), s200, st(<<50, 48>>), cl(<<48>>), cl(<<50>>),
   cl(<<50, 48, 52, 55>>), cl(<<50, 48, 52, 56>>), cl(<< >>), pa}

CommonPool ==
  {F("connection", <<97>>), F("te", HtN!trailers), F("te", <<97>>), Other(<<88>>, <<97>>),
   Other(<<120, 32>>, <<97>>), Other(<<120>>, <<10>>), Other(<<HtN!COLON, 120>>, <<97>>),
   Other(<< >>, <<97>>)}

H(fields, es) == HtN!Fields("HEADERS", fields, es)

Requests ==
  {<<H(<<mget, sc, pa, au>>, TRUE)>>, <<H(<<mo, sc, pstar, ho>>, TRUE)>>,
   <<H(<<mc, au>>, FALSE), HtN!Data(2, TRUE)>>,
   <<H(<<mc, pr, sc, pa, au>>, FALSE)>>,
   <<H(<<mget, sc, pa, au, cl(<<50>>)>>, FALSE), HtN!Data(2, FALSE), H(<<xx>>, TRUE)>>}

Responses ==
  {<<H(<<s200, xx>>, FALSE), HtN!Data(2, TRUE)>>,
   <<H(<<s100>>, FALSE), H(<<s200, cl(<<50>>)>>, FALSE), HtN!Data(1, FALSE), HtN!Data(1, TRUE)>>,
   <<H(<<s100>>, FALSE), HtN!Data(1, FALSE), H(<<s200>>, TRUE)>>,
   <<H(<<s204, cl(<<48>>)>>, TRUE)>>, <<H(<<s304>>, FALSE), HtN!Data(0, TRUE)>>,
   <<H(<<s200, cl(<<50>>)>>, FALSE), HtN!Data(3, FALSE), H(<<xx>>, TRUE)>>,
   <<H(<<s200>>, FALSE), HtN!Data(2, FALSE), H(<<cl(<<50>>)>>, TRUE)>>,
   <<H(<<s200>>, FALSE), H(<<xx>>, FALSE)>>}

Pushes ==
  {<<HtN!Fields("PUSH_PROMISE", <<mh, sc, pa, au>>, FALSE), H(<<s200, cl(<<50>>)>>, TRUE)>>,
   <<HtN!Fields("PUSH_PROMISE", <<mget, sc, pa, au>>, FALSE), H(<<s200>>, FALSE), HtN!Data(1, TRUE)>>}

Family(side, meths, protocol, bases, pool) ==
  [side |-> side, meths |-> meths, protocol |-> protocol, bases |-> bases, pool |-> pool]
MCFamilies ==
  {Family("server", {{}}, p, Requests, RequestPool \cup CommonPool) : p \in BOOLEAN}
  \cup {Family("client", {{}, {"METH_HEAD"}, {"METH_CONNECT"}, {"METH_UPGRADE_WORKAROUND"}}, FALSE,
               Responses, ResponsePool \cup CommonPool),
        Family("push", {{}}, FALSE, Pushes, RequestPool \cup ResponsePool \cup CommonPool)}

----------------------------------------------------------------------------
(* SofaRpcWire.                                                            *)

\* two-part arguments with values that hold a colon, empty keys and values, a
\* trailing semicolon, and one without a colon
MCArgs == {<<0, 1, 3, 1, 3, 2, 3, 1, 0>>, <<1, 2, 0, 1, 2>>, <<0, 0>>}
MCClass == <<3, 0>>
MCContent == <<2, 1, 0>>
MCBodies == {[class |-> 0, header |-> 0, content |-> 0], [class |-> 1, header |-> 1, content |-> 1]}
----------------------------------------------------------------------------
(* The parts side by side.                                                 *)

IdleHd == Init /\ enc = hd_deflate_init2(SmallDeflater[1], SmallDeflater[2])
IdleIn == /\ wire = 0 /\ got_pos = 0 /\ got_avail = 0 /\ go = 0 /\ ib = 0 /\ got = 0 /\ log = 0
          /\ gone = 0 /\ pauses = 0
IdleFb == framebufs = 0 /\ item = 0 /\ sent = 0 /\ last = 0 /\ nframes = 0
IdleHt == msg = 0 /\ frame = 0 /\ at = 0 /\ stream = 0 /\ given = 0 /\ verdict = 0
IdleSw == /\ arg = 0 /\ data = 0 /\ streams = 0 /\ stream_req_counter_ = 0 /\ wb = 0 /\ up = 0 /\ answers = 0 /\ down = 0
          /\ read_buffer_ = 0 /\ bytes_to_discard_ = 0 /\ last_stream_id_ = 0
          /\ last_respstatus_ = 0 /\ statuses = 0 /\ closes = 0
IdleHb == k = 0 /\ inq = 0 /\ srv = 0 /\ data_length = 0

MCInit ==
  \/ part = "hpack" /\ Init /\ IdleIn /\ IdleFb /\ IdleHt /\ IdleSw /\ IdleHb
  \/ part = "inbound" /\ IdleHd /\ Inb!Init /\ IdleFb /\ IdleHt /\ IdleSw /\ IdleHb
  \/ part = "frames" /\ IdleHd /\ IdleIn /\ Fb!Init /\ IdleHt /\ IdleSw /\ IdleHb
  \/ part = "http" /\ IdleHd /\ IdleIn /\ IdleFb /\ Ht!Init /\ IdleSw /\ IdleHb
  \/ part = "sofa" /\ IdleHd /\ IdleIn /\ IdleFb /\ IdleHt /\ Sw!Init /\ IdleHb
  \/ part = "body" /\ IdleHd /\ IdleIn /\ IdleFb /\ IdleHt /\ IdleSw /\ Hb!Init

MCNext ==
  \/ part = "hpack" /\ Next /\ UNCHANGED <<part, inbound, frames, http, sofa, body>>
  \/ part = "inbound" /\ Inb!Next /\ UNCHANGED <<part, vars, frames, http, sofa, body>>
  \/ part = "frames" /\ Fb!Next /\ UNCHANGED <<part, vars, inbound, http, sofa, body>>
  \/ part = "http" /\ Ht!Next /\ UNCHANGED <<part, vars, inbound, frames, sofa, body>>
  \/ part = "sofa" /\ Sw!Next /\ UNCHANGED <<part, vars, inbound, frames, http, body>>
  \/ part = "body" /\ Hb!Next /\ UNCHANGED <<part, vars, inbound, frames, http, sofa>>

MCSpec == MCInit /\ [][MCNext]_mcvars

\* mem_recv stays in step with the frames however its input is cut: a header is
\* read only where a frame starts, the last byte of a frame finishes it, and what
\* was allocated from the length of a frame is enough for it.
ReaderInStep ==
  part = "inbound" => Inb!FramingInStep /\ Inb!CompleteAtOnce /\ Inb!ArraysSuffice

\* The application gets what each frame carries, once; the windows are charged all
\* of it, padding included; SETTINGS are folded as their meaning asks for; and
\* mem_recv ends a connection for malformed frames only.
FramesReadExactly ==
  part = "inbound" =>
    Inb!FramesDeliveredExactly /\ Inb!SettingsFolded /\ Inb!OnlyMalformedRefused

\* What nghttp2_frame.c packs it unpacks again, padded or split or not, and
\* END_HEADERS closes a header block with its last frame (frame_pack_headers_shared).
FramesRoundTrip == part = "frames" => Fb!RoundTrip /\ Fb!BlockIsClosed

\* Packing stays within the buffers (frame_set_pad, nghttp2_bufs_add), a permitted
\* header block fits into them (session_new's nbuffer), and no frame leaves anything
\* behind for the next, sent or not (active_outbound_item_reset).
BuffersSuffice ==
  part = "frames" => Fb!WithinBuffers /\ Fb!FramesFit /\ Fb!EmptyBetweenFrames

\* nghttp2_http.c resets the messages that break a rule of HTTP and no other, passes
\* on the legal fields in order, and lets no byte beyond the content-length through.
MessageRulesKept ==
  part = "http" => Ht!ResetIffMalformed /\ Ht!LegalFieldsOnly /\ Ht!NothingBeyondLength

\* The server reads the requests that submit_request wrote, ids in order, and
\* SofaRpcSession::on_read sees every response with its id and its status, and
\* closes a stream by its own response only.
WireInStep ==
  part = "sofa" => Sw!RequestsFramed /\ Sw!ResponsesInStep /\ Sw!ClosedByOwnResponse

\* A stream of -d is closed once, when Http1Session has handed over its body and
\* read its response; the server reads each head with its whole body behind it; and
\* a request is counted once, also when try_again_or_fail reconnects under its body.
BodiesSettled ==
  part = "body" => Hb!ClosedWhenBothAreDone /\ Hb!BodiesFollowHeads /\ Hb!EachRequestOnce

\* A client with -d that has nothing to do waits for the server's answer to a request
\* it has sent in full (Http1Session::on_write, htp_msg_completecb).
OnlyTheServerIsAwaited == part = "body" => Hb!OnlyTheServerIsAwaited
============================================================================
