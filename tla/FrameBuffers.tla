---------------------------- MODULE FrameBuffers ----------------------------
(***************************************************************************)
(* How nghttp2 builds a frame and gets it out of the session:              *)
(* lib/nghttp2_frame.c packs it into the buffer chain of                   *)
(* lib/nghttp2_buf.c (HEADERS and PUSH_PROMISE spill into CONTINUATION     *)
(* frames, one for each further buffer), pads it in place, and             *)
(* nghttp2_session_send hands the buffers to a callback that may take only *)
(* a part of them.  The unpack functions of the same file read the bytes   *)
(* back.  Memory is modelled octet by octet: a buffer keeps what an        *)
(* earlier frame left in it.  Which frame is sent when is in H2Session.    *)
(***************************************************************************)
EXTENDS Integers, Sequences, SequencesExt, TLC

CONSTANTS MAX_PAYLOADLEN,               \* NGHTTP2_MAX_PAYLOADLEN, scaled down
          max_send_header_block_length, \* the option of that name
          BoundSlack,                   \* nghttp2_hd_deflate_bound minus the true length
          Frames,                       \* the frames an application may submit
          ReadLengths,                  \* what data_source_read_length_callback may answer
          MaxFrames                     \* bound: frames in a behaviour

VARIABLES framebufs,  \* session->aob.framebufs
          item,       \* session->aob.item, with what was decided while packing it
          wire,       \* octets of the current or last frame given to the callback
          last,       \* the last frame that left aob, and how
          nframes
vars == <<framebufs, item, wire, last, nframes>>

NONE == [type |-> "NONE"]
FRAME_HDLEN == 9
MAX_PADLEN == 256
Offset == FRAME_HDLEN + 1
CHUNKLEN == FRAME_HDLEN + 1 + MAX_PAYLOADLEN
STALE == 255                  \* what malloc left in a new buffer
CLIENT_MAGIC == [i \in 1..24 |-> i]

MinOf(a, b) == IF a < b THEN a ELSE b
MaxOf(a, b) == IF a > b THEN a ELSE b
END_STREAM == 1
ACK == 1
END_HEADERS == 4
PADDED == 8
PRIORITY == 32
Types == <<"DATA", "HEADERS", "PRIORITY", "RST_STREAM", "SETTINGS", "PUSH_PROMISE", "PING",
           "GOAWAY", "WINDOW_UPDATE", "CONTINUATION", "ALTSVC", "UNUSED", "ORIGIN", "EXTENSION">>

(***************************************************************************)
(* lib/nghttp2_buf.c: a chain of buffers.  Positions count from begin.     *)
(***************************************************************************)
NewBuf(n) == [mem |-> [i \in 0..(n - 1) |-> STALE], end |-> n, pos |-> Offset, last |-> Offset]
buf_len(b) == b.last - b.pos
buf_avail(b) == b.end - b.last
Write(b, at, data) ==
  [b EXCEPT !.mem = [i \in DOMAIN @ |-> IF at <= i /\ i < at + Len(data) THEN data[i - at + 1] ELSE @[i]]]
Unsent(b) == [i \in 1..buf_len(b) |-> b.mem[b.pos + i - 1]]

nbuffer == MaxOf(1, (max_send_header_block_length + CHUNKLEN - 1) \div CHUNKLEN)
bufs_init3(n) == [chain |-> <<NewBuf(n)>>, cur |-> 1, chunk_length |-> n, rv |-> "ok"]
bufs_realloc(n) == bufs_init3(n)

HeadBuf(bs) == bs.chain[1]
Cur(bs) == bs.chain[bs.cur]
bufs_len(bs) == FoldLeft(LAMBDA n, b : n + buf_len(b), 0, bs.chain)

bufs_alloc_chain(bs) ==
  CASE bs.cur < Len(bs.chain) -> [bs EXCEPT !.cur = @ + 1]
    [] bs.cur = Len(bs.chain) /\ Len(bs.chain) = nbuffer -> [bs EXCEPT !.rv = "BUFFER_ERROR"]
    [] OTHER -> [bs EXCEPT !.chain = Append(@, NewBuf(bs.chunk_length)), !.cur = @ + 1]

\* The loop of nghttp2_bufs_add: fill the current buffer, then go on to the next one.
AddStep(p, i) ==
  LET n == MinOf(buf_avail(Cur(p.bs)), Len(p.rest))
      b == [Write(Cur(p.bs), Cur(p.bs).last, SubSeq(p.rest, 1, n)) EXCEPT !.last = @ + n]
      filled == [p.bs EXCEPT !.chain[p.bs.cur] = b]
  IN  IF p.rest = <<>> \/ p.bs.rv # "ok" THEN p
      ELSE IF n = Len(p.rest) THEN [bs |-> filled, rest |-> <<>>]
      ELSE [bs |-> bufs_alloc_chain(filled), rest |-> SubSeq(p.rest, n + 1, Len(p.rest))]
bufs_add(bs, data) == FoldLeft(AddStep, [bs |-> bs, rest |-> data], [i \in 1..(nbuffer + 1) |-> i]).bs

bufs_next_present(bs) == bs.cur < Len(bs.chain) /\ buf_len(bs.chain[bs.cur + 1]) > 0

\* chunk_keep is 1: the first buffer is kept, with what is in it.
mutant_bufs_reset(bs) ==
  [bs EXCEPT !.chain = <<[HeadBuf(bs) EXCEPT !.pos = Offset, !.last = Offset]>>, !.rv = "ok"]
bufs_reset(bs) ==
  [bs EXCEPT !.chain = <<[HeadBuf(bs) EXCEPT !.pos = Offset, !.last = Offset]>>, !.cur = 1, !.rv = "ok"]

(***************************************************************************)
(* Packing                                                                 *)
(***************************************************************************)
put_uint16be(n) == <<n \div 256, n % 256>>
put_uint24be(n) == <<n \div 65536, (n \div 256) % 256, n % 256>>
put_uint32be(n) == <<n \div 16777216>> \o put_uint24be(n % 16777216)
FlagOctet(flags) == FoldLeft(+, 0, SetToSeq(flags))
TypeOctet(type) == (CHOOSE i \in DOMAIN Types : Types[i] = type) - 1

pack_frame_hd(hd) == put_uint24be(hd.length) \o <<TypeOctet(hd.type), FlagOctet(hd.flags)>> \o put_uint32be(hd.id)

pack_priority_spec(p) ==
  LET d == put_uint32be(p.dep)
  IN  [d EXCEPT ![1] = IF p.exclusive THEN @ + 128 ELSE @] \o <<p.weight - 1>>

pack_settings_payload(iv) ==
  FoldLeft(LAMBDA acc, e : acc \o put_uint16be(e[1]) \o put_uint32be(e[2]), <<>>, iv)

\* The payloads, each as what is written at a known place and what nghttp2_bufs_add puts behind it.
pack_priority(f) == [fixed |-> pack_priority_spec(f.pri), added |-> <<>>]
pack_rst_stream(f) == [fixed |-> put_uint32be(f.code), added |-> <<>>]
pack_settings(f) == [fixed |-> pack_settings_payload(f.iv), added |-> <<>>]
pack_ping(f) == [fixed |-> f.opaque, added |-> <<>>]
pack_goaway(f) == [fixed |-> put_uint32be(f.last) \o put_uint32be(f.code), added |-> f.opaque]
pack_window_update(f) == [fixed |-> put_uint32be(f.inc), added |-> <<>>]
pack_altsvc(f) == [fixed |-> put_uint16be(Len(f.origin)), added |-> f.origin \o f.value]
pack_origin(f) ==
  [fixed |-> FoldLeft(LAMBDA acc, o : acc \o put_uint16be(Len(o)) \o o, <<>>, f.ov), added |-> <<>>]
pack_extension(f) == [fixed |-> f.opaque, added |-> <<>>]
Payload(f) ==
  CASE f.type = "PRIORITY" -> pack_priority(f)
    [] f.type = "RST_STREAM" -> pack_rst_stream(f)
    [] f.type = "SETTINGS" -> pack_settings(f)
    [] f.type = "PING" -> pack_ping(f)
    [] f.type = "GOAWAY" -> pack_goaway(f)
    [] f.type = "WINDOW_UPDATE" -> pack_window_update(f)
    [] f.type = "ALTSVC" -> pack_altsvc(f)
    [] f.type = "ORIGIN" -> pack_origin(f)
    [] f.type = "EXTENSION" -> pack_extension(f)
\* frame->hd.length, as the nghttp2_frame_*_init functions set it
InitialLength(f) == Len(Payload(f).fixed) + Len(Payload(f).added)

\* SETTINGS, ORIGIN and extensions are checked against the room here; GOAWAY and ALTSVC were
\* when they were submitted.
pack_control(bs, f) ==
  LET hd == [type |-> f.type, flags |-> f.flags, id |-> f.id, length |-> InitialLength(f)]
      h == Write([HeadBuf(bs) EXCEPT !.pos = @ - FRAME_HDLEN], HeadBuf(bs).pos - FRAME_HDLEN, pack_frame_hd(hd))
      fixed == Payload(f).fixed
      p == [Write(h, h.last, fixed) EXCEPT !.last = @ + Len(fixed)]
  IN  IF buf_avail(HeadBuf(bs)) < Len(fixed) THEN [bs EXCEPT !.rv = "FRAME_SIZE_ERROR"]
      ELSE bufs_add([bs EXCEPT !.chain[1] = p], Payload(f).added)

\* A frame header in front of every buffer: the rest of the block goes into CONTINUATION frames.
pack_headers_shared(bs, f) ==
  LET split == bs.cur # 1
      Hd(i) == [id |-> f.id, length |-> buf_len(bs.chain[i]),
                type |-> IF i = 1 THEN f.type ELSE "CONTINUATION",
                flags |-> IF i = 1 THEN (IF split THEN f.flags \ {END_HEADERS} ELSE f.flags)
                          ELSE IF i = bs.cur THEN {END_HEADERS} ELSE {}]
      Pack(i) == [Write(bs.chain[i], bs.chain[i].pos - FRAME_HDLEN, pack_frame_hd(Hd(i)))
                    EXCEPT !.pos = @ - FRAME_HDLEN]
  IN  [bs EXCEPT !.chain = [i \in DOMAIN @ |-> IF i <= bs.cur THEN Pack(i) ELSE @[i]]]

\* A header block behind what stands before it in the payload.
PackBlock(bs, f, prefix) ==
  LET nv_offset == Len(prefix)
      moved == [bs EXCEPT !.chain[1].pos = @ + nv_offset, !.chain[1].last = HeadBuf(bs).pos + nv_offset]
      block == bufs_add(moved, f.block)
      back == [block EXCEPT !.chain[1] = [Write(@, @.pos - nv_offset, prefix) EXCEPT !.pos = @ - nv_offset]]
  IN  IF block.rv = "BUFFER_ERROR" THEN [block EXCEPT !.rv = "HEADER_COMP"]
      ELSE pack_headers_shared(back, f)
headers_prefix(f) == IF PRIORITY \in f.flags THEN pack_priority_spec(f.pri) ELSE <<>>
pack_headers(bs, f) == PackBlock(bs, f, headers_prefix(f))
pack_push_promise(bs, f) == PackBlock(bs, f, put_uint32be(f.promised))

\* session_call_select_padding: the callback may ask for any length up to max.
padded_lengths(length, max) == IF length >= max THEN {length} ELSE {length, length + 1, max}

mutant_frame_set_pad(b, padlen, framehd_only) ==
  LET hd == [i \in 1..FRAME_HDLEN |-> b.mem[b.pos + i - 1]]
      newlen == hd[1] * 65536 + hd[2] * 256 + hd[3] + padlen
      newhd == [put_uint24be(newlen) \o SubSeq(hd, 4, 9) EXCEPT ![5] = @ + PADDED]
      front == [Write(b, b.pos - 1, newhd \o <<padlen - 1>>) EXCEPT !.pos = @ - 1]
  IN  IF framehd_only THEN front ELSE [front EXCEPT !.last = @ + padlen - 1]
\* The frame header moves one octet to the front to make room for the pad length.
frame_set_pad(b, padlen, framehd_only) ==
  LET hd == [i \in 1..FRAME_HDLEN |-> b.mem[b.pos + i - 1]]
      newlen == hd[1] * 65536 + hd[2] * 256 + hd[3] + padlen
      newhd == [put_uint24be(newlen) \o SubSeq(hd, 4, 9) EXCEPT ![5] = @ + PADDED]
      front == [Write(b, b.pos - 1, newhd) EXCEPT !.pos = @ - 1]
      full == Write(Write(front, front.pos + FRAME_HDLEN, <<padlen - 1>>), front.last, [i \in 1..(padlen - 1) |-> 0])
  IN  IF framehd_only THEN front ELSE [full EXCEPT !.last = @ + padlen - 1]
frame_add_pad(bs, padlen, framehd_only) ==
  IF padlen = 0 THEN bs ELSE [bs EXCEPT !.chain[1] = frame_set_pad(@, padlen, framehd_only)]

\* session_estimate_headers_payload
estimate_headers_payload(f) == Len(f.block) + BoundSlack + (IF f.type = "HEADERS" THEN 5 ELSE 0)

(***************************************************************************)
(* session_prep_frame: every way a frame can be packed, as the set of      *)
(* <<buffers, pad length, payload length without it>>.                     *)
(***************************************************************************)
headers_add_pad(bs, length) ==
  {<<frame_add_pad(bs, p - length, FALSE), p - length, length>> :
     p \in padded_lengths(length, MinOf(MAX_PAYLOADLEN, length + MAX_PADLEN))}

PrepHeaders(f) ==
  LET Padded(packed) == IF packed.rv # "ok" THEN {<<packed, 0, 0>>}
                        ELSE headers_add_pad(packed, bufs_len(packed) - FRAME_HDLEN * packed.cur)
  IN  IF estimate_headers_payload(f) > max_send_header_block_length
      THEN {<<[framebufs EXCEPT !.rv = "FRAME_SIZE_ERROR"], 0, 0>>}
      ELSE Padded(IF f.type = "HEADERS" THEN pack_headers(framebufs, f) ELSE pack_push_promise(framebufs, f))

\* nghttp2_session_pack_data: `wanted` is the answer of the read length callback, 0 when none is set.
pack_data(f, wanted) ==
  LET bs == IF wanted > buf_avail(HeadBuf(framebufs)) THEN bufs_realloc(FRAME_HDLEN + 1 + wanted) ELSE framebufs
      datamax == IF wanted = 0 THEN MAX_PAYLOADLEN ELSE wanted
      n == MinOf(Len(f.data), datamax)
      eof == n = Len(f.data)
      data == Write(HeadBuf(bs), Offset, IF f.no_copy THEN <<>> ELSE SubSeq(f.data, 1, n))
      hd == [type |-> "DATA", id |-> f.id, length |-> n, flags |-> IF eof /\ ~f.no_end_stream THEN {END_STREAM} ELSE {}]
      b == Write([data EXCEPT !.last = Offset + n, !.pos = @ - FRAME_HDLEN], Offset - FRAME_HDLEN, pack_frame_hd(hd))
  IN  {IF p = 0 /\ eof /\ f.no_end_stream THEN <<[bs EXCEPT !.rv = "CANCEL"], 0, 0>>
       ELSE <<frame_add_pad([bs EXCEPT !.chain[1] = b], p - n, f.no_copy), p - n, n>> :
         p \in padded_lengths(n, MinOf(datamax, n + MAX_PADLEN))}

\* What may be submitted; pack_extension_callback is given no more room than a payload may take.
submit_goaway(f) == f.opaque = <<>> \/ Len(f.opaque) + 8 <= MAX_PAYLOADLEN
submit_altsvc(f) == 2 + Len(f.origin) + Len(f.value) <= MAX_PAYLOADLEN /\ ((f.id = 0) <=> (f.origin # <<>>))
submit_origin(f) == InitialLength(f) <= MAX_PAYLOADLEN
submit_extension(f) == Len(f.opaque) <= MAX_PAYLOADLEN
submittable(f) ==
  CASE f.type = "GOAWAY" -> submit_goaway(f)
    [] f.type = "ALTSVC" -> submit_altsvc(f)
    [] f.type = "ORIGIN" -> submit_origin(f)
    [] f.type = "EXTENSION" -> submit_extension(f)
    [] OTHER -> TRUE

(***************************************************************************)
(* The send loop                                                           *)
(***************************************************************************)
Init ==
  /\ framebufs = bufs_add(bufs_init3(CHUNKLEN), CLIENT_MAGIC)
  /\ item = [type |-> "MAGIC"]
  /\ wire = <<>>
  /\ last = NONE
  /\ nframes = 0

\* NGHTTP2_OB_POP_ITEM: pack the next frame; a frame that cannot be packed is dropped.
Prepare(f, wanted) ==
  /\ item = NONE
  /\ nframes < MaxFrames /\ nframes' = nframes + 1
  /\ submittable(f)
  /\ wire' = <<>>
  /\ \E r \in CASE f.type \in {"HEADERS", "PUSH_PROMISE"} -> PrepHeaders(f)
                [] f.type = "DATA" -> pack_data(f, wanted)
                [] OTHER -> {<<pack_control(framebufs, f), 0, InitialLength(f)>>} :
       IF r[1].rv = "ok"
         THEN /\ item' = [type |-> f.type, frame |-> f, padlen |-> r[2], length |-> r[3]]
              /\ framebufs' = [r[1] EXCEPT !.cur = 1]      \* nghttp2_bufs_rewind
              /\ last' = NONE
         ELSE /\ item' = NONE
              /\ framebufs' = bufs_reset(r[1])
              /\ last' = [type |-> f.type, frame |-> f, rv |-> r[1].rv]

NoCopy == item.type = "DATA" /\ item.frame.no_copy

\* nghttp2_session_send: the callback takes n octets; the position is set back by the rest.
Send(n) ==
  /\ item # NONE /\ ~NoCopy
  /\ n <= buf_len(Cur(framebufs))
  /\ wire' = wire \o SubSeq(Unsent(Cur(framebufs)), 1, n)
  /\ framebufs' = [framebufs EXCEPT !.chain[framebufs.cur].pos = @ + n]
  /\ UNCHANGED <<item, last, nframes>>

\* The buffer is out: session_after_frame_sent1 and 2 go on to the next one or are done.
AfterSent ==
  /\ item # NONE /\ ~NoCopy
  /\ buf_len(Cur(framebufs)) = 0
  /\ IF item.type \in {"HEADERS", "PUSH_PROMISE"} /\ bufs_next_present(framebufs)
       THEN /\ framebufs' = [framebufs EXCEPT !.cur = @ + 1]
            /\ UNCHANGED <<item, last>>
       ELSE /\ framebufs' = bufs_reset(framebufs)
            /\ item' = NONE
            /\ last' = [rv |-> "ok"] @@ item
  /\ UNCHANGED <<wire, nframes>>

\* NGHTTP2_OB_SEND_NO_COPY: send_data_callback gets the frame header and writes pad length,
\* data and padding itself.
SendNoCopy ==
  /\ NoCopy
  /\ LET trail == item.padlen - 1
     IN  wire' = SubSeq(Unsent(HeadBuf(framebufs)), 1, FRAME_HDLEN)
                   \o (IF item.padlen = 0 THEN SubSeq(item.frame.data, 1, item.length)
                       ELSE <<trail>> \o SubSeq(item.frame.data, 1, item.length) \o [i \in 1..trail |-> 0])
  /\ framebufs' = bufs_reset(framebufs)
  /\ item' = NONE
  /\ last' = [rv |-> "ok"] @@ item
  /\ UNCHANGED nframes

Next ==
  \/ \E f \in Frames, n \in ReadLengths : Prepare(f, n)
  \/ item # NONE /\ buf_len(Cur(framebufs)) > 0 /\ (Send(1) \/ Send(buf_len(Cur(framebufs))))
  \/ AfterSent
  \/ SendNoCopy

Spec == Init /\ [][Next]_vars

(***************************************************************************)
(* Unpacking: what the octets on the wire say                              *)
(***************************************************************************)
get_uint16(s) == s[1] * 256 + s[2]
get_uint31(s) == (s[1] % 128) * 16777216 + s[2] * 65536 + s[3] * 256 + s[4]
FlagsOf(octet) == {b \in {END_STREAM, END_HEADERS, PADDED, PRIORITY} : (octet \div b) % 2 = 1}

unpack_frame_hd(s) ==
  [length |-> s[1] * 65536 + s[2] * 256 + s[3], type |-> Types[s[4] + 1], flags |-> FlagsOf(s[5]),
   id |-> get_uint31(SubSeq(s, 6, 9))]

\* The frames in s, at most n of them, each with its payload.
SplitFrames(s, n) ==
  LET f[k \in 0..n] ==
        IF k = 0 THEN [rest |-> s, out |-> <<>>]
        ELSE LET p == f[k - 1]
                 hd == unpack_frame_hd(p.rest)
                 end == FRAME_HDLEN + hd.length
             IN  IF Len(p.rest) < FRAME_HDLEN \/ end > Len(p.rest) THEN p
                 ELSE [rest |-> SubSeq(p.rest, end + 1, Len(p.rest)),
                       out |-> Append(p.out, hd @@ [payload |-> SubSeq(p.rest, FRAME_HDLEN + 1, end)])]
  IN  f[n]

unpack_priority_spec(s) == [dep |-> get_uint31(s), exclusive |-> s[1] >= 128, weight |-> s[5] + 1]
Unpadded(g) ==
  IF PADDED \notin g.flags THEN g.payload ELSE SubSeq(g.payload, 2, g.length - g.payload[1])
trailing(g) == IF PADDED \notin g.flags THEN <<>> ELSE SubSeq(g.payload, g.length - g.payload[1] + 1, g.length)

unpack_settings_payload2(s) ==
  [i \in 1..(Len(s) \div 6) |-> <<get_uint16(SubSeq(s, 6 * i - 5, 6 * i - 4)), get_uint31(SubSeq(s, 6 * i - 3, 6 * i))>>]

\* Origins of no length are skipped.
unpack_origin_payload(s) ==
  LET from[p \in 1..(Len(s) + 1)] ==
        LET left == Len(s) + 1 - p
            n == get_uint16(SubSeq(s, p, p + 1))
            more == from[p + 2 + n]
        IN  CASE left = 0 -> [rv |-> "ok", ov |-> <<>>]
              [] left = 1 -> [rv |-> "FRAME_SIZE_ERROR", ov |-> <<>>]
              [] left > 1 /\ n > left - 2 -> [rv |-> "FRAME_SIZE_ERROR", ov |-> <<>>]
              [] OTHER -> IF n = 0 THEN more
                          ELSE [more EXCEPT !.ov = <<SubSeq(s, p + 2, p + 1 + n)>> \o @]
  IN  from[1]

unpack_goaway_payload2(s) ==
  [last |-> get_uint31(s), code |-> get_uint31(SubSeq(s, 5, 8)), opaque |-> SubSeq(s, 9, Len(s))]
unpack_altsvc_payload2(s) ==
  [origin |-> SubSeq(s, 3, 2 + get_uint16(s)), value |-> SubSeq(s, 3 + get_uint16(s), Len(s))]
\* The fields of a frame that is not DATA and has no header block.
unpack_payload(type, s) ==
  CASE type = "PRIORITY" -> [pri |-> unpack_priority_spec(s)]
    [] type = "RST_STREAM" -> [code |-> get_uint31(s)]
    [] type = "SETTINGS" -> [iv |-> unpack_settings_payload2(s)]
    [] type \in {"PING", "EXTENSION"} -> [opaque |-> s]
    [] type = "GOAWAY" -> unpack_goaway_payload2(s)
    [] type = "WINDOW_UPDATE" -> [inc |-> get_uint31(s)]
    [] type = "ALTSVC" -> unpack_altsvc_payload2(s)
    [] type = "ORIGIN" -> [ov |-> unpack_origin_payload(s).ov]
unpack_push_promise_payload(s) == [promised |-> get_uint31(s), block |-> SubSeq(s, 5, Len(s))]
unpack_headers_payload(g, s) ==
  IF PRIORITY \in g.flags THEN [pri |-> unpack_priority_spec(s), block |-> SubSeq(s, 6, Len(s))] ELSE [block |-> s]

-----------------------------------------------------------------------------
(***************************************************************************)
(* Properties                                                              *)
(***************************************************************************)
Unpacked == SplitFrames(wire, nbuffer)
Sent == last # NONE /\ last.rv = "ok" /\ item = NONE /\ last.type # "MAGIC"
Same(g, f) == \A k \in DOMAIN f \ {"type", "flags", "id", "no_copy", "no_end_stream"} : g[k] = f[k]

(***************************************************************************)
(* What is unpacked from the octets of a frame that was sent is the frame  *)
(* that was submitted, however the callback took them, whatever was in the *)
(* buffers before, split over CONTINUATION frames or not, padded or not    *)
(* (the pack and unpack functions of nghttp2_frame.c, frame_set_pad).      *)
(***************************************************************************)
RoundTrip ==
  Sent => LET u == Unpacked
              g == u.out[1]
              f == last.frame
              body == Unpadded(g)
              rest == FoldLeft(LAMBDA acc, c : acc \o c.payload, <<>>, Tail(u.out))
          IN  /\ u.rest = <<>> /\ u.out # <<>>
              /\ g.type = f.type /\ g.id = f.id
              /\ (PADDED \in g.flags) = (last.padlen > 0)
              /\ \A i \in DOMAIN trailing(g) : trailing(g)[i] = 0
              /\ CASE f.type = "DATA" ->
                        /\ body = SubSeq(f.data, 1, last.length)
                        /\ END_STREAM \in g.flags <=> (last.length = Len(f.data) /\ ~f.no_end_stream)
                   [] f.type \in {"HEADERS", "PUSH_PROMISE"} ->
                        Same(LET p == IF f.type = "HEADERS" THEN unpack_headers_payload(g, body) ELSE unpack_push_promise_payload(body)
                             IN  [p EXCEPT !.block = @ \o rest], f)
                   [] OTHER -> Same(unpack_payload(f.type, body), f) /\ g.flags \ {PADDED} = f.flags

(***************************************************************************)
(* A header block is one frame and CONTINUATION frames of the same stream, *)
(* and END_HEADERS is on the last of them only                             *)
(* (frame_pack_headers_shared).                                            *)
(***************************************************************************)
BlockIsClosed ==
  Sent /\ last.type \in {"HEADERS", "PUSH_PROMISE"} =>
    LET u == Unpacked.out
    IN  \A i \in DOMAIN u : /\ (END_HEADERS \in u[i].flags) = (i = Len(u))
                            /\ i > 1 => u[i].type = "CONTINUATION" /\ u[i].id = last.frame.id

(***************************************************************************)
(* No buffer is written before its beginning or behind its end: the        *)
(* offset of FRAME_HDLEN + 1 leaves room for the header and the pad length *)
(* (frame_set_pad, nghttp2_bufs_add).                                      *)
(***************************************************************************)
WithinBuffers ==
  \A i \in DOMAIN framebufs.chain :
    LET b == framebufs.chain[i] IN 0 <= b.pos /\ b.pos <= b.last /\ b.last <= b.end

(***************************************************************************)
(* Between frames there is one empty buffer, also after a frame was        *)
(* refused half way through packing (active_outbound_item_reset).          *)
(***************************************************************************)
EmptyBetweenFrames ==
  item = NONE => /\ framebufs.cur = 1 /\ Len(framebufs.chain) = 1 /\ framebufs.rv = "ok"
                 /\ HeadBuf(framebufs).pos = Offset /\ HeadBuf(framebufs).last = Offset

(***************************************************************************)
(* A header block within max_send_header_block_length never runs out of    *)
(* buffers, which would end the connection (nghttp2_session_mem_send's     *)
(* NGHTTP2_ERR_HEADER_COMP), and no frame is longer than                   *)
(* MAX_PAYLOADLEN, the smallest SETTINGS_MAX_FRAME_SIZE there is, unless a *)
(* read length callback has had the buffer enlarged.                       *)
(***************************************************************************)
FramesFit ==
  /\ last # NONE /\ item = NONE => last.rv # "HEADER_COMP"
  /\ Sent /\ framebufs.chunk_length = CHUNKLEN =>
       \A i \in DOMAIN Unpacked.out : Unpacked.out[i].length <= MAX_PAYLOADLEN
=============================================================================
