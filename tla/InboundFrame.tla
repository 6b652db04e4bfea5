---------------------------- MODULE InboundFrame ----------------------------
(***************************************************************************)
(* nghttp2_session_mem_recv as a machine over bytes: a connection's bytes  *)
(* arrive in pieces of any size, and the frames they make up must be the   *)
(* ones the peer sent, however they are cut.  Bytes carry nothing but      *)
(* their position; what a frame says is in its descriptor (Wires), and     *)
(* whether the session wants it is the descriptor's verdict.  One step is  *)
(* one turn of the loop of mem_recv, one action a state of the machine.    *)
(***************************************************************************)
EXTENDS Integers, Sequences, FiniteSets, SequencesExt

CONSTANTS Wires,           \* sequences of frame descriptors that may arrive
          MAX_FRAME_SIZE,  \* local_settings.max_frame_size
          UINT32_MAX,      \* scaled down
          MaxPauses        \* bound on callbacks that pause or fail

HDLEN == 9     \* NGHTTP2_FRAME_HDLEN
SPECLEN == 5   \* NGHTTP2_PRIORITY_SPECLEN
ENTRY == 6     \* NGHTTP2_FRAME_SETTINGS_ENTRY_LENGTH
MAGIC == 24    \* NGHTTP2_CLIENT_MAGIC_LEN


VARIABLES wire,    \* the frames of this connection
          pos,     \* bytes consumed so far
          avail,   \* bytes of the current call that are not consumed
          go,      \* the loop of the current call goes on
          ib,      \* session->iframe
          got,     \* what the application and the windows got of this frame
          log,     \* the same for each frame that is finished
          gone,    \* the stream of the current DATA was closed between calls
          pauses   \* callbacks that may still pause or fail

vars == <<wire, pos, avail, go, ib, got, log, gone, pauses>>

Lesser(a, b) == IF a < b THEN a ELSE b
Has(f, flag) == flag \in f.flags

\* Where frame i starts on the wire, after the client's magic.
Starts(w) == [i \in 1..(Len(w) + 1) |->
                MAGIC + FoldLeft(LAMBDA n, f : n + HDLEN + f.len, 0, SubSeq(w, 1, i - 1))]
Total == Starts(wire)[Len(wire) + 1]

NoGot == [first |-> 0, fc |-> 0, data |-> 0, hdr |-> 0, final |-> 0, debug |-> 0,
          recv |-> FALSE, spoilt |-> FALSE, iv |-> <<>>, spare |-> 1]

\* session_inbound_frame_reset
inbound_frame_reset ==
  [state |-> "READ_HEAD", k |-> 0, last |-> 0, flags |-> {}, need |-> HDLEN, payloadleft |-> 0,
   padlen |-> 0, iv |-> <<>>, max_niv |-> 0, min |-> UINT32_MAX, lbuf |-> 0]

Init ==
  /\ wire \in Wires
  /\ pos = 0 /\ avail = 0 /\ go = FALSE
  /\ ib = [inbound_frame_reset EXCEPT !.state = "READ_CLIENT_MAGIC", !.payloadleft = MAGIC]
  /\ got = NoGot /\ log = <<>> /\ gone = FALSE /\ pauses = MaxPauses

\* The application calls mem_recv with the next n bytes.
Call(n) ==
  /\ ~go /\ pos < Total /\ n \in 1..(Total - pos) /\ ib.state # "IGN_ALL"
  /\ avail' = n /\ go' = TRUE
  /\ UNCHANGED <<wire, pos, ib, got, log, gone, pauses>>

\* The stream of the DATA being read is closed between two calls.
CloseStream ==
  /\ ~go /\ ib.state \in {"READ_DATA", "READ_PAD_DATA"} /\ ~gone
  /\ gone' = TRUE
  /\ UNCHANGED <<wire, pos, avail, go, ib, got, log, pauses>>

----------------------------------------------------------------------------
(* How a turn of the loop ends.                                            *)

Consumed(n) == pos' = pos + n /\ avail' = avail - n

\* The loop ends when the input is used up, unless the state is busy.
Turn(n, i, busy) ==
  /\ Consumed(n) /\ ib' = i /\ go' = (busy \/ avail > n)
  /\ UNCHANGED <<wire, log, gone>>

\* mem_recv returns what it has read so far; the rest is for the next call.
Return(n, i) ==
  /\ pos' = pos + n /\ avail' = 0 /\ ib' = i /\ go' = FALSE
  /\ UNCHANGED <<wire, log, gone>>

\* The session is terminated: the rest of the connection is ignored.
Terminate ==
  /\ ib' = [ib EXCEPT !.state = "IGN_ALL"] /\ go' = FALSE /\ avail' = 0
  /\ UNCHANGED <<wire, pos, got, log, gone, pauses>>

\* The frame is done.
FrameDone(n, g) ==
  /\ Consumed(n) /\ ib' = inbound_frame_reset /\ go' = (avail > n)
  /\ log' = Append(log, [g EXCEPT !.first = ib.k] @@ [last |-> ib.last]) /\ got' = NoGot
  /\ gone' = FALSE
  /\ UNCHANGED wire

BufRead == Lesser(avail, ib.need)
PayloadRead == Lesser(avail, ib.payloadleft)

\* The frame whose header has just been read, 0 if it is none of the wire's.
HeaderAt(p) ==
  IF \E i \in 1..Len(wire) : Starts(wire)[i] = p
  THEN CHOOSE i \in 1..Len(wire) : Starts(wire)[i] = p ELSE 0

----------------------------------------------------------------------------
(* READ_HEAD: what a frame's header leads to: the next state, the bytes it *)
(* waits for, and whether it goes on without any.                          *)

To(state, need, busy) == [state |-> state, need |-> need, busy |-> busy]
SizeError == To("FRAME_SIZE_ERROR", 0, TRUE)

\* inbound_frame_handle_pad
handle_pad(f) == IF ~Has(f, "PADDED") THEN 0 ELSE IF f.len < 1 THEN -1 ELSE 1

priority_len(flags) == IF "PRIORITY" \in flags THEN SPECLEN ELSE 0

head_data(f) ==
  CASE f.verdict = "error" -> To("IGN_ALL", 0, FALSE)
    [] f.verdict = "ignore" -> To("IGN_DATA", 0, TRUE)
    [] f.verdict = "ok" /\ handle_pad(f) < 0 -> To("IGN_ALL", 0, FALSE)
    [] f.verdict = "ok" /\ handle_pad(f) = 1 -> To("READ_PAD_DATA", 1, TRUE)
    [] OTHER -> To("READ_DATA", 0, TRUE)

\* What session_process_headers_frame or _push_promise_frame makes of the frame.
Block(f) ==
  CASE f.verdict = "error" -> To("IGN_ALL", 0, FALSE)
    [] f.verdict = "ignore" -> To("IGN_HEADER_BLOCK", 0, TRUE)
    [] OTHER -> To("READ_HEADER_BLOCK", 0, TRUE)

head_headers(f) ==
  CASE handle_pad(f) < 0 -> To("IGN_ALL", 0, FALSE)
    [] handle_pad(f) = 1 -> To("READ_NBYTE", 1, FALSE)
    [] handle_pad(f) = 0 /\ Has(f, "PRIORITY") ->
         IF f.len < SPECLEN THEN SizeError ELSE To("READ_NBYTE", SPECLEN, FALSE)
    [] OTHER -> Block(f)

head_push_promise(f) ==
  CASE handle_pad(f) < 0 -> To("IGN_ALL", 0, FALSE)
    [] handle_pad(f) = 1 -> To("READ_NBYTE", 1, FALSE)
    [] OTHER -> IF f.len < 4 THEN SizeError ELSE To("READ_NBYTE", 4, FALSE)

\* PRIORITY, RST_STREAM, WINDOW_UPDATE, PING and GOAWAY have fields of a fixed size.
head_fixed(f) ==
  LET n == CASE f.t = "PRIORITY" -> SPECLEN
             [] f.t \in {"RST_STREAM", "WINDOW_UPDATE"} -> 4
             [] OTHER -> 8
      ok == IF f.t = "GOAWAY" THEN f.len >= n ELSE f.len = n
  IN  IF ok THEN To("READ_NBYTE", n, FALSE) ELSE SizeError

head_settings(f) ==
  IF f.len % ENTRY # 0 \/ (Has(f, "ACK") /\ f.len > 0) THEN SizeError
  ELSE IF f.len > 0 THEN To("READ_SETTINGS", ENTRY, FALSE) ELSE To("READ_SETTINGS", 0, TRUE)

\* Extension frames: "EXT" is one the application unpacks.
head_extension(f) ==
  CASE f.t = "EXT" -> To("READ_EXTENSION_PAYLOAD", 0, TRUE)
    [] f.t = "ALTSVC" -> IF f.len < 2 THEN SizeError ELSE To("READ_NBYTE", 2, TRUE)
    [] f.t = "ORIGIN" /\ f.verdict = "ok" -> To("READ_ORIGIN_PAYLOAD", 0, f.len = 0)
    [] OTHER -> To("IGN_PAYLOAD", 0, TRUE)

head(f) ==
  CASE f.len > MAX_FRAME_SIZE \/ f.t = "CONTINUATION" -> To("IGN_ALL", 0, FALSE)
    [] f.len <= MAX_FRAME_SIZE /\ f.t = "DATA" -> head_data(f)
    [] f.len <= MAX_FRAME_SIZE /\ f.t = "HEADERS" -> head_headers(f)
    [] f.len <= MAX_FRAME_SIZE /\ f.t = "PUSH_PROMISE" -> head_push_promise(f)
    [] f.len <= MAX_FRAME_SIZE /\ f.t = "SETTINGS" -> head_settings(f)
    [] f.len <= MAX_FRAME_SIZE /\ f.t \in {"EXT", "ALTSVC", "ORIGIN", "UNKNOWN"} -> head_extension(f)
    [] OTHER -> head_fixed(f)

----------------------------------------------------------------------------
(* The states of the machine.                                              *)

ReadMagic ==
  /\ go /\ ib.state = "READ_CLIENT_MAGIC"
  /\ LET n == PayloadRead
     IN  Turn(n, IF n < ib.payloadleft THEN [ib EXCEPT !.payloadleft = @ - n]
                 ELSE [inbound_frame_reset EXCEPT !.state = "READ_FIRST_SETTINGS"], FALSE)
  /\ UNCHANGED <<got, pauses>>

\* The first frame must be SETTINGS and no ACK.
Refused(f) == ib.state = "READ_FIRST_SETTINGS" /\ (f.t # "SETTINGS" \/ Has(f, "ACK"))

\* iframe once the header of frame k is read.
Started(k) ==
  LET f == wire[k]
      h == head(f)
  IN  [ib EXCEPT !.state = h.state, !.k = k, !.last = k, !.flags = f.flags, !.need = h.need,
                 !.payloadleft = f.len,
                 !.max_niv = IF f.t = "SETTINGS" /\ f.len > 0 THEN f.len \div ENTRY + 1 ELSE 0,
                 !.lbuf = IF f.t = "ORIGIN" THEN f.len ELSE 0]

ReadHead ==
  /\ go /\ ib.state \in {"READ_FIRST_SETTINGS", "READ_HEAD"}
  /\ LET n == BufRead
         k == HeaderAt(pos + n - HDLEN)
     IN  CASE n < ib.need -> Return(n, [ib EXCEPT !.need = @ - n]) /\ UNCHANGED <<got, pauses>>
           [] n = ib.need /\ k = 0 ->
                Return(n, [ib EXCEPT !.state = "LOST"]) /\ UNCHANGED <<got, pauses>>
           [] OTHER -> IF Refused(wire[k]) \/ head(wire[k]).state = "IGN_ALL" THEN Terminate
                       ELSE Turn(n, Started(k), head(wire[k]).busy) /\ UNCHANGED <<got, pauses>>

F == wire[ib.k]   \* the frame being read

\* The pad length, plus one for its own byte; -1 if it exceeds what is left.
compute_pad(left) == IF F.pad > left THEN -1 ELSE F.pad + 1

\* The pad length has been read; fixed is the size of the fields that follow it.
PadRead(n, left, fixed) ==
  IF compute_pad(left) < 0 \/ F.pad + 1 + fixed > 1 + left THEN Terminate
  ELSE LET i == [ib EXCEPT !.payloadleft = left, !.padlen = F.pad + 1, !.need = fixed]
       IN  IF fixed > 0 THEN Turn(n, i, FALSE) /\ UNCHANGED <<got, pauses>>
           ELSE IF Block(F).state = "IGN_ALL" THEN Terminate
           ELSE Turn(n, [i EXCEPT !.state = Block(F).state], TRUE) /\ UNCHANGED <<got, pauses>>

\* The fields in front of a header block.
nbyte_block(n, left, fixed) ==
  IF ib.padlen = 0 /\ "PADDED" \in ib.flags THEN PadRead(n, left, fixed)
  ELSE IF Block(F).state = "IGN_ALL" THEN Terminate
  ELSE /\ Turn(n, [ib EXCEPT !.payloadleft = left, !.need = 0, !.state = Block(F).state], TRUE)
       /\ UNCHANGED <<got, pauses>>

\* A frame that is nothing but its fields.
nbyte_fixed(n) ==
  IF F.verdict = "error" THEN Terminate
  ELSE FrameDone(n, [got EXCEPT !.recv = TRUE]) /\ UNCHANGED pauses

mutant_nbyte_buffered(n, left, state) ==
  Turn(n, [ib EXCEPT !.need = 0, !.state = state, !.lbuf = left], TRUE)
    /\ UNCHANGED <<got, pauses>>

nbyte_buffered(n, left, state) ==
  Turn(n, [ib EXCEPT !.payloadleft = left, !.need = 0, !.state = state, !.lbuf = left], TRUE)
    /\ UNCHANGED <<got, pauses>>

ReadNbyte ==
  /\ go /\ ib.state = "READ_NBYTE"
  /\ LET n == BufRead
         left == ib.payloadleft - n
     IN  CASE n < ib.need -> /\ Return(n, [ib EXCEPT !.need = @ - n, !.payloadleft = left])
                             /\ UNCHANGED <<got, pauses>>
           [] n = ib.need /\ F.t = "HEADERS" -> nbyte_block(n, left, priority_len(ib.flags))
           [] n = ib.need /\ F.t = "PUSH_PROMISE" -> nbyte_block(n, left, 4)
           [] n = ib.need /\ F.t = "GOAWAY" -> nbyte_buffered(n, left, "READ_GOAWAY_DEBUG")
           [] n = ib.need /\ F.t = "ALTSVC" ->
                nbyte_buffered(n, left, IF F.pad > left THEN "FRAME_SIZE_ERROR"
                                        ELSE "READ_ALTSVC_PAYLOAD")
           [] OTHER -> nbyte_fixed(n)

trail_padlen == IF ib.padlen = 0 THEN 0 ELSE ib.padlen - (IF "PADDED" \in ib.flags THEN 1 ELSE 0)

\* The bytes of n read that are not padding, with left bytes still to come.
effective_readlen(left, n) ==
  IF trail_padlen > left
  THEN IF n < trail_padlen - left THEN 0 ELSE n - (trail_padlen - left)
  ELSE n

\* The application's header callback pauses after h bytes, or fails.
HeaderCallbackFails(d) ==
  /\ pauses > 0 /\ ib.state = "READ_HEADER_BLOCK" /\ pauses' = pauses - 1
  /\ \E h \in 1..d :
       LET g == [got EXCEPT !.hdr = @ + h]
           i == [ib EXCEPT !.payloadleft = @ - h]
       IN  \/ Return(h, i) /\ got' = g
           \/ Turn(h, [i EXCEPT !.state = "IGN_HEADER_BLOCK"], TRUE) /\ got' = [g EXCEPT !.spoilt = TRUE]

HeaderBytes(n, d, final) ==
  LET left == ib.payloadleft - n
      fed == d > 0 \/ final
      g == [got EXCEPT !.hdr = @ + d, !.final = IF fed /\ final THEN @ + 1 ELSE @]
      i == [ib EXCEPT !.payloadleft = left]
  IN  CASE left > 0 -> Turn(n, i, FALSE) /\ got' = g
        [] left = 0 /\ "END_HEADERS" \notin ib.flags ->
             /\ Turn(n, [i EXCEPT !.need = HDLEN, !.padlen = 0,
                                  !.state = IF @ = "READ_HEADER_BLOCK" THEN "EXPECT_CONTINUATION"
                                            ELSE "IGN_CONTINUATION"], FALSE)
             /\ got' = g
        [] OTHER -> FrameDone(n, [g EXCEPT !.recv = ib.state = "READ_HEADER_BLOCK"])

ReadHeaderBlock ==
  /\ go /\ ib.state \in {"READ_HEADER_BLOCK", "IGN_HEADER_BLOCK"}
  /\ LET n == PayloadRead
         d == effective_readlen(ib.payloadleft - n, n)
         final == "END_HEADERS" \in ib.flags /\ ib.payloadleft - d = trail_padlen
     IN  \/ HeaderCallbackFails(d)
         \/ HeaderBytes(n, d, final) /\ UNCHANGED pauses

mutant_Continuation ==
  /\ go /\ ib.state \in {"EXPECT_CONTINUATION", "IGN_CONTINUATION"}
  /\ LET n == BufRead
         k == HeaderAt(pos + n - HDLEN)
         f == wire[k]
         i == [ib EXCEPT !.need = 0, !.payloadleft = f.len, !.last = k,
                         !.flags = @ \cup (f.flags \cap {"END_HEADERS"}),
                         !.state = IF @ = "EXPECT_CONTINUATION" THEN "READ_HEADER_BLOCK"
                                   ELSE "IGN_HEADER_BLOCK"]
     IN  IF n < ib.need THEN Return(n, [ib EXCEPT !.need = @ - n]) /\ UNCHANGED <<got, pauses>>
         ELSE Turn(n, i, TRUE) /\ UNCHANGED <<got, pauses>>

Continuation ==
  /\ go /\ ib.state \in {"EXPECT_CONTINUATION", "IGN_CONTINUATION"}
  /\ LET n == BufRead
         k == HeaderAt(pos + n - HDLEN)
         f == wire[k]
         i == [ib EXCEPT !.need = 0, !.payloadleft = f.len, !.last = k,
                         !.flags = @ \cup (f.flags \cap {"END_HEADERS"}),
                         !.state = IF @ = "EXPECT_CONTINUATION" THEN "READ_HEADER_BLOCK"
                                   ELSE "IGN_HEADER_BLOCK"]
     IN  IF n < ib.need THEN Return(n, [ib EXCEPT !.need = @ - n]) /\ UNCHANGED <<got, pauses>>
         ELSE IF f.t # "CONTINUATION" \/ f.verdict = "error" THEN Terminate
         ELSE Turn(n, i, TRUE) /\ UNCHANGED <<got, pauses>>

IgnPayload ==
  /\ go /\ ib.state = "IGN_PAYLOAD"
  /\ LET n == PayloadRead
     IN  IF n < ib.payloadleft
         THEN Turn(n, [ib EXCEPT !.payloadleft = @ - n], FALSE) /\ UNCHANGED got
         ELSE FrameDone(n, got)
  /\ UNCHANGED pauses

FrameSizeError == go /\ ib.state = "FRAME_SIZE_ERROR" /\ Terminate

HTS == "HEADER_TABLE_SIZE"
Known == {HTS, "ENABLE_PUSH", "MAX_CONCURRENT_STREAMS", "INITIAL_WINDOW_SIZE", "MAX_FRAME_SIZE",
          "MAX_HEADER_LIST_SIZE", "ENABLE_CONNECT_PROTOCOL"}
IndexOfKey(iv, key) == SelectInSeq(iv, LAMBDA e : e[1] = key)

\* inbound_frame_set_settings_entry: a known entry replaces the earlier one, and
\* the smallest table size is kept in the spare last slot of iv.
set_settings_entry(i, e) ==
  LET j == IndexOfKey(i.iv, e[1])
  IN  [i EXCEPT !.iv = IF e[1] \in Known /\ j # 0 THEN [@ EXCEPT ![j] = e] ELSE Append(@, e),
                !.min = IF e[1] = HTS THEN Lesser(@, e[2]) ELSE @]

\* session_process_settings_frame: the smallest table size takes effect first.
process_settings(i) ==
  LET j == IndexOfKey(i.iv, HTS)
  IN  IF i.max_niv > 0 /\ i.min < UINT32_MAX /\ i.min # i.iv[j][2]
      THEN Append([i.iv EXCEPT ![j] = <<HTS, i.min>>], i.iv[j]) ELSE i.iv

ReadSettings ==
  /\ go /\ ib.state = "READ_SETTINGS"
  /\ LET n == BufRead
         left == ib.payloadleft - n
         i == [ib EXCEPT !.need = @ - n, !.payloadleft = left]
         e == IF n > 0 THEN set_settings_entry(i, F.iv[(F.len - left) \div ENTRY]) ELSE i
     IN  CASE n < ib.need -> Turn(n, i, FALSE) /\ UNCHANGED got
           [] n = ib.need /\ left > 0 -> Turn(n, [e EXCEPT !.need = ENTRY], FALSE) /\ UNCHANGED got
           [] OTHER -> FrameDone(n, [got EXCEPT !.recv = TRUE, !.iv = process_settings(e),
                                            !.spare = IF n > 0 THEN ib.max_niv - Len(e.iv) ELSE @])
  /\ UNCHANGED pauses

\* READ_GOAWAY_DEBUG, READ_ALTSVC_PAYLOAD and READ_ORIGIN_PAYLOAD gather their
\* payload in lbuf.
ReadBuffered ==
  /\ go /\ ib.state \in {"READ_GOAWAY_DEBUG", "READ_ALTSVC_PAYLOAD", "READ_ORIGIN_PAYLOAD"}
  /\ LET n == PayloadRead
         g == [got EXCEPT !.debug = @ + n]
     IN  IF n < ib.payloadleft
         THEN Turn(n, [ib EXCEPT !.payloadleft = @ - n, !.lbuf = @ - n], FALSE) /\ got' = g
         ELSE FrameDone(n, [g EXCEPT !.recv = TRUE])
  /\ UNCHANGED pauses

\* The application unpacks the payload, or gives the frame up.
ReadExtension ==
  /\ go /\ ib.state = "READ_EXTENSION_PAYLOAD"
  /\ LET n == PayloadRead
         g == [got EXCEPT !.debug = @ + n]
         i == [ib EXCEPT !.payloadleft = @ - n]
     IN  \/ /\ n > 0 /\ pauses > 0 /\ pauses' = pauses - 1
            /\ Turn(n, [i EXCEPT !.state = "IGN_PAYLOAD"], TRUE)
            /\ got' = [got EXCEPT !.spoilt = TRUE]
         \/ /\ IF n < ib.payloadleft THEN Turn(n, i, FALSE) /\ got' = g
               ELSE FrameDone(n, [g EXCEPT !.recv = TRUE])
            /\ UNCHANGED pauses

----------------------------------------------------------------------------
(* DATA: every byte of the payload, padding and pad length included, is    *)
(* counted against the connection's window.                                *)

ReadPadData ==
  /\ go /\ ib.state = "READ_PAD_DATA"
  /\ LET n == BufRead
         left == ib.payloadleft - n
         i == [ib EXCEPT !.need = @ - n, !.payloadleft = left]
     IN  IF n < ib.need THEN Return(n, i) /\ UNCHANGED <<got, pauses>>
         ELSE IF compute_pad(left) < 0 THEN Terminate
         ELSE /\ Turn(n, [i EXCEPT !.padlen = F.pad + 1, !.state = "READ_DATA"], TRUE)
              /\ got' = [got EXCEPT !.fc = @ + n]
              /\ UNCHANGED pauses

ReadData ==
  /\ go /\ ib.state = "READ_DATA"
  /\ LET n == PayloadRead
         left == ib.payloadleft - n
         d == effective_readlen(left, n)
         i == [ib EXCEPT !.payloadleft = left]
         g == [got EXCEPT !.fc = @ + n, !.data = @ + d]
     IN  \/ /\ gone /\ Turn(0, [ib EXCEPT !.state = "IGN_DATA"], TRUE)
            /\ got' = [got EXCEPT !.spoilt = TRUE] /\ UNCHANGED pauses
         \/ /\ ~gone /\ d > 0 /\ pauses > 0 /\ pauses' = pauses - 1   \* the callback pauses
            /\ Return(n, i) /\ got' = g
         \/ /\ ~gone
            /\ IF left > 0 THEN Turn(n, i, FALSE) /\ got' = g
               ELSE FrameDone(n, [g EXCEPT !.recv = TRUE])
            /\ UNCHANGED pauses

IgnData ==
  /\ go /\ ib.state = "IGN_DATA"
  /\ LET n == PayloadRead
         g == [got EXCEPT !.fc = @ + n]
     IN  IF n < ib.payloadleft
         THEN Turn(n, [ib EXCEPT !.payloadleft = @ - n], FALSE) /\ got' = g
         ELSE FrameDone(n, g)
  /\ UNCHANGED pauses

Next ==
  \/ \E n \in 1..(Total - pos) : Call(n)
  \/ CloseStream
  \/ ReadMagic \/ ReadHead \/ ReadNbyte \/ ReadHeaderBlock \/ Continuation \/ IgnPayload
  \/ FrameSizeError \/ ReadSettings \/ ReadBuffered \/ ReadExtension
  \/ ReadPadData \/ ReadData \/ IgnData

Spec == Init /\ [][Next]_vars

----------------------------------------------------------------------------
(* What the machine must do, stated from the frames alone.                 *)

Padding(f) == IF Has(f, "PADDED") THEN f.pad + 1 ELSE 0
Fields(f) == CASE f.t = "HEADERS" -> priority_len(f.flags) [] f.t = "PUSH_PROMISE" -> 4 [] OTHER -> 0

\* Frame i must carry on the header block of the frame before it.
Continues(i) ==
  i > 1 /\ LET f == wire[i - 1]
           IN  f.t \in {"HEADERS", "PUSH_PROMISE", "CONTINUATION"} /\ ~Has(f, "END_HEADERS")

Malformed(i) ==
  LET f == wire[i]
  IN  \/ f.verdict = "error"
      \/ Continues(i) # (f.t = "CONTINUATION")
      \/ i = 1 /\ (f.t # "SETTINGS" \/ Has(f, "ACK"))
      \/ f.t # "CONTINUATION" /\ f.len > MAX_FRAME_SIZE
      \/ f.t \in {"HEADERS", "PUSH_PROMISE"} /\ Padding(f) + Fields(f) > f.len
      \/ f.t = "DATA" /\ f.verdict = "ok" /\ Padding(f) > f.len
      \/ f.t = "PRIORITY" /\ f.len # 5
      \/ f.t \in {"RST_STREAM", "WINDOW_UPDATE"} /\ f.len # 4
      \/ f.t = "PING" /\ f.len # 8
      \/ f.t = "GOAWAY" /\ f.len < 8
      \/ f.t = "SETTINGS" /\ (f.len % 6 # 0 \/ (Has(f, "ACK") /\ f.len # 0))
      \/ f.t = "ALTSVC" /\ f.len < 2 + f.pad

Done == IF log = <<>> THEN 0 ELSE Last(log).last

\* However the bytes are cut, a header is only ever read where a frame starts:
\* session_inbound_frame_reset happens exactly at the end of a frame.
FramingInStep ==
  /\ ib.state # "LOST"
  /\ ib.state \in {"READ_HEAD", "READ_FIRST_SETTINGS"} =>
       pos = Starts(wire)[Done + 1] + (HDLEN - ib.need)

\* A connection is given up for a malformed frame, and for nothing else.
OnlyMalformedRefused ==
  /\ \A j \in 1..Len(log) : \A i \in log[j].first..log[j].last : ~Malformed(i)
  /\ ib.state = "IGN_ALL" =>
       \E i \in (Done + 1)..(IF ib.last > Done THEN ib.last + 1 ELSE Done + 1) : Malformed(i)

\* What a finished frame left with the application, the inflater and the windows
\* is what the frame holds: no byte twice, none missing, no padding.
Exact(g) ==
  LET f == wire[g.first]
      more == FoldLeft(LAMBDA n, c : n + c.len, 0, SubSeq(wire, g.first + 1, g.last))
  IN  CASE f.t = "DATA" ->
             /\ g.fc = f.len
             /\ g.recv = (f.verdict = "ok" /\ ~g.spoilt)
             /\ g.recv => g.data = f.len - Padding(f)
        [] f.t \in {"HEADERS", "PUSH_PROMISE"} ->
             /\ g.hdr = f.len - Padding(f) - Fields(f) + more
             /\ g.final > 0
             /\ g.recv = (f.verdict = "ok" /\ ~g.spoilt)
        [] f.t = "GOAWAY" -> g.debug = f.len - 8
        [] f.t = "ALTSVC" -> g.debug = f.len - 2
        [] f.t \in {"ORIGIN", "EXT"} -> g.recv => g.debug = f.len
        [] OTHER -> TRUE

\* The callbacks of mem_recv, the inflater and the windows get every byte of each
\* finished frame exactly once, in however many calls it arrived.
FramesDeliveredExactly == \A j \in 1..Len(log) : Exact(log[j])

\* SETTINGS: the last value of each known entry is the one in force, and of the
\* table sizes the smallest is seen first (an encoder must evict down to it).
SettingsFolded ==
  \A j \in 1..Len(log) :
    LET f == wire[log[j].first]
        iv == log[j].iv
        Values(s, key) == [i \in 1..Len(SelectSeq(s, LAMBDA e : e[1] = key)) |->
                             SelectSeq(s, LAMBDA e : e[1] = key)[i][2]]
    IN  f.t = "SETTINGS" =>
          \A key \in Known :
            LET all == Values(f.iv, key)
                now == Values(iv, key)
            IN  /\ all = <<>> <=> now = <<>>
                /\ all # <<>> => Last(now) = Last(all)
                /\ key # HTS /\ all # <<>> => Len(now) = 1
                /\ key = HTS /\ all # <<>> =>
                     Len(now) <= 2 /\ \A i \in 1..Len(all) : now[1] <= all[i]

\* A frame is finished by its last byte: no call is left waiting for a byte of
\* the next frame (the flag busy), unless a callback paused.
CompleteAtOnce ==
  ~go /\ pauses = MaxPauses /\ (\E i \in 1..Len(wire) : pos = Starts(wire)[i + 1]) =>
    \/ ib.state \in {"READ_HEAD", "EXPECT_CONTINUATION", "IGN_CONTINUATION"} /\ ib.need = HDLEN
    \/ ib.state = "IGN_ALL"

\* No write past the arrays allocated from the frame's length: the entries of
\* SETTINGS leave the last slot of iv free, and lbuf holds what is to come.
ArraysSuffice ==
  /\ \A j \in 1..Len(log) : log[j].spare > 0
  /\ ib.state \in {"READ_GOAWAY_DEBUG", "READ_ALTSVC_PAYLOAD", "READ_ORIGIN_PAYLOAD"} =>
       ib.payloadleft <= ib.lbuf
=============================================================================
