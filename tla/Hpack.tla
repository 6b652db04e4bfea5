-------------------------------- MODULE Hpack --------------------------------
(***************************************************************************)
(* Header compression: the deflater of one end, the inflater of the other  *)
(* and the frames between them.  Both ends keep a dynamic table that the   *)
(* code of the blocks refers to, so every block, every eviction and every  *)
(* change of the table size must happen to both tables alike, although the *)
(* inflater gets its bytes in pieces and SETTINGS cross with blocks.  One  *)
(* step of the inflater is one turn of the loop of nghttp2_hd_inflate_hd_nv*)
(***************************************************************************)
EXTENDS Huffman, FiniteSets, FiniteSetsExt, Functions

CONSTANTS static_table,      \* sequence of [name, value, token]; entry i is static_table[i + 1]
          OtherTokens,       \* names with a token and no static entry -> that token
          Hash,              \* name -> name_hash
          AUTHORIZATION, COOKIE, Unindexed,   \* tokens the encoder treats specially
          DEFAULT_MAX_BUFFER_SIZE, ENTRY_OVERHEAD, HD_MAX_NV, HD_MAP_SIZE,
          UINT_BITS,         \* width of uint32_t, scaled down
          Deflaters,         \* encoders: the application's limit and the sequence number
          HeaderLists,       \* header lists that may be sent
          TableSizes,        \* sequences of HEADER_TABLE_SIZE values of one SETTINGS
          MaxBlocks, MaxSettings

VARIABLES enc,     \* nghttp2_hd_deflater
          dec,     \* nghttp2_hd_inflater
          chan,    \* frames to the inflater's end: header blocks and SETTINGS ACKs
          back,    \* SETTINGS to the deflater's end
          unacked, \* the inflater's end: SETTINGS it sent and not yet applied
          pos,     \* bytes of the first block that the inflater has consumed
          call,    \* a piece is being inflated
          avail,   \* bytes of the piece that it has not consumed
          busy,    \* the loop goes on even without input
          out,     \* header fields emitted of the first block
          blocks, settings   \* how many may still be sent

vars == <<enc, dec, chan, back, unacked, pos, call, avail, busy, out, blocks, settings>>

UINT32_MAX == 2^UINT_BITS - 1
STATIC_TABLE_LENGTH == Len(static_table)
WWW_AUTHENTICATE == STATIC_TABLE_LENGTH - 1
None == [name |-> <<>>, value |-> <<>>, token |-> -2, seq |-> 0, hash |-> 0]

Lesser(a, b) == IF a < b THEN a ELSE b

\* Integers (RFC 7541 5.1) ----------------------------------------------------

\* encode_length, the octets after the prefix
Varint[n \in Nat] == IF n < 128 THEN <<n>> ELSE <<128 + (n % 128)>> \o Varint[n \div 128]

\* encode_length: n after the bits of first, in a prefix of that many bits
encode_length(first, n, prefix) ==
  LET k == 2^prefix - 1
  IN IF n < k THEN <<first + n>> ELSE <<first + k>> \o Varint[n - k]

\* decode_length, one octet after the prefix
decode_octet(a, b) ==
  LET add == b % 128
  IN IF a.fin \/ a.bad THEN a
     ELSE IF a.shift >= UINT_BITS THEN [a EXCEPT !.bad = TRUE]
     ELSE IF UINT32_MAX \div 2^a.shift < add THEN [a EXCEPT !.bad = TRUE]
     ELSE IF UINT32_MAX - add * 2^a.shift < a.n THEN [a EXCEPT !.bad = TRUE]
     ELSE [a EXCEPT !.n = @ + add * 2^a.shift, !.used = @ + 1, !.fin = b < 128,
                    !.shift = IF b < 128 THEN @ ELSE @ + 7]

\* decode_length: initial is the value so far, 0 when the prefix comes first
decode_length(initial, shift, in, prefix) ==
  LET k == 2^prefix - 1
      none == [n |-> initial, shift |-> shift, used |-> 0, fin |-> FALSE, bad |-> FALSE]
  IN IF initial # 0 THEN FoldLeft(decode_octet, none, in)
     ELSE IF in[1] % 2^prefix # k
     THEN [none EXCEPT !.n = in[1] % 2^prefix, !.shift = 0, !.used = 1, !.fin = TRUE]
     ELSE FoldLeft(decode_octet, [none EXCEPT !.n = k, !.used = 1], Tail(in))

\* Tables ---------------------------------------------------------------------

\* lookup_token: static entries of one name share the token of the first.
lookup_token(name) ==
  LET at == {i \in 1..STATIC_TABLE_LENGTH : static_table[i].name = name}
  IN IF at # {} THEN Min(at) - 1
     ELSE IF name \in DOMAIN OtherTokens THEN OtherTokens[name] ELSE -1

entry_room(nv) == ENTRY_OVERHEAD + Len(nv.name) + Len(nv.value)

\* The size of the array for bufsize entries.
RingSize(bufsize) == Min({2^i : i \in {j \in 0..16 : 2^j >= bufsize}})

\* hd_ringbuf_init
hd_ringbuf_init(bufsize) ==
  [buffer |-> [i \in 0..(RingSize(bufsize) - 1) |-> None], first |-> 0, len |-> 0]

RingMask(r) == Cardinality(DOMAIN r.buffer)

\* hd_ringbuf_get
hd_ringbuf_get(r, idx) == r.buffer[(r.first + idx) % RingMask(r)]

\* hd_ringbuf_reserve
hd_ringbuf_reserve(r, bufsize) ==
  IF RingMask(r) >= bufsize THEN r
  ELSE [buffer |-> [i \in 0..(RingSize(bufsize) - 1) |->
                      IF i < r.len THEN hd_ringbuf_get(r, i) ELSE None],
        first |-> 0, len |-> r.len]

\* hd_ringbuf_push_front
hd_ringbuf_push_front(r, ent) ==
  LET s == hd_ringbuf_reserve(r, r.len + 1)
      f == (s.first - 1) % RingMask(s)
  IN [s EXCEPT !.buffer[f] = ent, !.first = f, !.len = @ + 1]

\* hd_ringbuf_pop_back
hd_ringbuf_pop_back(r) == [r EXCEPT !.len = @ - 1]

\* hd_context_init; the sequence number is that of an encoder whose earlier
\* entries, if any, are all evicted.
hd_context_init(seq) ==
  [tab |-> hd_ringbuf_init(DEFAULT_MAX_BUFFER_SIZE \div ENTRY_OVERHEAD),
   bufsize |-> 0, max |-> DEFAULT_MAX_BUFFER_SIZE, next_seq |-> seq,
   map |-> [b \in 0..(HD_MAP_SIZE - 1) |-> <<>>], bad |-> FALSE]

\* hd_map_insert and hd_map_remove: chains of entries, the newest first.  The
\* inflater has no map; its chains are not looked at.
hd_map_insert(map, ent) == [map EXCEPT ![ent.hash % HD_MAP_SIZE] = <<ent>> \o @]
mutant_hd_map_remove(map, ent) == map
hd_map_remove(map, ent) == [map EXCEPT ![ent.hash % HD_MAP_SIZE] = SelectSeq(@, LAMBDA e : e # ent)]

\* hd_map_find: the newest entry of the name, or the newest that has the value too
hd_map_find(map, nv, token, hash, name_only) ==
  LET named == SelectSeq(map[hash % HD_MAP_SIZE],
                         LAMBDA p : /\ p.token = token
                                    /\ token = -1 => p.hash = hash /\ p.name = nv.name)
      exact == SelectSeq(named, LAMBDA p : p.value = nv.value)
  IN IF named = <<>> THEN [ent |-> None, exact |-> FALSE]
     ELSE IF exact # <<>> /\ ~name_only THEN [ent |-> exact[1], exact |-> TRUE]
     ELSE [ent |-> named[1], exact |-> FALSE]

\* The oldest entry leaves the table and the map.
Evict(c) ==
  LET ent == hd_ringbuf_get(c.tab, c.tab.len - 1)
  IN [c EXCEPT !.bufsize = @ - entry_room(ent), !.tab = hd_ringbuf_pop_back(@),
               !.map = hd_map_remove(@, ent)]

\* The loop of both: entries leave until at most limit is used.
EvictTo(c, limit) ==
  FoldLeft(LAMBDA x, i : IF x.bufsize > limit /\ x.tab.len > 0 THEN Evict(x) ELSE x,
           c, [i \in 1..c.tab.len |-> i])

\* hd_context_shrink_table_size
hd_context_shrink_table_size(c) == EvictTo(c, c.max)

\* add_hd_table_incremental: an entry larger than the table empties it.
add_hd_table_incremental(ctx, nv, hash) ==
  LET room == entry_room(nv)
      Ent(c) == [name |-> nv.name, value |-> nv.value, token |-> nv.token,
                 seq |-> c.next_seq, hash |-> hash]
      Added(c) == [c EXCEPT !.tab = hd_ringbuf_push_front(@, Ent(c)), !.map = hd_map_insert(@, Ent(c)),
                            !.bufsize = @ + room, !.next_seq = (@ + 1) % (UINT32_MAX + 1)]
  IN IF room > ctx.max THEN EvictTo(ctx, ctx.max - room) ELSE Added(EvictTo(ctx, ctx.max - room))

get_max_index(c) == c.tab.len + STATIC_TABLE_LENGTH

\* nghttp2_hd_table_get, with the range its assertion states
hd_table_get(c, idx) ==
  IF idx >= STATIC_TABLE_LENGTH THEN hd_ringbuf_get(c.tab, idx - STATIC_TABLE_LENGTH)
  ELSE static_table[idx + 1]

\* Deflater -------------------------------------------------------------------

\* nghttp2_hd_deflate_init2
hd_deflate_init2(max, seq) ==
  LET small == max < DEFAULT_MAX_BUFFER_SIZE
      ctx == hd_context_init(seq)
  IN [ctx |-> IF small THEN [ctx EXCEPT !.max = max] ELSE ctx, notify |-> small,
      limit |-> max, min |-> UINT32_MAX]

mutant_hd_deflate_change_table_size(d, size) ==
  LET next == Lesser(size, d.limit)
  IN [d EXCEPT !.ctx = hd_context_shrink_table_size([@ EXCEPT !.max = next]),
               !.min = next, !.notify = TRUE]

\* nghttp2_hd_deflate_change_table_size
hd_deflate_change_table_size(d, size) ==
  LET next == Lesser(size, d.limit)
  IN [d EXCEPT !.ctx = hd_context_shrink_table_size([@ EXCEPT !.max = next]),
               !.min = Lesser(@, next), !.notify = TRUE]

\* emit_table_size, emit_indexed_block
emit_table_size(size) == encode_length(32, size, 5)
emit_indexed_block(idx) == encode_length(128, idx + 1, 7)

\* emit_string: Huffman code where it is shorter
emit_string(str) ==
  LET enclen == huff_encode_count(str)
  IN IF enclen < Len(str) THEN encode_length(128, enclen, 7) \o huff_encode(str)
     ELSE encode_length(0, Len(str), 7) \o str

\* pack_first_byte
pack_first_byte(mode) == CASE mode = "WITH" -> 64 [] mode = "WITHOUT" -> 0 [] mode = "NEVER" -> 16

\* emit_indname_block, emit_newname_block
emit_indname_block(idx, nv, mode) ==
  encode_length(pack_first_byte(mode), idx + 1, IF mode = "WITH" THEN 6 ELSE 4)
    \o emit_string(nv.value)
emit_newname_block(nv, mode) ==
  <<pack_first_byte(mode)>> \o emit_string(nv.name) \o emit_string(nv.value)

\* search_static_table: the entry of the name, or the one with the value too
search_static_table(nv, token, name_only) ==
  LET at == {i \in token..WWW_AUTHENTICATE : /\ static_table[i + 1].token = token
                                             /\ static_table[i + 1].value = nv.value}
  IN IF name_only \/ at = {} THEN [index |-> token, exact |-> FALSE]
     ELSE [index |-> Min(at), exact |-> TRUE]

\* search_hd_table: the index of an entry is its age, in uint32_t
search_hd_table(c, nv, token, hash, name_only) ==
  LET found == hd_map_find(c.map, nv, token, hash, name_only)
  IN IF ~found.exact /\ token \in 0..WWW_AUTHENTICATE
     THEN search_static_table(nv, token, name_only)
     ELSE IF found.ent = None THEN [index |-> -1, exact |-> FALSE]
     ELSE [index |-> (c.next_seq - 1 - found.ent.seq + STATIC_TABLE_LENGTH) % (UINT32_MAX + 1),
           exact |-> found.exact]

\* hd_deflate_decide_indexing, with the fields deflate_nv never indexes
indexing_mode(d, nv, token) ==
  IF token = AUTHORIZATION \/ (token = COOKIE /\ Len(nv.value) < 20) \/ nv.no_index THEN "NEVER"
  ELSE IF token \in Unindexed \/ entry_room(nv) > (d.ctx.max * 3) \div 4 THEN "WITHOUT"
  ELSE "WITH"

\* deflate_nv: the octets are appended to what the block has already
deflate_nv(b, nv) ==
  LET d == b.d
      token == lookup_token(nv.name)
      hash == IF token = -1 THEN Hash[nv.name]
              ELSE IF token <= WWW_AUTHENTICATE THEN Hash[static_table[token + 1].name] ELSE 0
      mode == indexing_mode(d, nv, token)
      Name(res) == IF res.index # -1 THEN hd_table_get(d.ctx, res.index).name ELSE nv.name
      Emitted(res) ==
        IF res.exact THEN [b EXCEPT !.bytes = @ \o emit_indexed_block(res.index)]
        ELSE [d |-> IF mode # "WITH" THEN d
                    ELSE [d EXCEPT !.ctx = add_hd_table_incremental(
                            @, [name |-> Name(res), value |-> nv.value, token |-> token], hash)],
              bytes |-> b.bytes \o IF res.index = -1 THEN emit_newname_block(nv, mode)
                                   ELSE emit_indname_block(res.index, nv, mode)]
  IN Emitted(search_hd_table(d.ctx, nv, token, hash, mode = "NEVER"))

\* nghttp2_hd_deflate_hd_bufs: changes of the table size come first, the
\* smallest since the last block before the present one.
hd_deflate_hd_bufs(d, nva) ==
  LET sizes == IF ~d.notify THEN <<>>
               ELSE (IF d.ctx.max > d.min THEN emit_table_size(d.min) ELSE <<>>)
                      \o emit_table_size(d.ctx.max)
  IN FoldLeft(deflate_nv,
              [d |-> IF d.notify THEN [d EXCEPT !.notify = FALSE, !.min = UINT32_MAX] ELSE d,
               bytes |-> sizes], nva)

\* nghttp2_hd_deflate_bound
hd_deflate_bound(nva) ==
  12 + 12 * Len(nva) + FoldLeft(LAMBDA n, nv : n + Len(nv.name) + Len(nv.value), 0, nva)

\* Inflater -------------------------------------------------------------------

\* nghttp2_hd_inflate_init
hd_inflate_init ==
  [ctx |-> hd_context_init(0), settings_max |-> DEFAULT_MAX_BUFFER_SIZE, min |-> UINT32_MAX,
   opcode |-> "NONE", state |-> "INFLATE_START", huffman |-> FALSE, left |-> 0, shift |-> 0,
   index |-> 0, index_required |-> FALSE, no_index |-> FALSE, name |-> <<>>, value |-> <<>>,
   hctx |-> huff_decode_context]

\* nghttp2_hd_inflate_change_table_size, between header blocks
hd_inflate_change_table_size(f, size) ==
  LET g == IF f.ctx.max > size THEN [f EXCEPT !.state = "EXPECT_TABLE_SIZE", !.min = size] ELSE f
  IN [g EXCEPT !.settings_max = size, !.ctx = hd_context_shrink_table_size([@ EXCEPT !.max = size])]

\* nghttp2_hd_inflate_end_headers
hd_inflate_end_headers(f) == [f EXCEPT !.state = "INFLATE_START"]

Init ==
  /\ enc \in {hd_deflate_init2(d[1], d[2]) : d \in Deflaters}
  /\ dec = hd_inflate_init
  /\ chan = <<>> /\ back = <<>> /\ unacked = <<>>
  /\ pos = 0 /\ call = FALSE /\ avail = 0 /\ busy = FALSE /\ out = <<>>
  /\ blocks = MaxBlocks /\ settings = MaxSettings

Inflating == <<pos, call, avail, busy, out>>

\* A HEADERS frame is packed, and sent in the order in which it is packed.
Encode(nva) ==
  /\ blocks > 0
  /\ \E b \in {hd_deflate_hd_bufs(enc, nva)} :
       /\ enc' = b.d
       /\ chan' = Append(chan, [t |-> "block", bytes |-> b.bytes, nva |-> nva])
  /\ blocks' = blocks - 1
  /\ UNCHANGED <<dec, back, unacked, settings>> /\ UNCHANGED Inflating

\* The inflater's end announces table sizes; they apply to it when they are
\* acknowledged.
SendSettings(sizes) ==
  /\ settings > 0
  /\ settings' = settings - 1
  /\ back' = Append(back, sizes) /\ unacked' = Append(unacked, sizes)
  /\ UNCHANGED <<enc, dec, chan, blocks>> /\ UNCHANGED Inflating

\* nghttp2_session_on_settings_received: each entry in turn; the ACK precedes
\* every block packed afterwards.
RecvSettings ==
  /\ back # <<>>
  /\ enc' = FoldLeft(hd_deflate_change_table_size, enc, Head(back))
  /\ chan' = Append(chan, [t |-> "ack"]) /\ back' = Tail(back)
  /\ UNCHANGED <<dec, unacked, blocks, settings>> /\ UNCHANGED Inflating

\* nghttp2_session_update_local_settings: the least size, then the last
RecvAck ==
  /\ chan # <<>> /\ Head(chan).t = "ack"
  /\ LET sizes == Head(unacked)
         least == Min(Range(sizes))
         f == IF least < Last(sizes) THEN hd_inflate_change_table_size(dec, least) ELSE dec
     IN dec' = hd_inflate_change_table_size(f, Last(sizes))
  /\ unacked' = Tail(unacked) /\ chan' = Tail(chan)
  /\ UNCHANGED <<enc, back, blocks, settings>> /\ UNCHANGED Inflating

Unread == IF chan # <<>> /\ Head(chan).t = "block" THEN Len(Head(chan).bytes) - pos ELSE 0

\* inflate_header_block is called with the next n bytes of a block.  Single
\* bytes followed by the rest cut a block at every place.
Feed(n) ==
  /\ n \in 1..Unread /\ ~call /\ ~dec.ctx.bad
  /\ call' = TRUE /\ avail' = n
  /\ UNCHANGED <<enc, dec, chan, back, unacked, pos, busy, out, blocks, settings>>

In == SubSeq(Head(chan).bytes, pos + 1, pos + avail)
Final == pos + avail = Len(Head(chan).bytes)
Running(states) == call /\ (avail > 0 \/ busy) /\ dec.state \in states
Outside == <<enc, chan, back, unacked, blocks, settings>>

\* The ends of a turn: it has consumed n bytes, emitted a field, or failed.
Turn(f, n, b) ==
  /\ dec' = f /\ pos' = pos + n /\ avail' = avail - n /\ busy' = b
  /\ UNCHANGED <<call, out>> /\ UNCHANGED Outside
Emit(f, n, nv) ==
  /\ dec' = [f EXCEPT !.state = "OPCODE"] /\ pos' = pos + n /\ avail' = avail - n /\ busy' = FALSE
  /\ out' = Append(out, [name |-> nv.name, value |-> nv.value, no_index |-> nv.no_index])
  /\ UNCHANGED call /\ UNCHANGED Outside
Fail ==
  /\ dec' = [dec EXCEPT !.ctx.bad = TRUE] /\ call' = FALSE /\ avail' = 0 /\ busy' = FALSE
  /\ UNCHANGED <<pos, out>> /\ UNCHANGED Outside

\* The first octet of a field or of a change of the table size
Opcode ==
  /\ Running({"EXPECT_TABLE_SIZE", "INFLATE_START", "OPCODE"})
  /\ LET b == In[1]
         f == [dec EXCEPT !.left = 0, !.shift = 0]
         g == [f EXCEPT !.index_required = (b \div 64) % 2 = 1, !.no_index = b \div 16 = 1]
     IN CASE b \div 32 = 1 /\ dec.state # "OPCODE" ->
               Turn([f EXCEPT !.opcode = "INDEXED", !.state = "READ_TABLE_SIZE"], 0, FALSE)
          [] b \div 32 = 1 /\ dec.state = "OPCODE" -> Fail
          [] b \div 32 # 1 /\ dec.state = "EXPECT_TABLE_SIZE" -> Fail
          [] b >= 128 /\ dec.state # "EXPECT_TABLE_SIZE" ->
               Turn([f EXCEPT !.opcode = "INDEXED", !.state = "READ_INDEX"], 0, FALSE)
          [] b \in {0, 16, 64} /\ dec.state # "EXPECT_TABLE_SIZE" ->
               Turn([g EXCEPT !.opcode = "NEWNAME", !.state = "CHECK_NAMELEN"], 1, FALSE)
          [] OTHER -> Turn([g EXCEPT !.opcode = "INDNAME", !.state = "READ_INDEX"], 0, FALSE)

\* hd_inflate_read_len
Length(f, prefix) == decode_length(f.left, f.shift, In, prefix)
LengthBad(r, maxlen) == r.bad \/ r.n > maxlen
Longer(f, r) == [f EXCEPT !.left = r.n, !.shift = r.shift]

ReadTableSize ==
  /\ Running({"READ_TABLE_SIZE"})
  /\ LET r == Length(dec, 5)
         f == Longer(dec, r)
     IN IF LengthBad(r, Lesser(dec.min, dec.settings_max)) THEN Fail
        ELSE IF ~r.fin THEN Turn(f, r.used, FALSE)
        ELSE Turn([f EXCEPT !.min = UINT32_MAX, !.state = "INFLATE_START",
                            !.ctx = hd_context_shrink_table_size([@ EXCEPT !.max = r.n])],
                  r.used, FALSE)

\* hd_inflate_commit_indexed for a whole field, or the index of its name
ReadIndex ==
  /\ Running({"READ_INDEX"})
  /\ LET whole == dec.opcode = "INDEXED"
         r == Length(dec, IF whole THEN 7 ELSE IF dec.index_required THEN 6 ELSE 4)
         f == Longer(dec, r)
     IN IF LengthBad(r, get_max_index(dec.ctx)) THEN Fail
        ELSE IF ~r.fin THEN Turn(f, r.used, FALSE)
        ELSE IF r.n = 0 THEN Fail
        ELSE IF whole
        THEN LET nv == hd_table_get(dec.ctx, r.n - 1)
             IN Emit([f EXCEPT !.index = r.n - 1], r.used,
                     [name |-> nv.name, value |-> nv.value, no_index |-> FALSE])
        ELSE Turn([f EXCEPT !.index = r.n - 1, !.state = "CHECK_VALUELEN"], r.used, FALSE)

\* The length of the name, with the bit that tells whether it is Huffman coded
ReadNameLen ==
  /\ Running({"CHECK_NAMELEN", "READ_NAMELEN"})
  /\ LET e == IF dec.state = "READ_NAMELEN" THEN dec
              ELSE [dec EXCEPT !.huffman = In[1] >= 128, !.left = 0, !.shift = 0]
         r == Length(e, 7)
         f == Longer(e, r)
     IN IF LengthBad(r, HD_MAX_NV) THEN Fail
        ELSE IF ~r.fin THEN Turn([f EXCEPT !.state = "READ_NAMELEN"], r.used, FALSE)
        ELSE Turn([f EXCEPT !.name = <<>>, !.hctx = huff_decode_context, !.state = "READ_NAME"],
                  r.used, FALSE)

\* The same for the value, whose turn follows even without input
ReadValueLen ==
  /\ Running({"CHECK_VALUELEN", "READ_VALUELEN"})
  /\ LET e == IF dec.state = "READ_VALUELEN" THEN dec
              ELSE [dec EXCEPT !.huffman = In[1] >= 128, !.left = 0, !.shift = 0]
         r == Length(e, 7)
         f == Longer(e, r)
     IN IF LengthBad(r, HD_MAX_NV) THEN Fail
        ELSE IF ~r.fin THEN Turn([f EXCEPT !.state = "READ_VALUELEN"], r.used, FALSE)
        ELSE Turn([f EXCEPT !.value = <<>>, !.hctx = huff_decode_context, !.state = "READ_VALUE"],
                  r.used, TRUE)

\* hd_inflate_read and hd_inflate_read_huff: the next bytes of a string
Octets ==
  LET n == Lesser(avail, dec.left)
      piece == SubSeq(In, 1, n)
      Taken(h) == [n |-> n, out |-> h.out, fail |-> h.fail,
                   f |-> [dec EXCEPT !.left = @ - n, !.hctx = h.ctx]]
  IN Taken(IF dec.huffman THEN huff_decode(dec.hctx, piece, avail >= dec.left)
           ELSE [out |-> piece, fail |-> FALSE, ctx |-> dec.hctx])

ReadName ==
  /\ Running({"READ_NAME"})
  /\ \E o \in {Octets} :
       LET f == [o.f EXCEPT !.name = @ \o o.out]
       IN IF o.fail THEN Fail
          ELSE Turn(IF f.left > 0 THEN f ELSE [f EXCEPT !.state = "CHECK_VALUELEN"], o.n, FALSE)

\* hd_inflate_commit_newname, hd_inflate_commit_indname
hd_inflate_commit(f) ==
  LET name == IF f.opcode = "NEWNAME" THEN f.name ELSE hd_table_get(f.ctx, f.index).name
      token == IF f.opcode = "NEWNAME" THEN lookup_token(name) ELSE hd_table_get(f.ctx, f.index).token
      nv == [name |-> name, value |-> f.value, token |-> token, no_index |-> f.no_index]
  IN [nv |-> nv,
      f |-> IF f.index_required THEN [f EXCEPT !.ctx = add_hd_table_incremental(@, nv, 0)] ELSE f]

ReadValue ==
  /\ Running({"READ_VALUE"})
  /\ \E o \in {Octets} :
       LET f == [o.f EXCEPT !.value = @ \o o.out]
       IN IF o.fail THEN Fail
          ELSE IF f.left > 0 THEN Turn(f, o.n, FALSE)
          ELSE \E c \in {hd_inflate_commit(f)} :
                 Emit([c.f EXCEPT !.name = <<>>, !.value = <<>>], o.n, c.nv)

\* The piece is used up: a block may end only between two fields.
EndPiece ==
  /\ call /\ avail = 0 /\ ~busy
  /\ IF ~Final THEN call' = FALSE /\ UNCHANGED <<dec, pos, avail, busy, out, chan>>
     ELSE IF dec.state \notin {"OPCODE", "INFLATE_START"}
     THEN /\ dec' = [dec EXCEPT !.ctx.bad = TRUE] /\ call' = FALSE
          /\ UNCHANGED <<pos, avail, busy, out, chan>>
     ELSE /\ dec' = hd_inflate_end_headers(dec) /\ call' = FALSE /\ chan' = Tail(chan)
          /\ pos' = 0 /\ out' = <<>> /\ UNCHANGED <<avail, busy>>
  /\ UNCHANGED <<enc, back, unacked, blocks, settings>>

\* A piece is inflated in one call; the other end's steps meanwhile commute
\* with its turns.
Next ==
  \/ \E nva \in HeaderLists : ~call /\ Encode(nva)
  \/ \E sizes \in TableSizes : ~call /\ SendSettings(sizes)
  \/ ~call /\ RecvSettings
  \/ RecvAck
  \/ Feed(1) \/ Feed(Unread)
  \/ Opcode \/ ReadTableSize \/ ReadIndex \/ ReadNameLen \/ ReadValueLen
  \/ ReadName \/ ReadValue \/ EndPiece

Spec == Init /\ [][Next]_vars

\* Properties -----------------------------------------------------------------

Entries(c) == [i \in 1..c.tab.len |-> hd_ringbuf_get(c.tab, i - 1)]
Fields(c) == [i \in 1..c.tab.len |-> <<Entries(c)[i].name, Entries(c)[i].value>>]

\* Once the inflater has consumed every frame and no change of the size is
\* pending, both dynamic tables (add_hd_table_incremental on both sides,
\* hd_context_shrink_table_size on both) hold the same fields in the same
\* order and count the same size.
TablesInStep ==
  chan = <<>> /\ back = <<>> /\ ~enc.notify =>
    Fields(dec.ctx) = Fields(enc.ctx) /\ dec.ctx.bufsize = enc.ctx.bufsize
      /\ dec.ctx.max = enc.ctx.max

\* Whatever the pieces, the fields nghttp2_hd_inflate_hd_nv emits are those
\* nghttp2_hd_deflate_hd_bufs was given, in order and none missing at the end
\* of the block, and a field that must never be indexed says so again.
HeadersSurvive ==
  (chan # <<>> /\ Head(chan).t = "block") =>
    LET nva == Head(chan).nva
        same(i) == /\ out[i].name = nva[i].name /\ out[i].value = nva[i].value
                   /\ nva[i].no_index => out[i].no_index
    IN /\ Len(out) <= Len(nva) /\ \A i \in 1..Len(out) : same(i)
       /\ call /\ avail = 0 /\ ~busy /\ Final => Len(out) = Len(nva)

\* The inflater never refuses what the deflater of the other end made
\* (NGHTTP2_ERR_HEADER_COMP ends the connection), in whatever order changes
\* of the table size and blocks cross.
NoCompressionError == ~dec.ctx.bad

\* The index of a field is derived from its sequence number and its chain in
\* the map: the map holds exactly the entries of the ring buffer, and the age
\* search_hd_table computes is the entry's place in it.
MapMatchesTable ==
  LET c == enc.ctx
  IN /\ \A i \in 1..c.tab.len :
          LET e == Entries(c)[i]
          IN /\ \E j \in DOMAIN c.map[e.hash % HD_MAP_SIZE] : c.map[e.hash % HD_MAP_SIZE][j] = e
             /\ (c.next_seq - 1 - e.seq) % (UINT32_MAX + 1) = i - 1
     /\ FoldLeft(LAMBDA n, b : n + Len(c.map[b]), 0, [b \in 1..HD_MAP_SIZE |-> b - 1]) = c.tab.len

\* The memory a table takes: hd_table_bufsize is the room of its entries and
\* within its limit, the deflater's limit is the application's at most, and
\* the inflater's is what its own end last announced and had acknowledged.
SizesBounded ==
  /\ \A c \in {enc.ctx, dec.ctx} :
       /\ c.bufsize = FoldLeft(LAMBDA n, e : n + entry_room(e), 0, Entries(c))
       /\ c.bufsize <= c.max
  /\ enc.ctx.max <= enc.limit /\ dec.ctx.max <= dec.settings_max

\* Fields of NGHTTP2_HD_NEVER_INDEXING enter neither table.
SecretsNotKept ==
  \A nva \in HeaderLists : \A i \in DOMAIN nva : nva[i].no_index =>
    \A c \in {enc.ctx, dec.ctx} : \A j \in 1..c.tab.len : Fields(c)[j] # <<nva[i].name, nva[i].value>>

\* nghttp2_hd_deflate_bound is enough for every block with at most two
\* changes of the table size.
BoundSuffices ==
  \A i \in DOMAIN chan : chan[i].t = "block" => Len(chan[i].bytes) <= hd_deflate_bound(chan[i].nva)
\* Both dynamic tables are sound: equal once everything has arrived, indexed by
\* exactly their entries (hd_map_insert, hd_map_remove), within their sizes, and
\* free of fields that must never be indexed.
TablesSound == TablesInStep /\ MapMatchesTable /\ SizesBounded /\ SecretsNotKept

\* Every block gets through: it fits the space nghttp2_hd_deflate_bound asks for,
\* the inflater accepts it and emits the fields the deflater was given.
BlocksSurvive == BoundSuffices /\ NoCompressionError /\ HeadersSurvive
=============================================================================
