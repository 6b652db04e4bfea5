------------------------------- MODULE Huffman -------------------------------
(***************************************************************************)
(* The Huffman code of HPACK strings: nghttp2_hd_huff_encode packs the     *)
(* codes of the symbols into bytes from the high bit on and fills the last *)
(* byte with the start of EOS; nghttp2_hd_huff_decode walks the code tree  *)
(* four bits at a time and keeps its node between the pieces of a string.  *)
(***************************************************************************)
EXTENDS Integers, Sequences, SequencesExt

CONSTANT huff_sym_table   \* octet, or 256 for EOS -> [nbits, code]

\* The n low bits of a code, the highest first.
Bits(code, n) == [i \in 1..n |-> (code \div 2^(n - i)) % 2]
BitsValue(bits) == FoldLeft(LAMBDA v, b : 2 * v + b, 0, bits)

\* nghttp2_hd_huff_encode_count
huff_encode_count(src) ==
  (FoldLeft(LAMBDA n, c : n + huff_sym_table[c].nbits, 0, src) + 7) \div 8

\* nghttp2_bufs_fast_orb, _orb_hold: the bits go into the byte already added.
Orb(out, v) == [out EXCEPT ![Len(out)] = @ + v]

\* huff_encode_sym: the last byte has room for rembits bits; what does not
\* fit opens new bytes, the last of them possibly in part.
huff_encode_sym(e, sym) ==
  LET rest == sym.nbits - e.rembits
      tail == (rest + 7) \div 8
      low == Bits(sym.code, rest) \o [i \in 1..(8 * tail - rest) |-> 0]
  IN IF rest < 0
     THEN [out |-> Orb(e.out, sym.code * 2^(-rest)), rembits |-> -rest]
     ELSE [out |-> Orb(e.out, sym.code \div 2^rest)
                     \o [j \in 1..tail |-> BitsValue(SubSeq(low, 8 * j - 7, 8 * j))],
           rembits |-> IF rest % 8 = 0 THEN 8 ELSE 8 - (rest % 8)]

\* The last byte is filled with the first bits of EOS.
HuffFill(e) ==
  LET eos == huff_sym_table[256]
  IN IF e.rembits < 8 THEN Orb(e.out, eos.code \div 2^(eos.nbits - e.rembits)) ELSE e.out

\* nghttp2_hd_huff_encode
huff_encode(src) ==
  HuffFill(FoldLeft(LAMBDA e, c :
                      huff_encode_sym(IF e.rembits = 8 THEN [e EXCEPT !.out = Append(@, 0)] ELSE e,
                                      huff_sym_table[c]),
                    [out |-> <<>>, rembits |-> 8], src))

\* nghttp2_hd_huff_decode_context_init: a node of the code tree is the bits
\* that lead to it.
huff_decode_context == [node |-> <<>>, accept |-> TRUE]

Codes == {[c |-> c, bits |-> Bits(huff_sym_table[c].code, huff_sym_table[c].nbits)] :
            c \in DOMAIN huff_sym_table}
EOS == Bits(huff_sym_table[256].code, huff_sym_table[256].nbits)

\* huff_decode_table: the four bits of a nibble lead to another node, on the
\* way of which at most one symbol is complete.  A string may end at a node
\* less than a byte into EOS.
huff_decode_table(node, nibble) ==
  LET Walk(t, b) ==
        LET bits == Append(t.node, b)
            done == {c \in Codes : c.bits = bits}
        IN IF t.fail THEN t
           ELSE IF done # {}
           THEN LET c == (CHOOSE c \in done : TRUE).c
                IN [t EXCEPT !.node = <<>>, !.out = Append(@, c), !.fail = c = 256]
           ELSE [t EXCEPT !.node = bits,
                          !.fail = ~(\E c \in Codes : IsPrefix(bits, c.bits))]
  IN FoldLeft(Walk, [node |-> node, out |-> <<>>, fail |-> FALSE], Bits(nibble, 4))

Accepting(node) == Len(node) < 8 /\ IsPrefix(node, EOS)

\* nghttp2_hd_huff_decode, without the final check: one byte of a piece.
huff_decode_byte(h, b) ==
  LET Reached(g, t) == [node |-> t.node, accept |-> Accepting(t.node), out |-> g.out \o t.out,
                        fail |-> g.fail \/ t.fail]
      Nibble(g, n) == Reached(g, huff_decode_table(g.node, n))
  IN Nibble(Nibble(h, b \div 16), b % 16)

\* nghttp2_hd_huff_decode
huff_decode(ctx, src, final) ==
  LET Result(h) == [ctx |-> [node |-> h.node, accept |-> h.accept], out |-> h.out,
                    fail |-> h.fail \/ (final /\ ~h.accept)]
  IN Result(FoldLeft(huff_decode_byte,
                     [node |-> ctx.node, accept |-> ctx.accept, out |-> <<>>, fail |-> FALSE], src))
=============================================================================
