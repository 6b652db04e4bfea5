----------------------------- MODULE StreamHash -----------------------------
(* The hash function of nghttp2_map.c before it is cut to the table.       *)
EXTENDS Integers, Bitwise

mix(k) ==
    LET h == k ^^ (shiftR(k, 20) ^^ shiftR(k, 12))
    IN  h ^^ (shiftR(h, 7) ^^ shiftR(h, 4))
=============================================================================
