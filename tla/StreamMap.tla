----------------------------- MODULE StreamMap ------------------------------
(***************************************************************************)
(* nghttp2_map.c, the hash table in which a session keeps its streams: a   *)
(* bucket is a list linked through the entries themselves, which lie in    *)
(* the streams, and the table doubles when it is three quarters full.      *)
(* An entry is initialised when its stream is, then inserted; a stream     *)
(* that is destroyed is removed, and its memory may serve a later stream.  *)
(***************************************************************************)
EXTENDS Integers, Sequences, SequencesExt, FiniteSets

CONSTANTS
    Entries,               \* memory for entries
    Keys,                  \* stream identifiers
    Mixed,                 \* what StreamHash makes of each key
    INITIAL_TABLE_LENGTH,  \* 256 in the code
    MaxTableLength,        \* bound on the length of the table
    Nil

VARIABLES
    table,      \* the buckets: an entry or Nil, from 0
    key, next,  \* the fields of each entry, as they were last written
    size,
    held        \* which key each entry was inserted for, Nil if none

vars == <<table, key, next, size, held>>

tablelen == Cardinality(DOMAIN table)

Init == /\ table = [h \in 0..INITIAL_TABLE_LENGTH - 1 |-> Nil]
        /\ key = [e \in Entries |-> 0] /\ next = [e \in Entries |-> Nil]
        /\ size = 0 /\ held = [e \in Entries |-> Nil]

\* The mixed key is cut to the length of the table, a power of two.
hash(k, mod) == Mixed[k] % mod

\* The list that starts at entry p.
RECURSIVE chain(_, _)
chain(p, nxt) == IF p = Nil THEN <<>> ELSE <<p>> \o chain(nxt[p], nxt)

\* The static insert, on [t, n, key]: a table and the fields of the entries.
insert(s, e) ==
    LET h == hash(s.key[e], Cardinality(DOMAIN s.t))
        p == s.t[h]
    IN CASE p = Nil -> [s EXCEPT !.t[h] = e]
         [] \E q \in ToSet(chain(p, s.n)) : s.key[q] = s.key[e] -> s
         [] OTHER -> [s EXCEPT !.n[e] = p, !.t[h] = e]

mutant_resize(s, len) ==
    FoldLeft(LAMBDA u, h : IF s.t[h] = Nil THEN u
                           ELSE insert([u EXCEPT !.n[s.t[h]] = Nil], s.t[h]),
             [s EXCEPT !.t = [h \in 0..len - 1 |-> Nil]],
             [h \in 1..Cardinality(DOMAIN s.t) |-> h - 1])

\* The new table takes over the entries bucket by bucket, each unlinked first.
resize(s, len) ==
    FoldLeft(LAMBDA u, h : FoldLeft(LAMBDA v, e : insert([v EXCEPT !.n[e] = Nil], e),
                                    u, chain(s.t[h], s.n)),
             [s EXCEPT !.t = [h \in 0..len - 1 |-> Nil]],
             [h \in 1..Cardinality(DOMAIN s.t) |-> h - 1])

\* nghttp2_map_entry_init
entry_init(s, e, k) == [s EXCEPT !.key[e] = k, !.n[e] = Nil]

\* A stream is initialised in free memory and inserted: nghttp2_map_insert grows
\* the table first, also when the key turns out to be there, which is an error.
map_insert(e, k) ==
    LET s == entry_init([t |-> table, n |-> next, key |-> key], e, k)
        full == (size + 1) * 4 > tablelen * 3
        u == IF full THEN resize(s, tablelen * 2) ELSE s
        v == insert(u, e)
    IN /\ held[e] = Nil
       /\ full => tablelen * 2 <= MaxTableLength
       /\ table' = v.t /\ next' = v.n /\ key' = v.key
       /\ IF v = u
          THEN UNCHANGED <<size, held>>
          ELSE size' = size + 1 /\ held' = [held EXCEPT ![e] = k]

map_find(k) ==
    LET c == SelectSeq(chain(table[hash(k, tablelen)], next), LAMBDA e : key[e] = k)
    IN IF c = <<>> THEN Nil ELSE c[1]

\* nghttp2_map_remove: the link that leads to the entry skips it; the entry
\* keeps its own.  A key that is not there is an error and changes nothing.
map_remove(k) ==
    LET h == hash(k, tablelen)
        c == chain(table[h], next)
        i == CHOOSE i \in DOMAIN c : key[c[i]] = k
    IN /\ \E j \in DOMAIN c : key[c[j]] = k
       /\ IF i = 1
          THEN table' = [table EXCEPT ![h] = next[c[i]]] /\ UNCHANGED next
          ELSE next' = [next EXCEPT ![c[i - 1]] = next[c[i]]] /\ UNCHANGED table
       /\ size' = size - 1
       /\ held' = [held EXCEPT ![c[i]] = Nil]
       /\ UNCHANGED key

Next == \E k \in Keys : map_remove(k) \/ \E e \in Entries : map_insert(e, k)

Spec == Init /\ [][Next]_vars

-----------------------------------------------------------------------------

\* nghttp2_map_each: the entries in the order of the buckets.
map_each == FoldLeft(LAMBDA s, h : s \o chain(table[h], next), <<>>,
                     [h \in 1..tablelen |-> h - 1])

\* The table holds exactly the streams inserted and not removed: each is found
\* under its identifier, nothing else is found, a walk over the table meets each
\* once and size counts them, through collisions, growth, errors and reuse of
\* the memory (nghttp2_map.c:64-79 and 95-187).
MapIsExact ==
    LET live == {e \in Entries : held[e] # Nil} IN
    /\ \A k \in Keys : map_find(k) = (IF \E e \in live : held[e] = k
                                      THEN CHOOSE e \in live : held[e] = k ELSE Nil)
    /\ ToSet(map_each) = live /\ Len(map_each) = Cardinality(live)
    /\ size = Cardinality(live)
=============================================================================
