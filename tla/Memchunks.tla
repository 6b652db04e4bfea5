------------------------------ MODULE Memchunks ------------------------------
(***************************************************************************)
(* The byte queues of memchunk.h: Memchunks, linked lists of chunks of N   *)
(* bytes that share a Pool, and a MemchunkBuffer of the same pool.  A      *)
(* client's write buffer wb and the read buffer of a SofaRPC session are   *)
(* such queues on the pool of their worker.  Chunks are numbered in the    *)
(* order the pool allocates them; 0 is the null pointer.  said and kept    *)
(* are what the callers put into the queues and the buffer and have not    *)
(* taken out: the queues as a caller thinks of them.                       *)
(***************************************************************************)
EXTENDS Integers, Sequences, FiniteSets, FiniteSetsExt, SequencesExt

CONSTANTS N,          \* size of a chunk (16k)
          Queues,     \* the queues that share the pool
          MaxBytes,   \* bytes a behaviour puts in
          MaxWrite,   \* bytes of one call
          MaxCalls    \* calls of a behaviour

VARIABLES st,      \* the pool (mem, freelist), the queues q and the buffer's chunk
          said, kept, put, calls,
          right    \* every call that copied bytes out gave the right ones

vars == <<st, said, kept, put, calls, right>>

\* bytes: what lies between pos and last; nothing reads the other bytes of buf.
Chunk == [bytes |-> <<>>, pos |-> 0, next |-> 0]

Init ==
  /\ st = [mem |-> <<>>, freelist |-> 0, q |-> [x \in Queues |-> [head |-> 0, tail |-> 0, len |-> 0]],
           chunk |-> 0]
  /\ said = [x \in Queues |-> <<>>] /\ kept = <<>> /\ put = 0 /\ calls = 0 /\ right = TRUE

----------------------------------------------------------------------------
(* Memchunk and Pool.                                                      *)

len(c) == Len(c.bytes)
left(c) == N - (c.pos + len(c))

\* The chunk Pool::get hands out, and the state after it.
got(s) == IF s.freelist # 0 THEN s.freelist ELSE Len(s.mem) + 1

get(s) ==
  IF s.freelist # 0
  THEN [s EXCEPT !.freelist = s.mem[s.freelist].next,
                 !.mem[s.freelist].pos = 0, !.mem[s.freelist].bytes = <<>>,
                 !.mem[s.freelist].next = 0]
  ELSE [s EXCEPT !.mem = Append(@, Chunk)]

recycle(s, m) == [s EXCEPT !.mem[m].next = s.freelist, !.freelist = m]

\* bytes are copied to the end of chunk m.
CopyIn(s, m, b) == [s EXCEPT !.mem[m].bytes = @ \o b]

----------------------------------------------------------------------------
(* Memchunks.                                                              *)

\* A new chunk behind the tail of queue x, or as its first.
Extend(s, x) ==
  LET m == got(s)
      g == get(s)
      t == s.q[x].tail
      h == IF t = 0 THEN g ELSE [g EXCEPT !.mem[t].next = m]
  IN  [h EXCEPT !.q[x].tail = m, !.q[x].head = IF t = 0 THEN m ELSE @]

\* append(src, count): fill the tail, take another chunk, go on.
RECURSIVE Fill(_, _, _)
Fill(s, x, bytes) ==
  LET m == s.q[x].tail
      n == Min({Len(bytes), left(s.mem[m])})
      c == [CopyIn(s, m, SubSeq(bytes, 1, n)) EXCEPT !.q[x].len = @ + n]
      rest == SubSeq(bytes, n + 1, Len(bytes))
  IN  IF rest = <<>> THEN c ELSE Fill(Extend(c, x), x, rest)

append(s, x, bytes) ==
  CASE bytes = <<>> -> s
    [] bytes # <<>> /\ s.q[x].tail = 0 -> Fill(Extend(s, x), x, bytes)
    [] OTHER -> Fill(s, x, bytes)

\* append(c): a full tail is replaced before the byte is stored.
append_char(s, x, c) ==
  LET t == s.q[x].tail
      e == IF t = 0 THEN Extend(s, x) ELSE IF left(s.mem[t]) = 0 THEN Extend(s, x) ELSE s
  IN  [CopyIn(e, e.q[x].tail, <<c>>) EXCEPT !.q[x].len = @ + 1]

\* The loop of drain and of both remove: n bytes leave from chunk m on, into
\* queue d where d is one, and chunks that are used up go back to the pool.
\* The result has the bytes that left in out.
RECURSIVE Leave(_, _, _, _, _)
Leave(s, x, d, m, n) ==
  IF m = 0 THEN [s EXCEPT !.q[x].head = 0, !.q[x].tail = 0]
  ELSE LET c == s.mem[m]
           k == Min({n, len(c)})
           b == SubSeq(c.bytes, 1, k)
           a == IF d \in Queues THEN append(s, d, b) ELSE s
           t == [a EXCEPT !.mem[m].pos = @ + k, !.mem[m].bytes = SubSeq(@, k + 1, Len(@)),
                           !.q[x].len = @ - k, !.out = @ \o b]
       IN  IF k < len(c) THEN [t EXCEPT !.q[x].head = m]
           ELSE Leave(recycle(t, m), x, d, c.next, n - k)

\* drain(count), remove(dest, count) and remove(Memchunks, count).
Take(s, x, d, n) == Leave([out |-> <<>>] @@ s, x, d, s.q[x].head, n)

\* The chunks of the list that starts at m, in order.
RECURSIVE List(_, _)
List(s, m) == IF m = 0 THEN <<>> ELSE <<m>> \o List(s, s.mem[m].next)

Contents(s, x) == FoldLeft(LAMBDA b, m : b \o s.mem[m].bytes, <<>>, List(s, s.q[x].head))

\* copy(dest): chunk by chunk.
copy(s, x, d) ==
  FoldLeft(LAMBDA t, m : append(t, d, s.mem[m].bytes), s, List(s, s.q[x].head))

mutant_remove_all(s, x, d) ==
  IF s.q[x].head = 0 THEN s
  ELSE LET l == IF s.q[d].tail = 0 THEN [s EXCEPT !.q[d].head = s.q[x].head]
                ELSE [s EXCEPT !.mem[s.q[d].tail].next = s.q[x].head]
       IN  [l EXCEPT !.q[d].tail = s.q[x].tail,
                     !.q[x] = [head |-> 0, tail |-> 0, len |-> 0]]

\* remove(dest): the list itself changes hands.
remove_all(s, x, d) ==
  IF s.q[x].head = 0 THEN s
  ELSE LET l == IF s.q[d].tail = 0 THEN [s EXCEPT !.q[d].head = s.q[x].head]
                ELSE [s EXCEPT !.mem[s.q[d].tail].next = s.q[x].head]
       IN  [l EXCEPT !.q[d].tail = s.q[x].tail, !.q[d].len = @ + s.q[x].len,
                     !.q[x] = [head |-> 0, tail |-> 0, len |-> 0]]

\* reset, and the destructor.
reset(s, x) ==
  [FoldLeft(recycle, s, List(s, s.q[x].head))
     EXCEPT !.q[x] = [head |-> 0, tail |-> 0, len |-> 0]]

\* operator=: what the target held goes back, then the list changes hands.
assign(s, d, x) ==
  [reset(s, d) EXCEPT !.q[d] = s.q[x], !.q[x] = [head |-> 0, tail |-> 0, len |-> 0]]

\* riovec: the chunks writev is given, at most iovcnt of them.
riovec(s, x, iovcnt) ==
  IF s.q[x].head = 0 \/ s.q[x].len <= 0 THEN <<>>
  ELSE LET l == List(s, s.q[x].head)
       IN  [i \in 1..Min({iovcnt, Len(l)}) |-> s.mem[l[i]].bytes]

\* limit_iovec: the same vectors cut to max bytes.
limit_iovec(iov, max) ==
  LET Before(i) == FoldLeft(LAMBDA n, b : n + Len(b), 0, SubSeq(iov, 1, i - 1))
      k == Cardinality({i \in DOMAIN iov : Before(i) < max})
  IN  [i \in 1..k |-> SubSeq(iov[i], 1, Min({Len(iov[i]), max - Before(i)}))]

----------------------------------------------------------------------------
(* The calls.                                                              *)

New(n) == [i \in 1..n |-> put + i]
FirstOf(x, n) == SubSeq(said[x], 1, n)
RestOf(x, n) == SubSeq(said[x], n + 1, Len(said[x]))
Strip(r) == [k \in DOMAIN r \ {"out"} |-> r[k]]

Put(x) ==
  \E n \in 1..Min({MaxWrite, MaxBytes - put}) :
    /\ st' = append(st, x, New(n))
    /\ said' = [said EXCEPT ![x] = @ \o New(n)] /\ put' = put + n
    /\ UNCHANGED <<kept, right>>

AppendChar(x) ==
  /\ put < MaxBytes
  /\ st' = append_char(st, x, put + 1)
  /\ said' = [said EXCEPT ![x] = Append(@, put + 1)] /\ put' = put + 1
  /\ UNCHANGED <<kept, right>>

\* drain and remove(dest, count), as far as the queue goes.
TakeOut(x) ==
  \E count \in 1..MaxWrite :
    LET n == Min({count, Len(said[x])})
        r == Take(st, x, "nowhere", count)
    IN  /\ st' = Strip(r) /\ right' = (right /\ r.out = FirstOf(x, n))
        /\ said' = [said EXCEPT ![x] = RestOf(x, n)]
        /\ UNCHANGED <<kept, put>>

RemoveInto(x, d) ==
  \E count \in 1..MaxWrite :
    LET n == Min({count, Len(said[x])})
    IN  /\ said[x] # <<>> /\ st' = Strip(Take(st, x, d, count))
        /\ said' = [said EXCEPT ![x] = RestOf(x, n), ![d] = @ \o FirstOf(x, n)]
        /\ UNCHANGED <<kept, put, right>>

RemoveAll(x, d) ==
  /\ st' = remove_all(st, x, d)
  /\ said' = [said EXCEPT ![x] = <<>>, ![d] = @ \o said[x]]
  /\ UNCHANGED <<kept, put, right>>

Copy(x, d) ==
  /\ Len(said[d]) + Len(said[x]) <= MaxBytes
  /\ st' = copy(st, x, d) /\ said' = [said EXCEPT ![d] = @ \o said[x]]
  /\ UNCHANGED <<kept, put, right>>

Reset(x) ==
  /\ st' = reset(st, x) /\ said' = [said EXCEPT ![x] = <<>>]
  /\ UNCHANGED <<kept, put, right>>

Assign(d, x) ==
  /\ st' = assign(st, d, x) /\ said' = [said EXCEPT ![d] = said[x], ![x] = <<>>]
  /\ UNCHANGED <<kept, put, right>>

\* MemchunkBuffer: one chunk, taken when needed, written at its end.
ensure_chunk ==
  /\ st.chunk = 0
  /\ st' = [get(st) EXCEPT !.chunk = got(st)]
  /\ UNCHANGED <<said, kept, put, right>>

release_chunk ==
  /\ st.chunk # 0
  /\ st' = [recycle(st, st.chunk) EXCEPT !.chunk = 0] /\ kept' = <<>>
  /\ UNCHANGED <<said, put, right>>

write ==
  /\ st.chunk # 0
  /\ \E n \in 1..Min({MaxWrite, MaxBytes - put, left(st.mem[st.chunk])}) :
       st' = CopyIn(st, st.chunk, New(n)) /\ kept' = kept \o New(n) /\ put' = put + n
  /\ UNCHANGED <<said, right>>

\* drain(count), or drain_reset(count), which moves what is left to the front.
DrainBuffer(s, n, compact) ==
  LET k == Min({n, len(s.mem[s.chunk])})
  IN  [s EXCEPT !.mem[s.chunk].bytes = SubSeq(@, k + 1, Len(@)),
                !.mem[s.chunk].pos = IF compact THEN 0 ELSE @ + k]

drain ==
  /\ st.chunk # 0
  /\ \E n \in 1..MaxWrite, compact \in BOOLEAN :
       /\ st' = DrainBuffer(st, n, compact)
       /\ kept' = SubSeq(kept, n + 1, Len(kept))
  /\ UNCHANGED <<said, put, right>>

Next ==
  /\ calls < MaxCalls /\ calls' = calls + 1
  /\ \/ \E x \in Queues : Put(x) \/ AppendChar(x) \/ TakeOut(x) \/ Reset(x)
     \/ \E x \in Queues : \E d \in Queues \ {x} :
          RemoveInto(x, d) \/ RemoveAll(x, d) \/ Copy(x, d) \/ Assign(d, x)
     \/ ensure_chunk \/ release_chunk \/ write \/ drain

Spec == Init /\ [][Next]_vars

----------------------------------------------------------------------------
(* Safety.                                                                 *)

\* The queues are byte queues: whatever calls were made, a list of chunks holds
\* what was put in and not taken out, in order, len counts it, and what remove
\* copied out was the front of the queue.
QueuesAreExact ==
  /\ \A x \in Queues : Contents(st, x) = said[x] /\ st.q[x].len = Len(said[x])
  /\ st.chunk # 0 => left(st.mem[st.chunk]) >= 0 /\ st.mem[st.chunk].bytes = kept
  /\ right

\* Chunks are never shared or lost: each is in exactly one of the queues, the
\* free list and the buffer, the tail of a queue is its last chunk, and no chunk
\* of a queue is empty (the assertions of remove).
ChunksAccounted ==
  LET lists == [x \in Queues |-> List(st, st.q[x].head)]
      all == FoldLeft(LAMBDA l, x : l \o lists[x], List(st, st.freelist), SetToSeq(Queues))
             \o (IF st.chunk = 0 THEN <<>> ELSE <<st.chunk>>)
  IN  /\ Len(all) = Len(st.mem) /\ ToSet(all) = DOMAIN st.mem
      /\ \A x \in Queues : /\ st.q[x].tail = (IF lists[x] = <<>> THEN 0 ELSE Last(lists[x]))
                           /\ \A i \in DOMAIN lists[x] : len(st.mem[lists[x][i]]) > 0

\* What writev is given, whole or cut to a limit, is the front of the queue.
IovecIsPrefix ==
  \A x \in Queues : \A cnt \in 1..2 :
    LET iov == riovec(st, x, cnt)
        whole == FlattenSeq(iov)
    IN  /\ IsPrefix(whole, said[x]) /\ (whole = <<>> => said[x] = <<>>)
        /\ \A max \in 1..Len(whole) : FlattenSeq(limit_iovec(iov, max)) = SubSeq(whole, 1, max)
=============================================================================
