----------------------------- MODULE StreamTree -----------------------------
(***************************************************************************)
(* The dependency tree and the scheduler of an nghttp2 server session:     *)
(* lib/nghttp2_stream.c, the heap of lib/nghttp2_pq.c in every stream, and *)
(* what lib/nghttp2_session.c does with them when streams are opened,      *)
(* reprioritised, closed and forgotten.  The links between streams are     *)
(* those of the code, pointer by pointer; a stream id stands for a pointer *)
(* and NULL for none.  A stream that has an item to send is queued in its  *)
(* parent's heap, and so are all its ancestors; the item sent next is      *)
(* found by going down from the root along the tops of the heaps.          *)
(***************************************************************************)
EXTENDS Integers, Sequences, SequencesExt, FiniteSets, FiniteSetsExt

CONSTANTS Ids,             \* the stream ids of the client
          MAX_WEIGHT,      \* NGHTTP2_MAX_WEIGHT, scaled down
          Weights,         \* weights that priorities may have
          MaxWrite,        \* NGHTTP2_MAX_FRAME_SIZE_MAX, scaled down
          CycleMod,        \* 2^64, scaled down
          MaxIdle,         \* limit of nghttp2_session_adjust_idle_stream, scaled down
          num_stream_max,  \* limit of nghttp2_session_adjust_closed_stream
          MaxOps, MaxPriorities  \* bounds: operations, changes of priority and dependencies on later streams among them

VARIABLES t,               \* the streams and the lists of the session
          moved,           \* a queued stream was moved together with queued descendants
          nops, npri
vars == <<t, moved, nops, npri>>

NULL == -1
Root == 0
DEFAULT_WEIGHT == Min(Weights)
MAX_CYCLE_DISTANCE == MaxWrite * MAX_WEIGHT + MAX_WEIGHT - 1
Default == [dep |-> 0, weight |-> DEFAULT_WEIGHT, exclusive |-> FALSE]

stream_init(weight, state) ==
  [state |-> state, item |-> FALSE, deferred |-> {}, dep_prev |-> NULL, dep_next |-> NULL, sib_prev |-> NULL,
   sib_next |-> NULL, weight |-> weight, sum_dep_weight |-> 0, queued |-> FALSE, obq |-> <<>>, index |-> 0,
   cycle |-> 0, descendant_last_cycle |-> 0, pending_penalty |-> 0, seq |-> 0, descendant_next_seq |-> 0,
   last_writelen |-> 0]
Streams(x) == DOMAIN x.st

(***************************************************************************)
(* lib/nghttp2_pq.c: a heap of streams; index is where a stream is in it   *)
(***************************************************************************)
stream_less(x, a, b) ==
  LET l == x.st[a] r == x.st[b]
  IN  IF l.cycle = r.cycle THEN l.seq < r.seq ELSE (r.cycle - l.cycle) % CycleMod <= MAX_CYCLE_DISTANCE

\* Positions count from 1 here, index counts from 0 as in the code.
Place(x, d, s, i) == [x EXCEPT !.st[d].obq[i] = s, !.st[s].index = i - 1]
Swap(x, d, i, j) == LET q == x.st[d].obq IN Place(Place(x, d, q[j], i), d, q[i], j)

RECURSIVE bubble_up(_, _, _)
bubble_up(x, d, i) ==
  LET q == x.st[d].obq  p == i \div 2
  IN  IF i = 1 THEN x
      ELSE IF ~stream_less(x, q[i], q[p]) THEN x
      ELSE bubble_up(Swap(x, d, p, i), d, p)

RECURSIVE bubble_down(_, _, _)
bubble_down(x, d, i) ==
  LET q == x.st[d].obq
      Pick(m, j) == IF j <= Len(q) THEN (IF stream_less(x, q[j], q[m]) THEN j ELSE m) ELSE m
      m == Pick(Pick(i, 2 * i), 2 * i + 1)
  IN  IF m = i THEN x ELSE bubble_down(Swap(x, d, i, m), d, m)

pq_push(x, d, s) ==
  LET n == Len(x.st[d].obq) + 1
  IN  bubble_up([x EXCEPT !.st[d].obq = Append(@, s), !.st[s].index = n - 1], d, n)

\* The last entry takes the place of the removed one and goes up or down from there.
pq_remove(x, d, s) ==
  LET i == x.st[s].index + 1
      n == Len(x.st[d].obq)
      z == x.st[d].obq[n]
      Ordered(cut) ==
        IF i = n THEN cut
        ELSE IF i = 1 THEN bubble_down(cut, d, 1)
        ELSE IF stream_less(cut, s, z) THEN bubble_down(cut, d, i)
        ELSE bubble_up(cut, d, i)
  IN  Ordered([(IF i = n THEN x ELSE Place(x, d, z, i)) EXCEPT !.st[d].obq = Front(@)])

(***************************************************************************)
(* Queueing                                                                *)
(***************************************************************************)
stream_active(x, s) == x.st[s].item /\ x.st[s].deferred = {}
stream_subtree_active(x, s) == stream_active(x, s) \/ x.st[s].obq # <<>>

stream_next_cycle(x, s, last_cycle) ==
  LET penalty == x.st[s].last_writelen * MAX_WEIGHT + x.st[s].pending_penalty
  IN  [x EXCEPT !.st[s].cycle = (last_cycle + penalty \div x.st[s].weight) % CycleMod,
                !.st[s].pending_penalty = penalty % x.st[s].weight]
\* s gets the next cycle and sequence number below d.
Renumber(x, d, s) ==
  LET n == stream_next_cycle(x, s, x.st[d].descendant_last_cycle)
  IN  [n EXCEPT !.st[s].seq = x.st[d].descendant_next_seq, !.st[d].descendant_next_seq = @ + 1]

RECURSIVE stream_obq_push(_, _, _)
stream_obq_push(x, d, s) ==
  IF d = NULL THEN x ELSE IF x.st[s].queued THEN x
  ELSE stream_obq_push([pq_push(Renumber(x, d, s), d, s) EXCEPT !.st[s].queued = TRUE], x.st[d].dep_prev, d)

RECURSIVE ObqRemove(_, _, _)
ObqRemove(x, d, s) ==
  LET Upwards(c) == IF stream_subtree_active(c, d) THEN c ELSE ObqRemove(c, x.st[d].dep_prev, d)
  IN  IF d = NULL THEN x
      ELSE Upwards([pq_remove(x, d, s) EXCEPT
                      !.st[s].queued = FALSE, !.st[s].cycle = 0, !.st[s].pending_penalty = 0,
                      !.st[s].descendant_last_cycle = 0, !.st[s].last_writelen = 0])
stream_obq_remove(x, s) == IF x.st[s].queued THEN ObqRemove(x, x.st[s].dep_prev, s) ELSE x

stream_obq_move(x, dest, src, s) ==
  IF ~x.st[s].queued THEN x
  ELSE stream_obq_push([pq_remove(x, src, s) EXCEPT !.st[s].queued = FALSE], dest, s)

mutant_Reschedule(x, d, s) ==
  [Renumber(x, d, s) EXCEPT !.st[d].last_writelen = x.st[s].last_writelen]
RECURSIVE Reschedule(_, _, _)
Reschedule(x, d, s) ==
  IF d = NULL THEN x
  ELSE Reschedule([pq_push(Renumber(pq_remove(x, d, s), d, s), d, s)
                     EXCEPT !.st[d].last_writelen = x.st[s].last_writelen], x.st[d].dep_prev, d)
stream_reschedule(x, s) == Reschedule(x, x.st[s].dep_prev, s)

stream_change_weight(x, s, weight) ==
  LET old == x.st[s].weight
      d == x.st[s].dep_prev
      w == [x EXCEPT !.st[s].weight = weight, !.st[d].sum_dep_weight = @ + weight - old]
      wlen_penalty == x.st[s].last_writelen * MAX_WEIGHT
      pen == (x.st[s].pending_penalty + old - (wlen_penalty % old)) % old
      last_cycle == (x.st[s].cycle - (wlen_penalty + pen) \div old) % CycleMod
      late(n) == (x.st[d].descendant_last_cycle - n.st[s].cycle) % CycleMod <= MAX_CYCLE_DISTANCE
      NotBefore(n) == IF late(n) THEN [n EXCEPT !.st[s].cycle = x.st[d].descendant_last_cycle] ELSE n
  IN  IF old = weight THEN x
      ELSE IF ~x.st[s].queued THEN w
      ELSE pq_push(NotBefore(stream_next_cycle([pq_remove(w, d, s) EXCEPT !.st[s].pending_penalty = pen],
                                               s, last_cycle)), d, s)

attach_item(x, s) == stream_obq_push([x EXCEPT !.st[s].item = TRUE], x.st[s].dep_prev, s)
update_dep_on_detach_item(x, s) == IF x.st[s].obq = <<>> THEN stream_obq_remove(x, s) ELSE x
detach_item(x, s) == update_dep_on_detach_item([x EXCEPT !.st[s].item = FALSE, !.st[s].deferred = {}], s)
defer_item(x, s, f) == update_dep_on_detach_item([x EXCEPT !.st[s].deferred = @ \cup {f}], s)
resume_deferred_item(x, s, f) ==
  LET r == [x EXCEPT !.st[s].deferred = @ \ {f}]
  IN  IF r.st[s].deferred # {} THEN r ELSE stream_obq_push(r, x.st[s].dep_prev, s)

RECURSIVE NextItem(_, _)
NextItem(x, s) ==
  IF stream_active(x, s) THEN s
  ELSE IF x.st[s].obq = <<>> THEN NULL ELSE NextItem(x, x.st[s].obq[1])
RECURSIVE Ancestors(_, _)
Ancestors(x, s) == IF x.st[s].dep_prev = NULL THEN {} ELSE {x.st[s].dep_prev} \cup Ancestors(x, x.st[s].dep_prev)
\* nghttp2_stream_next_outbound_item: the stream, and its ancestors with the cycle of who was chosen.
next_outbound_item(x) ==
  LET s == NextItem(x, Root)
      path == Ancestors(x, s) \cup {s}
      ChildOf(d) == CHOOSE c \in path : x.st[c].dep_prev = d
  IN  <<s, IF s = NULL THEN x
           ELSE [x EXCEPT !.st = [d \in DOMAIN @ |-> IF d \in path \ {s}
                                    THEN [@[d] EXCEPT !.descendant_last_cycle = x.st[ChildOf(d)].cycle] ELSE @[d]]]>>

(***************************************************************************)
(* The links                                                               *)
(***************************************************************************)
RECURSIVE Sibs(_, _)
Sibs(x, s) == IF s = NULL THEN <<>> ELSE <<s>> \o Sibs(x, x.st[s].sib_next)
stream_last_sib(x, s) == Last(Sibs(x, s))
set_dep_prev(x, s, d) ==
  LET sibs == Range(Sibs(x, s))
  IN  [x EXCEPT !.st = [i \in DOMAIN @ |-> IF i \in sibs THEN [@[i] EXCEPT !.dep_prev = d] ELSE @[i]]]
link_dep(x, d, s) == IF s = NULL THEN [x EXCEPT !.st[d].dep_next = NULL]
                     ELSE [x EXCEPT !.st[d].dep_next = s, !.st[s].dep_prev = d]
link_sib(x, a, b) == IF b = NULL THEN [x EXCEPT !.st[a].sib_next = NULL]
                     ELSE [x EXCEPT !.st[a].sib_next = b, !.st[b].sib_prev = a]
insert_link_dep(x, d, s) == link_dep(link_sib(x, s, x.st[d].dep_next), d, s)

\* The children of s take its place among its siblings.
Spliced(x, s) ==
  LET c == x.st[s].dep_next
      y == set_dep_prev(x, c, x.st[s].dep_prev)
  IN  IF x.st[s].sib_next = NULL THEN y ELSE link_sib(y, stream_last_sib(y, c), x.st[s].sib_next)
unlink_sib(x, s) ==
  LET prev == x.st[s].sib_prev  c == x.st[s].dep_next
  IN  IF c = NULL THEN link_sib(x, prev, x.st[s].sib_next) ELSE Spliced(link_sib(x, prev, c), s)
unlink_dep(x, s) ==
  LET prev == x.st[s].dep_prev  c == x.st[s].dep_next  next == x.st[s].sib_next
  IN  IF c # NULL THEN Spliced(link_dep(x, prev, c), s)
      ELSE IF next # NULL THEN link_dep([x EXCEPT !.st[next].sib_prev = NULL], prev, next)
      ELSE link_dep(x, prev, NULL)

Detached(x, s) == [x EXCEPT !.st[s].dep_prev = NULL, !.st[s].sib_prev = NULL, !.st[s].sib_next = NULL]
in_dep_tree(x, s) == \E l \in {"dep_prev", "dep_next", "sib_prev", "sib_next"} : x.st[s][l] # NULL

dep_add(x, d, s) ==
  LET y == [x EXCEPT !.st[d].sum_dep_weight = @ + x.st[s].weight]
  IN  IF x.st[d].dep_next = NULL THEN link_dep(y, d, s) ELSE insert_link_dep(y, d, s)

\* Children of src, one after the other, get dest as parent and are queued there.
MoveAll(x, dest, src, kids) ==
  FoldLeft(LAMBDA y, si : stream_obq_move([y EXCEPT !.st[si].dep_prev = dest], dest, src, si), x, kids)

\* s is queued below d if it, or a descendant, has something to send.
PushIfActive(x, d, s) == IF stream_subtree_active(x, s) THEN stream_obq_push(x, d, s) ELSE x

dep_insert(x, d, s) ==
  LET w == [x EXCEPT !.st[s].sum_dep_weight = x.st[d].sum_dep_weight, !.st[d].sum_dep_weight = x.st[s].weight]
      kids == x.st[d].dep_next
      y == IF kids = NULL THEN w
           ELSE [PushIfActive(MoveAll(w, s, d, Sibs(x, kids)), d, s) EXCEPT !.st[s].dep_next = kids]
  IN  [y EXCEPT !.st[d].dep_next = s, !.st[s].dep_prev = d]

dep_distributed_weight(x, s, weight) == Max({1, (x.st[s].weight * weight) \div x.st[s].sum_dep_weight})

\* The end of nghttp2_stream_dep_remove
Unhooked(x, s) ==
  LET u == IF x.st[s].sib_prev # NULL THEN unlink_sib(x, s) ELSE unlink_dep(x, s)
  IN  Detached([u EXCEPT !.st[s].sum_dep_weight = 0, !.st[s].dep_next = NULL], s)

mutant_dep_remove(x, s) ==
  LET d == x.st[s].dep_prev
      kids == Sibs(x, x.st[s].dep_next)
      m == FoldLeft(LAMBDA y, si : stream_obq_move(
                      [y EXCEPT !.st[si].weight = dep_distributed_weight(x, s, @)], d, s, si), x, kids)
      y == stream_obq_remove([m EXCEPT !.st[d].sum_dep_weight = @ - x.st[s].weight + x.st[s].sum_dep_weight], s)
  IN  Unhooked(y, s)
dep_remove(x, s) ==
  LET d == x.st[s].dep_prev
      kids == Sibs(x, x.st[s].dep_next)
      weights == [i \in DOMAIN x.st |-> dep_distributed_weight(x, s, x.st[i].weight)]
      m == FoldLeft(LAMBDA y, si : stream_obq_move([y EXCEPT !.st[si].weight = weights[si]], d, s, si), x, kids)
      delta == FoldLeft(LAMBDA n, si : n + weights[si], 0, kids) - x.st[s].weight
  IN  Unhooked(stream_obq_remove([m EXCEPT !.st[d].sum_dep_weight = @ + delta], s), s)

dep_insert_subtree(x, d, s) ==
  LET w == [x EXCEPT !.st[s].sum_dep_weight = @ + x.st[d].sum_dep_weight, !.st[d].sum_dep_weight = x.st[s].weight]
      kids == x.st[d].dep_next
      l == link_dep(w, d, s)
      j == IF x.st[s].dep_next = NULL THEN link_dep(l, s, kids)
           ELSE link_sib(l, stream_last_sib(l, x.st[s].dep_next), kids)
  IN  PushIfActive(IF kids = NULL THEN l ELSE MoveAll(j, s, d, Sibs(j, kids)), d, s)

dep_add_subtree(x, d, s) == PushIfActive(dep_add(x, d, s), d, s)

dep_remove_subtree(x, s) ==
  LET d == x.st[s].dep_prev  next == x.st[s].sib_next
      u == IF x.st[s].sib_prev # NULL THEN link_sib(x, x.st[s].sib_prev, next)
           ELSE IF next = NULL THEN link_dep(x, d, NULL)
           ELSE link_dep([x EXCEPT !.st[next].sib_prev = NULL], d, next)
      w == [u EXCEPT !.st[d].sum_dep_weight = @ - x.st[s].weight]
  IN  Detached(stream_obq_remove(w, s), s)

(***************************************************************************)
(* lib/nghttp2_session.c: opening, reprioritising, closing, forgetting     *)
(***************************************************************************)
detect_idle_stream(x, id) == id > x.last_recv_stream_id
keep_idle_stream(x, s) == [x EXCEPT !.idle = Append(@, s)]
detach_idle_stream(x, s) == [x EXCEPT !.idle = SelectSeq(@, LAMBDA i : i # s)]
keep_closed_stream(x, s) == [x EXCEPT !.closed = Append(@, s)]

destroy_stream(x, s) ==
  LET Freed(y) == [y EXCEPT !.st = [i \in DOMAIN @ \ {s} |-> @[i]]]
  IN  Freed(IF in_dep_tree(x, s) THEN dep_remove(x, s) ELSE x)

\* A dependency on a stream not seen yet creates it; one on a stream that is gone is replaced by the default.
Fresh(x, pri) == pri.dep # 0 /\ pri.dep \notin Streams(x) /\ detect_idle_stream(x, pri.dep)
Usable(x, pri) == IF pri.dep = 0 \/ Fresh(x, pri) \/ (pri.dep \in Streams(x) /\ in_dep_tree(x, pri.dep))
                  THEN pri ELSE Default

RECURSIVE open_stream(_, _, _, _)
open_stream(x, id, pri, state) ==
  LET known == id \in Streams(x)
      Hung(y, p) == IF p.exclusive THEN dep_insert(y, p.dep, id) ELSE dep_add(y, p.dep, id)
      Listed(y) == IF state = "IDLE" THEN keep_idle_stream(y, id) ELSE y
      Made(y, p) ==
        IF known THEN [y EXCEPT !.st[id].state = state, !.st[id].weight = p.weight]
        ELSE [y EXCEPT !.st = [i \in DOMAIN @ \cup {id} |-> IF i = id THEN stream_init(p.weight, state) ELSE @[i]]]
      Opening(a, p) ==
        Hung(Listed(Made(IF Fresh(a, pri) THEN open_stream(a, pri.dep, Default, "IDLE") ELSE a, p)), p)
      From(a) == Opening(a, Usable(a, pri))
  IN  From(IF known THEN dep_remove(detach_idle_stream(x, id), id) ELSE x)

find_ancestor(x, s, target) == s = target \/ target \in Ancestors(x, s)

reprioritize_stream(x, s, pri) ==
  LET p == Usable(x, pri)
      Lifted(a) == IF p.dep # 0 /\ find_ancestor(a, p.dep, s)
                   THEN dep_add_subtree(dep_remove_subtree(a, p.dep), a.st[s].dep_prev, p.dep) ELSE a
      Moved(r) == IF p.exclusive THEN dep_insert_subtree(r, p.dep, s) ELSE dep_add_subtree(r, p.dep, s)
      Changed(b) == IF p.dep = b.st[s].dep_prev /\ ~p.exclusive THEN stream_change_weight(b, s, p.weight)
                    ELSE Moved([dep_remove_subtree(b, s) EXCEPT !.st[s].weight = p.weight])
  IN  IF ~in_dep_tree(x, s) THEN x
      ELSE Changed(Lifted(IF Fresh(x, pri) THEN open_stream(x, pri.dep, Default, "IDLE") ELSE x))

RECURSIVE adjust_idle_stream(_)
adjust_idle_stream(x) ==
  IF Len(x.idle) <= MaxIdle THEN x
  ELSE adjust_idle_stream(destroy_stream([x EXCEPT !.idle = Tail(@)], x.idle[1]))

num_incoming_streams(x) == Cardinality({s \in Streams(x) \ {Root} : x.st[s].state = "OPENED"})
RECURSIVE adjust_closed_stream(_)
adjust_closed_stream(x) ==
  IF x.closed = <<>> \/ Len(x.closed) + num_incoming_streams(x) <= num_stream_max THEN x
  ELSE adjust_closed_stream(destroy_stream([x EXCEPT !.closed = Tail(@)], x.closed[1]))

close_stream(x, s) ==
  LET Closed(d) == IF in_dep_tree(d, s) THEN keep_closed_stream([d EXCEPT !.st[s].state = "CLOSED"], s)
                   ELSE destroy_stream(d, s)
  IN  Closed(IF x.st[s].item THEN detach_item(x, s) ELSE x)

(***************************************************************************)
(* Actions                                                                 *)
(***************************************************************************)
Init ==
  /\ t = [st |-> [i \in {Root} |-> stream_init(1, "ROOT")], idle |-> <<>>, closed |-> <<>>,
          last_recv_stream_id |-> 0]
  /\ moved = FALSE /\ nops = 0 /\ npri = 0

PriSpecs(id) == [dep : ({0} \cup Ids) \ {id}, weight : Weights, exclusive : BOOLEAN]
Opened == {s \in Streams(t) \ {Root} : t.st[s].state = "OPENED"}

\* nghttp2_session_on_request_headers_received; the stream limits are in H2Session.
OpenStream(id, pri) ==
  /\ id > t.last_recv_stream_id
  /\ npri' = npri + (IF pri.dep > id THEN 1 ELSE 0) /\ npri' <= MaxPriorities
  /\ t' = adjust_closed_stream(open_stream([t EXCEPT !.last_recv_stream_id = id], id, pri, "OPENED"))
  /\ UNCHANGED moved

\* nghttp2_session_on_priority_received of a server
RecvPriority(id, pri) ==
  /\ npri < MaxPriorities /\ npri' = npri + 1
  /\ id \in Streams(t) \/ detect_idle_stream(t, id)
  /\ t' = adjust_idle_stream(IF id \in Streams(t) THEN reprioritize_stream(t, id, pri)
                             ELSE open_stream(t, id, pri, "IDLE"))
  /\ moved' = (moved \/ (id \in Streams(t) /\ t.st[id].queued /\ t.st[id].obq # <<>>))

\* nghttp2_session_change_stream_priority: the application's way
ChangeStreamPriority(id, pri) ==
  /\ npri < MaxPriorities /\ npri' = npri + 1
  /\ id \in Streams(t)
  /\ t' = reprioritize_stream(t, id, pri)
  /\ moved' = (moved \/ (t.st[id].queued /\ t.st[id].obq # <<>>))

CreateIdleStream(id, pri) ==
  /\ npri < MaxPriorities /\ npri' = npri + 1
  /\ detect_idle_stream(t, id) /\ id \notin Streams(t)
  /\ t' = open_stream(t, id, pri, "IDLE")
  /\ UNCHANGED moved

AttachItem(s) ==
  /\ s \in Opened /\ ~t.st[s].item
  /\ t' = attach_item(t, s)
  /\ UNCHANGED <<moved, npri>>

DeferItem(s) ==
  /\ s \in Opened /\ stream_active(t, s)
  /\ \E f \in {"USER", "FLOW_CONTROL"} : t' = defer_item(t, s, f)
  /\ UNCHANGED <<moved, npri>>

ResumeItem(s) ==
  /\ \E f \in t.st[s].deferred : t' = resume_deferred_item(t, s, f)
  /\ UNCHANGED <<moved, npri>>

\* nghttp2_session_pop_next_ob_item, nghttp2_session_pack_data and, with the last frame,
\* session_after_frame_sent2.
WriteData(n, eof) ==
  /\ \E p \in {next_outbound_item(adjust_idle_stream(t))} :
       LET w == [p[2] EXCEPT !.st[p[1]].last_writelen = n]
       IN  /\ p[1] # NULL
           /\ t' = IF eof THEN detach_item(stream_reschedule(w, p[1]), p[1]) ELSE stream_reschedule(w, p[1])
  /\ UNCHANGED <<moved, npri>>

CloseStream(s) ==
  /\ s \in Opened
  /\ t' = adjust_closed_stream(close_stream(t, s))
  /\ UNCHANGED <<moved, npri>>

Next ==
  /\ nops < MaxOps /\ nops' = nops + 1
  /\ \/ \E id \in Ids : \E pri \in PriSpecs(id) :
          \/ pri.weight = MAX_WEIGHT /\ OpenStream(id, pri)
          \/ RecvPriority(id, pri) \/ ChangeStreamPriority(id, pri) \/ CreateIdleStream(id, pri)
     \/ \E s \in Opened : AttachItem(s) \/ DeferItem(s) \/ ResumeItem(s) \/ CloseStream(s)
     \/ WriteData(MaxWrite, FALSE) \/ WriteData(0, TRUE)

Spec == Init /\ [][Next]_vars

-----------------------------------------------------------------------------
Children(d) == {s \in Streams(t) : t.st[s].dep_prev = d}

(***************************************************************************)
(* The links form one tree below the root: a stream's children are exactly *)
(* the siblings behind dep_next, sib_prev undoes sib_next, no stream is    *)
(* its own ancestor (nghttp2_session_reprioritize_stream, unlink_dep,      *)
(* unlink_sib, nghttp2_stream_dep_insert_subtree).                         *)
(***************************************************************************)
OneTree ==
  \A d \in Streams(t) :
    LET kids == Sibs(t, t.st[d].dep_next)
    IN  /\ Range(kids) = Children(d) /\ Len(kids) = Cardinality(Children(d))
        /\ \A i \in DOMAIN kids : t.st[kids[i]].sib_prev = IF i = 1 THEN NULL ELSE kids[i - 1]
        /\ d # Root => Root \in Ancestors(t, d) /\ d \notin Ancestors(t, d)

(***************************************************************************)
(* sum_dep_weight is the sum of the children's weights, also after the     *)
(* weight of a removed stream was distributed: the divisor of              *)
(* nghttp2_stream_dep_distributed_weight is never 0.                       *)
(***************************************************************************)
SumsExact ==
  \A d \in Streams(t) : t.st[d].sum_dep_weight = MapThenSumSet(LAMBDA s : t.st[s].weight, Children(d))

(***************************************************************************)
(* A stream is queued in its parent's heap exactly when it or a descendant *)
(* has something to send: nothing that can be sent is passed over, and no  *)
(* search from the root ends in a stream that has nothing                  *)
(* (stream_obq_push, stream_obq_remove, stream_obq_move).                  *)
(***************************************************************************)
QueuedIffActive ==
  /\ \A d \in Streams(t) : /\ Range(t.st[d].obq) = {s \in Children(d) : t.st[s].queued}
                           /\ \A i \in DOMAIN t.st[d].obq : t.st[t.st[d].obq[i]].index = i - 1
  /\ \A s \in Streams(t) \ {Root} : t.st[s].queued <=> stream_subtree_active(t, s)

(***************************************************************************)
(* None at the top of a heap is behind another of the heap: the item sent  *)
(* next is that of a stream which has waited longest for its weight, also  *)
(* when the cycles wrap around (nghttp2_pq_remove,                         *)
(* nghttp2_stream_change_weight).  Moving a queued stream whose            *)
(* descendants are queued too resets the cycle they are counted from, and  *)
(* ends this.                                                              *)
(***************************************************************************)
LongestWaitingFirst ==
  ~moved => \A d \in Streams(t) : \A i \in DOMAIN t.st[d].obq : ~stream_less(t, t.st[d].obq[i], t.st[d].obq[1])

(***************************************************************************)
(* Idle and closed streams are each in one list, and closed streams are    *)
(* forgotten when they and the open ones exceed the limit                  *)
(* (nghttp2_session_adjust_closed_stream, nghttp2_session_open_stream).    *)
(***************************************************************************)
ListsBounded ==
  /\ IsInjective(t.idle) /\ Range(t.idle) = {s \in Streams(t) : t.st[s].state = "IDLE"}
  /\ IsInjective(t.closed) /\ Range(t.closed) = {s \in Streams(t) : t.st[s].state = "CLOSED"}
  /\ t.closed = <<>> \/ Len(t.closed) + Cardinality(Opened) <= num_stream_max
=============================================================================
