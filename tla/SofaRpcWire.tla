---------------------------- MODULE SofaRpcWire -----------------------------
(***************************************************************************)
(* The bytes of a SofaRPC connection: the request main prepares once, the  *)
(* id that SofaRpcSession::submit_request writes into each copy, and       *)
(* SofaRpcSession::on_read, which takes responses out of a stream that     *)
(* arrives in arbitrary pieces.  SofaRpcWorker uses the result: a response *)
(* is a header, the close of its stream, and one more close for each later *)
(* read that brings a part of its body; with -d, no close at all.          *)
(*                                                                         *)
(* A byte has Base values (256 in the code), so that all widths shrink     *)
(* alike.  The server is external: it cuts requests out of what it         *)
(* receives by the lengths in their headers and answers in any order.      *)
(***************************************************************************)
EXTENDS Integers, Sequences, SequencesExt, FiniteSets, FiniteSetsExt, Functions

CONSTANTS
    Base,          \* values of a byte
    Args,          \* header arguments, "key:value;key:value"
    Class,         \* sofaRpcClassname
    Content,       \* the content of every request
    Bodies,        \* lengths of class, header and content of a response
    Statuses,      \* response statuses; 0 is RESPONSE_STATUS_SUCCESS
    Writes,        \* sizes of writes the socket takes only in part
    MaxRequests    \* bound on the requests of the connection

Colon == 1
Semicolon == 2

VARIABLES
    arg,           \* sofaRpcHeaderArg
    data,          \* -d: config.data_length is positive
    stream_req_counter_,
    streams,       \* the client's map of streams
    wb, up,        \* write buffer; what the server has received
    answers,       \* the responses sent, in order
    down,          \* bytes on their way to the client
    read_buffer_, bytes_to_discard_, last_stream_id_, last_respstatus_,
    statuses,      \* calls of on_sofarpc_status
    closes         \* calls of on_stream_close

session == <<read_buffer_, bytes_to_discard_, last_stream_id_, last_respstatus_,
             statuses, closes>>
vars == <<arg, data, streams, stream_req_counter_, wb, up, answers, down, session>>

REQUEST_HEADER_LEN_V1 == 22
RESPONSE_HEADER_LEN_V1 == 20
SUCCESS == 0

putBigEndianI16(s) == <<(s \div Base) % Base, s % Base>>
putBigEndianI32(i) == [j \in 1..4 |-> ((i % Base^4) \div Base^(4 - j)) % Base]

getBigEndianI16(b, j) == b[j + 1] * Base + b[j + 2]
Word(b, j) == FoldLeft(LAMBDA v, d : v * Base + d, 0, SubSeq(b, j + 1, j + 4))

getBigEndianI32(b, j) ==
    LET v == Word(b, j) IN IF v >= Base^4 \div 2 THEN v - Base^4 ELSE v

serializeMap(m) ==
    FoldLeft(LAMBDA b, k : b \o putBigEndianI32(Len(k)) \o k
                             \o putBigEndianI32(Len(m[k])) \o m[k],
             <<>>, SetToSeq(DOMAIN m))

\* The first c of a in i .. j-1, or j.
first(a, c, i, j) == Min({k \in i..j : k = j \/ a[k] = c})

\* The keys and values of an argument from i on; a part without a colon makes
\* the whole argument invalid.
RECURSIVE pairs(_, _)
pairs(a, i) ==
    IF i > Len(a) THEN <<>>
    ELSE LET j == first(a, Semicolon, i, Len(a) + 1)
             k == first(a, Colon, i, j)
         IN <<IF k = j THEN [bad |-> TRUE]
              ELSE [bad |-> FALSE, key |-> SubSeq(a, i, k - 1), value |-> SubSeq(a, k + 1, j - 1)]>>
            \o pairs(a, j + 1)

\* The header for an argument.  Its size counts every part, and a key that
\* comes twice is written once: the rest is whatever the memory held (0 here).
convertMap(a) ==
    LET ps == pairs(a, 1)
        keys == {ps[i].key : i \in DOMAIN ps}
        m == [k \in keys |-> ps[Max({i \in DOMAIN ps : ps[i].key = k})].value]
        total == FoldLeft(LAMBDA n, p : n + 8 + Len(p.key) + Len(p.value), 0, ps)
        b == serializeMap(m)
    IN IF \E i \in DOMAIN ps : ps[i].bad THEN <<>>
       ELSE b \o [i \in 1..(total - Len(b)) |-> 0]

\* The request main prepares: header, class name, header map and content.
request ==
    <<1, 1>> \o putBigEndianI16(1) \o <<1>> \o <<0, 0, 0, 0>> \o <<1>>
    \o putBigEndianI32(50)
    \o putBigEndianI16(Len(Class)) \o putBigEndianI16(Len(convertMap(arg)))
    \o putBigEndianI32(Len(Content))
    \o Class \o convertMap(arg) \o Content

Init == /\ arg \in Args /\ data \in BOOLEAN
        /\ stream_req_counter_ = 1 /\ streams = {}
        /\ wb = <<>> /\ up = <<>> /\ answers = <<>> /\ down = <<>>
        /\ read_buffer_ = <<>> /\ bytes_to_discard_ = 0
        /\ last_stream_id_ = -1 /\ last_respstatus_ = -1
        /\ statuses = <<>> /\ closes = <<>>

\* The copy of a request with its id in bytes 5 to 8, counted from 0.
patched(id) ==
    [j \in DOMAIN request |-> IF j \in 6..9 THEN putBigEndianI32(id)[j - 5] ELSE request[j]]

submit_request ==
    /\ stream_req_counter_ <= MaxRequests
    /\ wb' = wb \o patched(stream_req_counter_)
    /\ stream_req_counter_' = stream_req_counter_ + 1
    /\ streams' = streams \cup {stream_req_counter_}
    /\ UNCHANGED <<arg, data, up, answers, down, session>>

\* The socket takes any part of the write buffer.
write ==
    /\ wb # <<>>
    /\ \E n \in Writes \cup {Len(wb)} :
          /\ n <= Len(wb)
          /\ up' = up \o SubSeq(wb, 1, n)
          /\ wb' = SubSeq(wb, n + 1, Len(wb))
    /\ UNCHANGED <<arg, data, streams, stream_req_counter_, answers, down, session>>

\* The requests in a stream of bytes, as a server cuts them out.
RECURSIVE Requests(_)
Requests(b) ==
    IF Len(b) < REQUEST_HEADER_LEN_V1 THEN <<>>
    ELSE LET class == getBigEndianI16(b, 14)
             header == getBigEndianI16(b, 16)
             size == REQUEST_HEADER_LEN_V1 + class + header + Word(b, 18)
         IN IF Len(b) < size THEN <<>>
            ELSE <<[id |-> Word(b, 5), class |-> SubSeq(b, 23, 22 + class),
                    header |-> SubSeq(b, 23 + class, 22 + class + header),
                    content |-> SubSeq(b, 23 + class + header, size)]>>
                 \o Requests(SubSeq(b, size + 1, Len(b)))

Response(r) ==
    <<1, 0>> \o putBigEndianI16(2) \o <<1>> \o putBigEndianI32(r.id) \o <<1>>
    \o putBigEndianI16(r.status) \o putBigEndianI16(r.body.class)
    \o putBigEndianI16(r.body.header) \o putBigEndianI32(r.body.content)
    \o [j \in 1..(r.body.class + r.body.header + r.body.content) |-> 3]

Answer ==
    /\ \E q \in ToSet(Requests(up)), s \in Statuses, l \in Bodies :
          LET r == [id |-> q.id, status |-> s, body |-> l] IN
          /\ \A j \in DOMAIN answers : answers[j].id # q.id
          /\ answers' = Append(answers, r)
          /\ down' = down \o Response(r)
    /\ UNCHANGED <<arg, data, streams, stream_req_counter_, wb, up, session>>

\* int bodyLen, kept in a size_t: a sum beyond INT_MAX would become huge.
body_length(class, header, content) ==
    LET n == (class + header + content) % Base^4
    IN IF n >= Base^4 \div 2 THEN n - Base^4 + Base^8 ELSE n

\* The loop of on_read over [buf, left, id, status, statuses, closes, streams]:
\* discard what has arrived of a body and close its stream, then read a header if
\* there is a whole one.  data_offset stays 0 in SofaRPC, so that with -d a stream
\* the client knows is not closed.
RECURSIVE read_loop(_)
read_loop(s) ==
    LET n == Min({s.left, Len(s.buf)})
        drained == [s EXCEPT !.buf = SubSeq(@, n + 1, Len(@)), !.left = @ - n]
        closed == [drained EXCEPT !.closes = Append(@, <<s.id, s.status = SUCCESS>>),
                                  !.streams = @ \ {s.id}]
        t == CASE s.left = 0 -> s
               [] s.left # 0 /\ data /\ s.id \in s.streams -> drained
               [] OTHER -> closed
        id == getBigEndianI32(t.buf, 5)
        status == getBigEndianI16(t.buf, 10)
    IN IF Len(t.buf) < RESPONSE_HEADER_LEN_V1 THEN t
       ELSE read_loop([t EXCEPT
                !.buf = SubSeq(@, RESPONSE_HEADER_LEN_V1 + 1, Len(@)),
                !.left = body_length(getBigEndianI16(t.buf, 12), getBigEndianI16(t.buf, 14),
                                     Word(t.buf, 16)),
                !.id = id, !.status = status,
                !.statuses = Append(@, <<id, status>>)])

mutant_on_read(n) ==
    LET s == read_loop([buf |-> read_buffer_ \o SubSeq(down, 1, n), left |-> bytes_to_discard_,
                        id |-> last_stream_id_, status |-> last_respstatus_,
                        statuses |-> statuses, closes |-> closes, streams |-> streams])
    IN /\ read_buffer_' = <<>> /\ bytes_to_discard_' = s.left
       /\ last_stream_id_' = s.id /\ last_respstatus_' = s.status
       /\ statuses' = s.statuses /\ closes' = s.closes /\ streams' = s.streams

\* on_read of the next n bytes
on_read(n) ==
    LET s == read_loop([buf |-> read_buffer_ \o SubSeq(down, 1, n), left |-> bytes_to_discard_,
                        id |-> last_stream_id_, status |-> last_respstatus_,
                        statuses |-> statuses, closes |-> closes, streams |-> streams])
    IN /\ read_buffer_' = s.buf /\ bytes_to_discard_' = s.left
       /\ last_stream_id_' = s.id /\ last_respstatus_' = s.status
       /\ statuses' = s.statuses /\ closes' = s.closes /\ streams' = s.streams

Read == /\ \E n \in 1..Len(down) :
              /\ on_read(n)
              /\ down' = SubSeq(down, n + 1, Len(down))
        /\ UNCHANGED <<arg, data, stream_req_counter_, wb, up, answers>>

Next == submit_request \/ write \/ Answer \/ Read

Spec == Init /\ [][Next]_vars

-----------------------------------------------------------------------------

\* What an argument says, read without the code's scan: its parts between
\* semicolons, each split at its first colon.
Meaning(a) ==
    LET ends == {i \in 1..Len(a) + 1 : i = Len(a) + 1 \/ a[i] = Semicolon}
        starts == {1} \cup {i + 1 : i \in ends}
        parts == {SubSeq(a, i, Min({j \in ends : j >= i}) - 1) :
                     i \in {i \in starts : i <= Len(a)}}
        colon(p) == Min({j \in DOMAIN p : p[j] = Colon})
    IN IF \E p \in parts : Colon \notin Range(p) THEN {}
       ELSE {<<SubSeq(p, 1, colon(p) - 1), SubSeq(p, colon(p) + 1, Len(p))>> : p \in parts}

\* deserializeMap, as a set of pairs.
RECURSIVE deserializeMap(_)
deserializeMap(b) ==
    IF b = <<>> THEN {}
    ELSE LET k == getBigEndianI32(b, 0)
             v == getBigEndianI32(b, 4 + k)
         IN {<<SubSeq(b, 5, 4 + k), SubSeq(b, 9 + k, 8 + k + v)>>}
            \cup deserializeMap(SubSeq(b, 9 + k + v, Len(b)))

\* The server cuts exactly the requests submitted out of the bytes written: ids
\* 1, 2, ... in order, with the class name, the header map of the argument and
\* the content, however the writes are cut (h2load_sofarpc_session.cc:42-65,
\* h2load.cc:2185-2203, util.cc:1593-1685).
RequestsFramed ==
    LET rs == Requests(up \o wb) IN
    /\ Len(rs) = stream_req_counter_ - 1
    /\ \A i \in DOMAIN rs :
          /\ rs[i].id = i /\ rs[i].class = Class /\ rs[i].content = Content
          /\ deserializeMap(rs[i].header) = Meaning(arg)

\* The responses the client sees are those the server sent, in their order,
\* each with its own id and status, and none is missed once all bytes are in,
\* however they are cut into reads (h2load_sofarpc_session.cc:68-113).
ResponsesInStep ==
    /\ \A i \in DOMAIN statuses : statuses[i] = <<answers[i].id, answers[i].status>>
    /\ down = <<>> => /\ Len(statuses) = Len(answers)
                      /\ read_buffer_ = <<>> /\ bytes_to_discard_ = 0

\* A stream is closed only by its own response and with its status, in the
\* order of the responses; each response with a body closes its stream when its
\* header is read, and one without a body never does; with -d no response closes
\* its stream (h2load_sofarpc_session.cc:77-88).
ClosedByOwnResponse ==
    LET withBody == SelectSeq(SubSeq(answers, 1, Len(statuses)),
                       LAMBDA r : r.body.class + r.body.header + r.body.content > 0)
        distinct == FoldLeft(LAMBDA s, c : IF s # <<>> /\ Last(s) = c THEN s ELSE Append(s, c),
                             <<>>, closes)
    IN distinct = IF data THEN <<>>
                  ELSE [i \in DOMAIN withBody |-> <<withBody[i].id, withBody[i].status = SUCCESS>>]
=============================================================================
