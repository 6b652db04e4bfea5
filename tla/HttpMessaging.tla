--------------------------- MODULE HttpMessaging ---------------------------
(***************************************************************************)
(* The HTTP message rules of nghttp2_http.c, as the session applies them   *)
(* to one stream while frames arrive: nghttp2_http_on_header for every     *)
(* field the inflater emits, the check at the end of a header block, the   *)
(* check of every piece of DATA, and the check at END_STREAM.  The code    *)
(* works on flags of the stream and sees one field or one piece of a body  *)
(* at a time; the reference below looks at the whole message.              *)
(*                                                                         *)
(* Bytes are numbers, so that the tables of allowed characters and         *)
(* parse_uint are the code's.  A field whose name lookup_token knows is    *)
(* given by that token, any other has token "other" and its name.  IntMax  *)
(* stands for INT64_MAX.                                                   *)
(***************************************************************************)
EXTENDS Integers, Sequences, SequencesExt, FiniteSets

CONSTANTS Families,   \* the messages received: see Without
          IntMax      \* the largest int64_t, at least 999

VARIABLES msg,        \* the message that arrives
          frame,      \* the frame being received
          at,         \* fields or bytes of that frame already handled
          stream,     \* the HTTP part of nghttp2_stream
          out,        \* what the application was given
          verdict     \* "open", "complete", or "reset" by RST_STREAM

vars == <<msg, frame, at, stream, out, verdict>>

(***************************************************************************)
(* A message is what a peer sends on one stream.  side says who receives   *)
(* it: "server", "client", or "push" for a client that gets a PUSH_PROMISE *)
(* and its response.  meth is what record_request_method or                *)
(* nghttp2_session_upgrade left in the flags of a client's stream.         *)
(***************************************************************************)
Message(side, meth, protocol, frames) ==
  [side |-> side, meth |-> meth, connect_protocol |-> protocol, frames |-> frames]

Fields(type, fields, es) == [type |-> type, fields |-> fields, n |-> 0, es |-> es]
Data(n, es) == [type |-> "DATA", fields |-> << >>, n |-> n, es |-> es]

(***************************************************************************)
(* A family of messages: frames of bases, with up to one field left out    *)
(* and up to one field of pool put in, anywhere.                           *)
(***************************************************************************)
Without(fs) ==
  {fs} \cup UNION {{[fs EXCEPT ![i].fields = RemoveAt(@, j)] : j \in DOMAIN fs[i].fields} :
                   i \in DOMAIN fs}
Within(fs, pool) ==
  {fs} \cup UNION {{[fs EXCEPT ![i].fields = InsertAt(@, j, nv)] :
                    j \in 1 .. Len(fs[i].fields) + 1, nv \in pool} :
                   i \in {k \in DOMAIN fs : fs[k].type # "DATA"}}

Digit == 48 .. 57
Upper == 65 .. 90
Lower == 97 .. 122
COLON == 58

(***************************************************************************)
(* The tables of allowed characters.                                       *)
(***************************************************************************)
VALID_AUTHORITY_CHARS ==
  Digit \cup Upper \cup Lower \cup {33, 58, 59, 61, 64, 91, 93, 95, 126} \cup 36 .. 46

VALID_HD_NAME_CHARS ==
  Digit \cup Lower \cup {33, 42, 43, 45, 46, 94, 95, 96, 124, 126} \cup 35 .. 39

VALID_HD_VALUE_CHARS == (32 .. 255 \ {127}) \cup {9}

Bytes(s) == {s[i] : i \in DOMAIN s}

downcase(c) == IF c \in Upper THEN c + 32 ELSE c

memieq(a, b) == Len(a) = Len(b) /\ \A i \in DOMAIN a : downcase(a[i]) = downcase(b[i])

(* -1 for anything but digits, and for a number above IntMax. *)
parse_uint(s) ==
  IF s = << >> THEN -1
  ELSE FoldLeft(LAMBDA n, c :
         IF n = -1 \/ c \notin Digit \/ n > IntMax \div 10 \/ n * 10 > IntMax - (c - 48)
         THEN -1 ELSE n * 10 + (c - 48), 0, s)

lws(s) == Bytes(s) \subseteq {32, 9}

check_header_name(s) ==
  LET rest == IF s # << >> /\ s[1] = COLON THEN Tail(s) ELSE s
  IN  rest # << >> /\ Bytes(rest) \subseteq VALID_HD_NAME_CHARS

check_header_value(s) == Bytes(s) \subseteq VALID_HD_VALUE_CHARS

check_authority(s) == Bytes(s) \subseteq VALID_AUTHORITY_CHARS

check_scheme(s) ==
  /\ s # << >> /\ s[1] \in Upper \cup Lower
  /\ Bytes(Tail(s)) \subseteq Upper \cup Lower \cup Digit \cup {43, 45, 46}

PseudoTokens == {":authority", ":method", ":path", ":scheme", ":protocol", ":status"}

(* nv->name->base[0] == ':' *)
Pseudo(nv) ==
  \/ nv.token \in PseudoTokens
  \/ nv.token = "other" /\ nv.name # << >> /\ nv.name[1] = COLON

ConnectionSpecific ==
  {"connection", "keep-alive", "proxy-connection", "transfer-encoding", "upgrade"}

HEAD == <<72, 69, 65, 68>>
CONNECT == <<67, 79, 78, 78, 69, 67, 84>>
OPTIONS == <<79, 80, 84, 73, 79, 78, 83>>
http == <<104, 116, 116, 112>>
https == http \o <<115>>
trailers == <<116, 114, 97, 105, 108, 101, 114, 115>>
SLASH == 47
ASTERISK == 42

(***************************************************************************)
(* The stream: http_flags as a set of names, the declared and the received *)
(* content length and the status; -1 is "not set".                         *)
(***************************************************************************)
METH_ALL == {"METH_CONNECT", "METH_HEAD", "METH_OPTIONS", "METH_UPGRADE_WORKAROUND"}

stream_init(meth) ==
  [http_flags |-> meth, content_length |-> -1, recv_content_length |-> 0, status_code |-> -1]

With(s, flags) == [s EXCEPT !.http_flags = @ \cup flags]

(* What a field came to: rv is "OK", "HTTP_HEADER", "IGN" or "REMOVE". *)
Ret(rv, s) == [rv |-> rv, stream |-> s]

check_pseudo_header(s, nv, flag) == flag \notin s.http_flags /\ ~lws(nv.value)

expect_response_body(s) ==
  /\ "METH_HEAD" \notin s.http_flags
  /\ s.status_code \div 100 # 1 /\ s.status_code \notin {304, 204}

check_path(s) ==
  \/ "SCHEME_HTTP" \notin s.http_flags
  \/ "PATH_REGULAR" \in s.http_flags
  \/ {"METH_OPTIONS", "PATH_ASTERISK"} \subseteq s.http_flags

(* The flags a pseudo header of a request, or Host, sets. *)
RequestFlags(nv) ==
  {nv.token} \cup
  CASE nv.token = ":method" ->
         (IF nv.value = HEAD THEN {"METH_HEAD"} ELSE {}) \cup
         (IF nv.value = CONNECT THEN {"METH_CONNECT"} ELSE {}) \cup
         (IF nv.value = OPTIONS THEN {"METH_OPTIONS"} ELSE {})
    [] nv.token = ":path" ->
         IF nv.value[1] = SLASH THEN {"PATH_REGULAR"}
         ELSE IF nv.value = <<ASTERISK>> THEN {"PATH_ASTERISK"} ELSE {}
    [] nv.token = ":scheme" ->
         IF memieq(nv.value, http) \/ memieq(nv.value, https) THEN {"SCHEME_HTTP"} ELSE {}
    [] OTHER -> {}

(* The fields both directions treat alike. *)
RegularOK(nv) ==
  /\ nv.token \notin ConnectionSpecific
  /\ nv.token = "te" => memieq(nv.value, trailers)
  /\ nv.token \in PseudoTokens \cup {"other"} => ~Pseudo(nv)

Seen(s, nv) == IF Pseudo(nv) THEN s ELSE With(s, {"PSEUDO_HEADER_DISALLOWED"})

SetLength(s, nv) ==
  LET n == parse_uint(nv.value)
  IN  IF s.content_length # -1 \/ n = -1 THEN Ret("HTTP_HEADER", s)
      ELSE Ret("OK", Seen([s EXCEPT !.content_length = n], nv))

PseudoTooLate(s, nv, trailer) ==
  Pseudo(nv) /\ (trailer \/ "PSEUDO_HEADER_DISALLOWED" \in s.http_flags)

http_request_on_header(s, nv, trailer, connect_protocol, pushed) ==
  CASE PseudoTooLate(s, nv, trailer) -> Ret("HTTP_HEADER", s)
    [] nv.token \in (PseudoTokens \ {":status"}) \cup {"host"} ->
         IF \/ nv.token = ":protocol" /\ ~connect_protocol
            \/ ~check_pseudo_header(s, nv, nv.token)
            \/ nv.token = ":method" /\ nv.value = CONNECT /\ pushed
         THEN Ret("HTTP_HEADER", s)
         ELSE Ret("OK", Seen(With(s, RequestFlags(nv)), nv))
    [] nv.token = "content-length" -> SetLength(s, nv)
    [] OTHER -> IF RegularOK(nv) THEN Ret("OK", Seen(s, nv)) ELSE Ret("HTTP_HEADER", s)

OnStatus(s, nv) ==
  LET n == parse_uint(nv.value)
  IN  IF ~check_pseudo_header(s, nv, ":status") \/ Len(nv.value) # 3 \/ n \in {-1, 101}
      THEN Ret("HTTP_HEADER", s)
      ELSE Ret("OK", [With(s, {":status"}) EXCEPT !.status_code = n])

(* A response to CONNECT and a 204 lose their content-length. *)
OnResponseLength(s, nv) ==
  CASE s.status_code = 204 ->
         IF s.content_length # -1 \/ nv.value # <<48>> THEN Ret("HTTP_HEADER", s)
         ELSE Ret("REMOVE", [s EXCEPT !.content_length = 0])
    [] s.status_code \div 100 = 1 -> Ret("HTTP_HEADER", s)
    [] s.status_code \div 100 = 2 /\ "METH_CONNECT" \in s.http_flags -> Ret("REMOVE", s)
    [] OTHER -> SetLength(s, nv)

http_response_on_header(s, nv, trailer) ==
  CASE PseudoTooLate(s, nv, trailer) -> Ret("HTTP_HEADER", s)
    [] nv.token = ":status" -> OnStatus(s, nv)
    [] nv.token = "content-length" -> OnResponseLength(s, nv)
    [] OTHER -> IF RegularOK(nv) THEN Ret("OK", Seen(s, nv)) ELSE Ret("HTTP_HEADER", s)

NameOK(nv) == nv.token = "other" => check_header_name(nv.name)

ValueOK(nv) ==
  CASE nv.token \in {":authority", "host"} -> check_authority(nv.value)
    [] nv.token = ":scheme" -> check_scheme(nv.value)
    [] OTHER -> check_header_value(nv.value)

HasUpper(nv) == nv.token = "other" /\ Bytes(nv.name) \cap Upper # {}

(***************************************************************************)
(* An illegal field is ignored, unless it is a pseudo header or its name   *)
(* has an upper case letter.                                               *)
(***************************************************************************)
http_on_header(m, f, s, nv, trailer) ==
  IF ~NameOK(nv) \/ ~ValueOK(nv) THEN
    IF Pseudo(nv) \/ (~NameOK(nv) /\ HasUpper(nv))
    THEN Ret("HTTP_HEADER", s)
    ELSE Ret("IGN", With(s, {"PSEUDO_HEADER_DISALLOWED"}))
  ELSE IF m.side = "server" \/ f.type = "PUSH_PROMISE"
       THEN http_request_on_header(s, nv, trailer, m.side = "server" /\ m.connect_protocol,
                                   m.side = "push")
       ELSE http_response_on_header(s, nv, trailer)

(***************************************************************************)
(* The checks at the end of a block; ERR stands for -1.                  *)
(***************************************************************************)
REQ_HEADERS == {":method", ":path", ":scheme"}

RequestComplete(s) ==
  IF ":protocol" \notin s.http_flags /\ "METH_CONNECT" \in s.http_flags
  THEN s.http_flags \cap {":scheme", ":path"} = {} /\ ":authority" \in s.http_flags
  ELSE /\ REQ_HEADERS \subseteq s.http_flags
       /\ s.http_flags \cap {":authority", "host"} # {}
       /\ ":protocol" \in s.http_flags => {"METH_CONNECT", ":authority"} \subseteq s.http_flags
       /\ check_path(s)

on_request_headers(s, f) ==
  IF ~RequestComplete(s) THEN Ret("ERR", s)
  ELSE LET t == IF ":protocol" \notin s.http_flags /\ "METH_CONNECT" \in s.http_flags
                THEN [s EXCEPT !.content_length = -1] ELSE s
       IN  Ret("OK", IF f.type = "PUSH_PROMISE"
                  THEN [t EXCEPT !.http_flags = @ \cap METH_ALL, !.content_length = -1]
                  ELSE t)

mutant_on_response_headers(s) ==
  CASE ":status" \notin s.http_flags -> Ret("ERR", s)
    [] s.status_code \div 100 = 1 ->
         Ret("OK", [s EXCEPT !.http_flags = (@ \cap METH_ALL) \cup {"EXPECT_FINAL_RESPONSE"},
                          !.content_length = -1, !.status_code = -1])
    [] OTHER ->
         LET t == [s EXCEPT !.http_flags = @ \ {"EXPECT_FINAL_RESPONSE"}]
         IN  Ret("OK", IF t.http_flags \cap {"METH_CONNECT", "METH_UPGRADE_WORKAROUND"} # {}
                    THEN [t EXCEPT !.content_length = -1] ELSE t)

on_response_headers(s) ==
  CASE ":status" \notin s.http_flags -> Ret("ERR", s)
    [] s.status_code \div 100 = 1 ->
         Ret("OK", [s EXCEPT !.http_flags = (@ \cap METH_ALL) \cup {"EXPECT_FINAL_RESPONSE"},
                          !.content_length = -1, !.status_code = -1])
    [] OTHER ->
         LET t == [s EXCEPT !.http_flags = @ \ {"EXPECT_FINAL_RESPONSE"}]
         IN  Ret("OK", IF ~expect_response_body(t) THEN [t EXCEPT !.content_length = 0]
                    ELSE IF t.http_flags \cap {"METH_CONNECT", "METH_UPGRADE_WORKAROUND"} # {}
                    THEN [t EXCEPT !.content_length = -1] ELSE t)

on_trailer_headers(f) == f.es

on_remote_end_stream(s) ==
  /\ "EXPECT_FINAL_RESPONSE" \notin s.http_flags
  /\ s.content_length # -1 => s.content_length = s.recv_content_length

on_data_chunk(s, n) ==
  LET t == [s EXCEPT !.recv_content_length = @ + n]
  IN  IF \/ "EXPECT_FINAL_RESPONSE" \in t.http_flags
         \/ t.content_length # -1 /\ t.recv_content_length > t.content_length
      THEN Ret("ERR", t) ELSE Ret("OK", t)

(***************************************************************************)
(* The steps of nghttp2_session_mem_recv that concern the stream.          *)
(***************************************************************************)
Frame == msg.frames[frame]

Busy == verdict = "open" /\ frame <= Len(msg.frames)

(* Whether a HEADERS frame opened the message: its category is then        *)
(* HCAT_REQUEST, HCAT_RESPONSE or HCAT_PUSH_RESPONSE, else HCAT_HEADERS.   *)
Opening == \A i \in 1 .. frame - 1 : msg.frames[i].type # "HEADERS"

session_trailer_headers ==
  /\ Frame.type = "HEADERS" /\ ~Opening
  /\ msg.side = "server" \/ "EXPECT_FINAL_RESPONSE" \notin stream.http_flags

Reset == verdict' = "reset"

NextFrame == frame' = frame + 1 /\ at' = 0

(***************************************************************************)
(* inflate_header_block: one field.  The application may have an illegal   *)
(* field treated as an error (session_call_on_invalid_header).             *)
(***************************************************************************)
OnHeader ==
  /\ Busy /\ Frame.type # "DATA" /\ at < Len(Frame.fields)
  /\ LET nv == Frame.fields[at + 1]
         r == http_on_header(msg, Frame, stream, nv, session_trailer_headers)
     IN  /\ stream' = r.stream
         /\ \E strict \in BOOLEAN :
              IF r.rv = "HTTP_HEADER" \/ (r.rv = "IGN" /\ strict)
              THEN /\ Reset
                   /\ out' = [out EXCEPT !.refused = r.rv = "IGN"]
                   /\ UNCHANGED at
              ELSE /\ at' = at + 1
                   /\ out' = IF r.rv = "OK" THEN [out EXCEPT !.fields = Append(@, nv)] ELSE out
                   /\ UNCHANGED verdict
  /\ UNCHANGED <<msg, frame>>

(* session_after_header_block_received *)
BlockResult ==
  CASE Frame.type = "PUSH_PROMISE" -> on_request_headers(stream, Frame)
    [] Opening /\ msg.side = "server" -> on_request_headers(stream, Frame)
    [] Opening \/ "EXPECT_FINAL_RESPONSE" \in stream.http_flags -> on_response_headers(stream)
    [] OTHER -> Ret(IF on_trailer_headers(Frame) THEN "OK" ELSE "ERR", stream)

EndHeaders ==
  /\ Busy /\ Frame.type # "DATA" /\ at = Len(Frame.fields)
  /\ LET r == BlockResult
     IN  /\ stream' = r.stream
         /\ IF r.rv = "ERR" \/ (Frame.es /\ ~on_remote_end_stream(r.stream))
            THEN Reset /\ UNCHANGED <<frame, at, out>>
            ELSE /\ verdict' = IF Frame.es THEN "complete" ELSE verdict
                 /\ out' = [out EXCEPT !.frames = Append(@, frame)]
                 /\ NextFrame
  /\ UNCHANGED msg

(* A piece of a DATA frame, as NGHTTP2_IB_READ_DATA gets it. *)
OnData ==
  /\ Busy /\ Frame.type = "DATA" /\ at < Frame.n
  /\ \E k \in 1 .. Frame.n - at :
       LET r == on_data_chunk(stream, k)
       IN  /\ stream' = r.stream
           /\ IF r.rv = "ERR" THEN Reset /\ UNCHANGED <<at, out>>
              ELSE /\ at' = at + k
                   /\ out' = [out EXCEPT !.body = @ + k]
                   /\ UNCHANGED verdict
  /\ UNCHANGED <<msg, frame>>

(* nghttp2_session_on_data_received *)
EndData ==
  /\ Busy /\ Frame.type = "DATA" /\ at = Frame.n
  /\ IF Frame.es /\ ~on_remote_end_stream(stream)
     THEN Reset /\ UNCHANGED <<frame, at, out>>
     ELSE /\ verdict' = IF Frame.es THEN "complete" ELSE verdict
          /\ out' = [out EXCEPT !.frames = Append(@, frame)]
          /\ NextFrame
  /\ UNCHANGED <<msg, stream>>

Init ==
  /\ \E family \in Families : \E base \in family.bases, meth \in family.meths :
       \E less \in Without(base) : \E fs \in Within(less, family.pool) :
         msg = Message(family.side, meth, family.protocol, fs)
  /\ frame = 1 /\ at = 0
  /\ stream = stream_init(msg.meth)
  /\ out = [fields |-> << >>, frames |-> << >>, body |-> 0, refused |-> FALSE]
  /\ verdict = "open"

Next == OnHeader \/ EndHeaders \/ OnData \/ EndData

Spec == Init /\ [][Next]_vars

(***************************************************************************)
(* The reference: the rules stated for a whole message.                    *)
(***************************************************************************)
Kept(f) == SelectSeq(f.fields, LAMBDA nv : NameOK(nv) /\ ValueOK(nv))
Of(f, token) == SelectSeq(Kept(f), LAMBDA nv : nv.token = token)
Has(f, token) == Of(f, token) # << >>
ValueOf(f, token) == Of(f, token)[1].value

(* The part of the rules that is common to all blocks. *)
BlockOK(f, pseudo) ==
  /\ \A i \in DOMAIN f.fields :
       LET nv == f.fields[i]
       IN  /\ ~NameOK(nv) \/ ~ValueOK(nv) => ~Pseudo(nv)
           /\ ~NameOK(nv) => ~HasUpper(nv)
           /\ Pseudo(nv) => nv.token \in pseudo /\ \A j \in 1 .. i - 1 : Pseudo(f.fields[j])
  /\ \A t \in pseudo : Len(Of(f, t)) <= 1 /\ (Has(f, t) => ~lws(ValueOf(f, t)))
  /\ \A t \in ConnectionSpecific : ~Has(f, t)
  /\ \A i \in DOMAIN Of(f, "te") : memieq(Of(f, "te")[i].value, trailers)

(* The numbers content-length fields give; -1 where one is no number. *)
Lengths(f) == [i \in DOMAIN Of(f, "content-length") |->
                 parse_uint(Of(f, "content-length")[i].value)]
LengthsOK(f) == Len(Lengths(f)) <= 1 /\ -1 \notin Bytes(Lengths(f))

Method(f) == IF Has(f, ":method") THEN ValueOf(f, ":method") ELSE << >>

RequestOK(m, f) ==
  LET tunnel == Method(f) = CONNECT /\ ~Has(f, ":protocol")
      web == Has(f, ":scheme") /\ \E s \in {http, https} : memieq(ValueOf(f, ":scheme"), s)
  IN  /\ BlockOK(f, REQ_HEADERS \cup {":authority"} \cup
                    IF m.side = "server" /\ m.connect_protocol THEN {":protocol"} ELSE {})
      /\ Len(Of(f, "host")) <= 1 /\ (Has(f, "host") => ~lws(ValueOf(f, "host")))
      /\ LengthsOK(f)
      /\ m.side = "push" => Method(f) # CONNECT
      /\ IF tunnel THEN ~Has(f, ":scheme") /\ ~Has(f, ":path") /\ Has(f, ":authority")
         ELSE /\ \A t \in REQ_HEADERS : Has(f, t)
              /\ Has(f, ":authority") \/ Has(f, "host")
              /\ Has(f, ":protocol") => Method(f) = CONNECT /\ Has(f, ":authority")
              /\ web => \/ ValueOf(f, ":path")[1] = SLASH
                        \/ ValueOf(f, ":path") = <<ASTERISK>> /\ Method(f) = OPTIONS

Status(f) == IF Has(f, ":status") THEN parse_uint(ValueOf(f, ":status")) ELSE -1
Interim(f) == Status(f) \div 100 = 1

MethodFlag(m, flag) ==
  \/ flag \in m.meth
  \/ m.side = "push" /\ flag = "METH_HEAD" /\ Method(m.frames[1]) = HEAD

(* Content-length of a response to CONNECT is dropped unread. *)
Dropped(m, f) == Status(f) \div 100 = 2 /\ MethodFlag(m, "METH_CONNECT")

ResponseOK(m, f) ==
  /\ BlockOK(f, {":status"})
  /\ Has(f, ":status") /\ Len(ValueOf(f, ":status")) = 3 /\ Status(f) \notin {-1, 101}
  /\ Interim(f) => ~Has(f, "content-length") /\ ~f.es
  /\ Status(f) = 204 => /\ Len(Of(f, "content-length")) <= 1
                        /\ Has(f, "content-length") => ValueOf(f, "content-length") = <<48>>
  /\ Status(f) # 204 /\ ~Dropped(m, f) => LengthsOK(f)

(* The block that opens the message proper: the request, or the response   *)
(* that is not an interim one; 0 if it did not come.                       *)
FinalAt(m) ==
  LET heads == {i \in DOMAIN m.frames :
                  m.frames[i].type = "HEADERS" /\ (m.side = "server" \/ ~Interim(m.frames[i]))}
  IN  IF heads = {} THEN 0 ELSE CHOOSE i \in heads : \A j \in heads : i <= j

(* The length that f, the opening block, binds the body to, or -1. *)
Declared(m, f) ==
  LET bodyless == MethodFlag(m, "METH_HEAD") \/ Status(f) \in {204, 304}
      free == IF m.side = "server" THEN Method(f) = CONNECT /\ ~Has(f, ":protocol")
              ELSE MethodFlag(m, "METH_CONNECT") \/ MethodFlag(m, "METH_UPGRADE_WORKAROUND")
      First(lengths) == IF lengths = << >> THEN -1 ELSE lengths[1]
  IN  IF m.side # "server" /\ bodyless THEN 0 ELSE IF free THEN -1 ELSE First(Lengths(f))

(* Trailers f, where the opening block declared the length. *)
TrailerOK(m, f, declared, dropped) ==
  /\ f.es /\ BlockOK(f, {})
  /\ m.side = "server" => Len(Of(f, "host")) <= 1 /\ (Has(f, "host") => ~lws(ValueOf(f, "host")))
  /\ ~dropped => LengthsOK(f) /\ (Has(f, "content-length") => declared = -1)

Body(m) == FoldLeft(LAMBDA n, f : n + f.n, 0, m.frames)

(* The message, with what its opening block, frame final, says. *)
FramesOK(m, final, declared, dropped) ==
  LET last == m.frames[Len(m.frames)]
      bound == IF /\ final < Len(m.frames) /\ last.type = "HEADERS" /\ Lengths(last) # << >>
                  /\ declared = -1 /\ ~dropped
               THEN Lengths(last)[1] ELSE declared
  IN  /\ \A i \in DOMAIN m.frames :
           LET f == m.frames[i]
           IN  CASE f.type = "PUSH_PROMISE" \/ (i = final /\ m.side = "server") -> RequestOK(m, f)
                 [] f.type = "DATA" -> f.n > 0 \/ f.es => final # 0 /\ final < i
                 [] OTHER -> IF final = 0 \/ i <= final THEN ResponseOK(m, f)
                             ELSE TrailerOK(m, f, declared, dropped)
      /\ final # 0 =>
           /\ declared # -1 => Body(m) <= declared
           /\ last.es /\ bound # -1 => Body(m) = bound

WellFormed(m) ==
  LET From(final) == FramesOK(m, final, Declared(m, m.frames[final]),
                              m.side # "server" /\ Dropped(m, m.frames[final]))
  IN  From(FinalAt(m))

(* The fields the application is to get: no illegal one, and no            *)
(* content-length that was dropped.                                        *)
Delivered(m) ==
  LET Drop(i, final) == /\ m.side # "server" /\ m.frames[i].type = "HEADERS" /\ final # 0
                        /\ \/ i = final /\ Status(m.frames[i]) = 204
                           \/ i >= final /\ Dropped(m, m.frames[final])
      Out(f, drop) == SelectSeq(Kept(f), LAMBDA nv : ~(drop /\ nv.token = "content-length"))
      From(final) == FlattenSeq([i \in DOMAIN m.frames |-> Out(m.frames[i], Drop(i, final))])
  IN  From(FinalAt(m))

Done == verdict = "complete" \/ (verdict = "open" /\ frame > Len(msg.frames))

(***************************************************************************)
(* Looking at one field and one piece of the body at a time, the session   *)
(* resets exactly the messages that break a rule, unless the application   *)
(* asked for it.                                                           *)
(***************************************************************************)
ResetIffMalformed ==
  Done \/ (verdict = "reset" /\ ~out.refused) => (WellFormed(msg) <=> Done)

(***************************************************************************)
(* The application gets the legal fields in order and nothing else: an     *)
(* illegal field is skipped, the content-length of a 204 and of a response *)
(* to CONNECT is taken out, and what follows an error is not delivered.    *)
(***************************************************************************)
LegalFieldsOnly ==
  /\ \E all \in {Delivered(msg)} : IF Done THEN out.fields = all
                                   ELSE IsPrefix(out.fields, all) \/ ~WellFormed(msg)
  /\ \A i \in DOMAIN out.fields : NameOK(out.fields[i]) /\ ValueOK(out.fields[i])

(***************************************************************************)
(* However DATA is cut, the application is never given a byte more than    *)
(* the content-length declared, or any byte before the final response: the *)
(* check of nghttp2_http_on_data_chunk comes before the callback.          *)
(***************************************************************************)
NothingBeyondLength ==
  out.body > 0 =>
    \E final \in {FinalAt(msg)} :
      /\ final # 0 /\ final < frame
      /\ \E n \in {Declared(msg, msg.frames[final])} : n # -1 => out.body <= n

=============================================================================
