----------------------------- MODULE UrlParser -----------------------------
(***************************************************************************)
(* The URIs of the command line: http_parser_parse_url of                  *)
(* third-party/url-parser, built with HTTP_PARSER_STRICT, and parse_uris   *)
(* of h2load.cc, which takes the server from the first URI and a request   *)
(* line from each.  A character is its code.                               *)
(***************************************************************************)
EXTENDS Integers, Sequences, FiniteSets, SequencesExt

CONSTANT Inputs     \* the sequences of arguments: records of a text and of the
                    \* set of parts (one or none) it was put together from

VARIABLES args,     \* the URIs of argv
          first,    \* the iterator of parse_uris
          pc,       \* "base", "loop", "done" or "exit"
          u,        \* what the last call of http_parser_parse_url left
          config,   \* scheme, host, default_port and port
          reqlines

vars == <<args, first, pc, u, config, reqlines>>

AT == 64
COLON == 58
SLASH == 47
QUEST == 63
HASH == 35
STAR == 42
PERCENT == 37
LBRACKET == 91
RBRACKET == 93

----------------------------------------------------------------------------
(* Character classes.                                                      *)

IS_ALPHA(c) == c \in (65..90) \cup (97..122)
IS_NUM(c) == c \in 48..57
IS_ALPHANUM(c) == IS_ALPHA(c) \/ IS_NUM(c)
IS_HEX(c) == IS_NUM(c) \/ c \in (65..70) \cup (97..102)

\* - _ . ! ~ * ' ( )
IS_MARK(c) == c \in {45, 95, 46, 33, 126, STAR, 39, 40, 41}

\* also % ; : & = + $ ,
IS_USERINFO_CHAR(c) == IS_ALPHANUM(c) \/ IS_MARK(c) \/ c \in {PERCENT, 59, COLON, 38, 61, 43, 36, 44}

IS_URL_CHAR(c) == c \in (33..126) \ {HASH, QUEST}

IS_HOST_CHAR(c) == IS_ALPHANUM(c) \/ c \in {46, 45}

\* the characters of a zone of an IPv6 address
IsZoneChar(c) == IS_ALPHANUM(c) \/ c \in {PERCENT, 46, 45, 95, 126}

----------------------------------------------------------------------------
(* The first pass: the parts of the URI.  A state is named as in the code, *)
(* without the prefix s_req_.                                              *)

ServerChar(c) ==
  CASE c = SLASH -> "path"
    [] c = QUEST -> "query_string_start"
    [] c = AT -> "server_with_at"
    [] IS_USERINFO_CHAR(c) \/ c \in {LBRACKET, RBRACKET} -> "server"
    [] OTHER -> "dead"

parse_url_char(s, c) ==
  CASE s = "spaces_before_url" /\ c \in {SLASH, STAR} -> "path"
    [] s \in {"spaces_before_url", "schema"} /\ IS_ALPHA(c) -> "schema"
    [] s = "schema" /\ c = COLON -> "schema_slash"
    [] s = "schema_slash" /\ c = SLASH -> "schema_slash_slash"
    [] s = "schema_slash_slash" /\ c = SLASH -> "server_start"
    [] s = "server_with_at" /\ c = AT -> "dead"
    [] s \in {"server_with_at", "server_start", "server"} /\ ~(s = "server_with_at" /\ c = AT) -> ServerChar(c)
    [] s = "path" /\ IS_URL_CHAR(c) -> "path"
    [] s \in {"query_string_start", "query_string"} /\ (IS_URL_CHAR(c) \/ c = QUEST) -> "query_string"
    [] s = "path" /\ c = QUEST -> "query_string_start"
    [] s \in {"path", "query_string_start", "query_string", "fragment_start"} /\ c = HASH -> "fragment_start"
    [] s = "fragment_start" /\ (IS_URL_CHAR(c) \/ c = QUEST) -> "fragment"
    [] s = "fragment" /\ (IS_URL_CHAR(c) \/ c \in {QUEST, HASH}) -> "fragment"
    [] OTHER -> "dead"

UF == {"SCHEMA", "HOST", "PORT", "PATH", "QUERY", "FRAGMENT", "USERINFO"}

FieldOf(s) ==
  CASE s = "schema" -> "SCHEMA"
    [] s \in {"server", "server_with_at"} -> "HOST"
    [] s = "path" -> "PATH"
    [] s = "query_string" -> "QUERY"
    [] s = "fragment" -> "FRAGMENT"
    [] OTHER -> "none"      \* a delimiter

http_parser_url_init == [ok |-> TRUE, field_set |-> {}, port |-> 0, off |-> [f \in UF |-> 0], len |-> [f \in UF |-> 0]]

\* A field starts at index i (from 0) of the buffer, with n characters of it seen;
\* offsets and lengths are uint16_t.
StartField(r, f, i, n) ==
  [r EXCEPT !.field_set = @ \cup {f}, !.off[f] = i % 65536, !.len[f] = n]

GrowField(r, f) == [r EXCEPT !.len[f] = (@ + 1) % 65536]

Pass1 == [s |-> "spaces_before_url", old_uf |-> "none", found_at |-> FALSE, i |-> 0, u |-> http_parser_url_init]

Step1(a, c) ==
  LET s == IF a.s = "dead" THEN "dead" ELSE parse_url_char(a.s, c)
      uf == FieldOf(s)
  IN  [s |-> s, old_uf |-> IF uf = "none" THEN a.old_uf ELSE uf, found_at |-> a.found_at \/ s = "server_with_at",
       i |-> a.i + 1,
       u |-> IF uf = "none" THEN a.u
             ELSE IF uf = a.old_uf THEN GrowField(a.u, uf) ELSE StartField(a.u, uf, a.i, 1)]

----------------------------------------------------------------------------
(* The second pass: user information, host and port.  States without the   *)
(* prefix s_http_.                                                         *)

http_parse_host_char(s, c) ==
  CASE s \in {"userinfo", "userinfo_start"} /\ c = AT -> "host_start"
    [] s \in {"userinfo", "userinfo_start"} /\ IS_USERINFO_CHAR(c) -> "userinfo"
    [] s = "host_start" /\ c = LBRACKET -> "host_v6_start"
    [] s \in {"host_start", "host"} /\ IS_HOST_CHAR(c) -> "host"
    [] s \in {"host", "host_v6_end"} /\ c = COLON -> "host_port_start"
    [] s \in {"host_v6", "host_v6_zone"} /\ c = RBRACKET -> "host_v6_end"
    [] s \in {"host_v6", "host_v6_start"} /\ (IS_HEX(c) \/ c \in {COLON, 46}) -> "host_v6"
    [] s = "host_v6" /\ c = PERCENT -> "host_v6_zone_start"
    [] s \in {"host_v6_zone", "host_v6_zone_start"} /\ IsZoneChar(c) -> "host_v6_zone"
    [] s \in {"host_port", "host_port_start"} /\ IS_NUM(c) -> "host_port"
    [] OTHER -> "host_dead"

Step2(a, c) ==
  LET s == IF a.s = "host_dead" THEN "host_dead" ELSE http_parse_host_char(a.s, c)
      Run(f) == GrowField(IF s = a.s THEN a.u ELSE StartField(a.u, f, a.i, 0), f)
  IN  [s |-> s, i |-> a.i + 1,
       u |-> CASE s \in {"host", "host_v6"} ->
                    GrowField(IF s = a.s THEN a.u ELSE [a.u EXCEPT !.off["HOST"] = a.i % 65536], "HOST")
               [] s \in {"host_v6_zone_start", "host_v6_zone"} -> GrowField(a.u, "HOST")
               [] s = "host_port" -> Run("PORT")
               [] s = "userinfo" -> Run("USERINFO")
               [] OTHER -> a.u]

Refused(r) == [r EXCEPT !.ok = FALSE]

http_parse_host(buf, r, found_at) ==
  LET off == r.off["HOST"]
      end == FoldLeft(Step2, [s |-> IF found_at THEN "userinfo_start" ELSE "host_start", i |-> off,
                              u |-> [r EXCEPT !.len["HOST"] = 0]],
                      SubSeq(buf, off + 1, off + r.len["HOST"]))
  IN  IF end.s \in {"host", "host_v6_end", "host_port"} THEN end.u ELSE Refused(end.u)

get_uri_field(buf, r, f) ==
  IF f \in r.field_set THEN SubSeq(buf, r.off[f] + 1, r.off[f] + r.len[f]) ELSE <<>>

\* the number, or more than 0xffff as soon as that is exceeded
PortNumber(digits) == FoldLeft(LAMBDA v, c : IF v > 65535 THEN v ELSE 10 * v + (c - 48), 0, digits)

WithPort(buf, r) ==
  LET v == PortNumber(get_uri_field(buf, r, "PORT"))
  IN  IF "PORT" \notin r.field_set THEN r ELSE IF v > 65535 THEN Refused(r) ELSE [r EXCEPT !.port = v]

\* http_parser_parse_url with is_connect 0
http_parser_parse_url(buf) ==
  LET p1 == FoldLeft(Step1, Pass1, buf)
      r == IF "HOST" \in p1.u.field_set THEN http_parse_host(buf, p1.u, p1.found_at) ELSE p1.u
  IN  CASE buf = <<>> \/ p1.s = "dead" -> Refused(p1.u)
        [] p1.s # "dead" /\ "SCHEMA" \in p1.u.field_set /\ "HOST" \notin p1.u.field_set -> Refused(p1.u)
        [] OTHER -> IF r.ok THEN WithPort(buf, r) ELSE r

----------------------------------------------------------------------------
(* h2load.                                                                 *)

HTTP == <<104, 116, 116, 112>>

get_default_port(scheme) == IF scheme = HTTP THEN 80 ELSE 443

mutant_get_reqline(buf, r) ==
  (IF "PATH" \in r.field_set THEN get_uri_field(buf, r, "PATH") ELSE <<>>)
  \o (IF "QUERY" \in r.field_set THEN <<QUEST>> \o get_uri_field(buf, r, "QUERY") ELSE <<>>)

get_reqline(buf, r) ==
  (IF "PATH" \in r.field_set THEN get_uri_field(buf, r, "PATH") ELSE <<SLASH>>)
  \o (IF "QUERY" \in r.field_set THEN <<QUEST>> \o get_uri_field(buf, r, "QUERY") ELSE <<>>)

parse_base_uri(buf, r) ==
  LET scheme == get_uri_field(buf, r, "SCHEMA")
      default_port == get_default_port(scheme)
  IN  [scheme |-> scheme, host |-> get_uri_field(buf, r, "HOST"), default_port |-> default_port,
       port |-> IF "PORT" \in r.field_set THEN r.port ELSE default_port]

Init ==
  /\ args \in Inputs
  /\ first = 1
  /\ pc = "base"
  /\ u = http_parser_url_init
  /\ config = [scheme |-> <<>>, host |-> <<>>, default_port |-> 0, port |-> 0]
  /\ reqlines = <<>>

NoUri ==
  /\ pc = "base" /\ args = <<>>
  /\ pc' = "exit"
  /\ UNCHANGED <<args, first, u, config, reqlines>>

\* No base URI is set before, so that the server is that of the first URI.
ParseBase ==
  /\ pc = "base" /\ args # <<>>
  /\ u' = http_parser_parse_url(args[1].text)
  /\ IF u'.ok /\ {"SCHEMA", "HOST"} \subseteq u'.field_set
     THEN /\ config' = parse_base_uri(args[1].text, u')
          /\ pc' = "loop"
     ELSE /\ pc' = "exit"
          /\ UNCHANGED config
  /\ UNCHANGED <<args, first, reqlines>>

ParseUri ==
  /\ pc = "loop" /\ first <= Len(args)
  /\ u' = http_parser_parse_url(args[first].text)
  /\ IF u'.ok
     THEN /\ reqlines' = Append(reqlines, get_reqline(args[first].text, u'))
          /\ first' = first + 1
          /\ UNCHANGED pc
     ELSE pc' = "exit" /\ UNCHANGED <<reqlines, first>>
  /\ UNCHANGED <<args, config>>

Return ==
  /\ pc = "loop" /\ first = Len(args) + 1
  /\ pc' = "done"
  /\ UNCHANGED <<args, first, u, config, reqlines>>

Next == NoUri \/ ParseBase \/ ParseUri \/ Return

Spec == Init /\ [][Next]_vars

----------------------------------------------------------------------------
(* Properties.                                                             *)

\* The text of a URI with the given parts: at tells whether user information is
\* there, v6 whether the host is in brackets, mark whether there is a query, and
\* hashes how many number signs come before the fragment.
Compose(p) ==
  (IF p.scheme = <<>> THEN <<>>
   ELSE p.scheme \o <<COLON, SLASH, SLASH>>
        \o (IF p.at THEN Append(p.userinfo, AT) ELSE <<>>)
        \o (IF p.v6 THEN <<LBRACKET>> \o p.host \o <<RBRACKET>> ELSE p.host)
        \o (IF p.port = <<>> THEN <<>> ELSE <<COLON>> \o p.port))
  \o p.path
  \o (IF p.mark THEN <<QUEST>> \o p.query ELSE <<>>)
  \o [i \in 1..p.hashes |-> HASH] \o p.fragment

\* The parts that the fields of r give for the text buf.
PartsOf(buf, r, at, v6, mark, hashes) ==
  LET T(f) == get_uri_field(buf, r, f)
  IN  [scheme |-> T("SCHEMA"), userinfo |-> T("USERINFO"), host |-> T("HOST"), port |-> T("PORT"),
       path |-> T("PATH"), query |-> T("QUERY"), fragment |-> T("FRAGMENT"),
       at |-> at, v6 |-> v6, mark |-> mark, hashes |-> hashes]

All(s, Class(_)) == \A i \in DOMAIN s : Class(s[i])

IsV6Char(c) == IS_HEX(c) \/ c \in {COLON, 46}

LegalParts(p) ==
  /\ p.scheme # <<>> => p.host # <<>>
  /\ ~p.at => p.userinfo = <<>>
  /\ IF p.v6
     THEN \E n \in 1..Len(p.host) :
            /\ All(SubSeq(p.host, 1, n), IsV6Char)
            /\ n < Len(p.host) => /\ p.host[n + 1] = PERCENT /\ n + 2 <= Len(p.host)
                                  /\ All(SubSeq(p.host, n + 2, Len(p.host)), IsZoneChar)
     ELSE All(p.host, IS_HOST_CHAR)
  /\ All(p.userinfo, IS_USERINFO_CHAR) /\ All(p.port, IS_NUM)
  /\ p.path # <<>> => p.path[1] = SLASH \/ (p.scheme = <<>> /\ p.path[1] = STAR)
  /\ p.hashes > 0 => (p.path # <<>> \/ p.mark)
  /\ p.hashes = 0 => p.fragment = <<>>

\* At the call of http_parser_parse_url that was last made the text was this.
Parsed == IF pc = "loop" /\ first > 1 THEN args[first - 1].text ELSE args[IF pc = "exit" THEN first ELSE 1].text

\* What http_parser_parse_url accepts is a URI made of the fields it reports, put
\* together with their delimiters in the one order there is: no character is lost,
\* counted twice or given to the wrong field by its two passes, and every
\* part is of the characters it may have and the port the number it spells.
FieldsMakeTheUri ==
  pc \in {"loop", "exit"} /\ args # <<>> /\ u.ok =>
    /\ \E at, v6, mark \in BOOLEAN, hashes \in 0..Len(Parsed) :
         LET p == PartsOf(Parsed, u, at, v6, mark, hashes)
         IN  LegalParts(p) /\ Compose(p) = Parsed
    /\ "PORT" \in u.field_set => u.port = PortNumber(get_uri_field(Parsed, u, "PORT")) /\ u.port <= 65535

\* A URI put together from legal parts is never refused, and once
\* parse_uris is done the server is that of the first URI alone and
\* each request line is the path of its own URI, "/" if it has none, and its query
\* if that is not empty.
UriMeansItsParts ==
  LET Given(i) == args[i].parts
      Line(p) == (IF p.path = <<>> THEN <<SLASH>> ELSE p.path)
                 \o (IF p.query = <<>> THEN <<>> ELSE <<QUEST>> \o p.query)
  IN  /\ pc = "exit" /\ args # <<>> => Given(first) = {}
      /\ pc = "done" =>
           /\ \A p \in Given(1) :
                /\ config.scheme = p.scheme /\ config.host = p.host
                /\ config.port = IF p.port = <<>> THEN get_default_port(p.scheme) ELSE PortNumber(p.port)
           /\ Len(reqlines) = Len(args)
           /\ \A i \in 1..Len(args) : \A p \in Given(i) : reqlines[i] = Line(p)
============================================================================
