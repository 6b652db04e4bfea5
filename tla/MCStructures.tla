---------------------------- MODULE MCStructures ----------------------------
(***************************************************************************)
(* The data structures below the sessions, main and its parser of URIs,    *)
(* and the budget of requests its threads share, on small instances.  They *)
(* do not depend on each other; part says which of them a behaviour is     *)
(* about; the variables of the others stay as they are initially, or 0.    *)
(***************************************************************************)
EXTENDS MCRequestBudget, StreamHash, Sequences, SequencesExt

\* StreamTree
CONSTANTS Ids, MAX_WEIGHT, Weights, MaxFrame, CycleMod, MaxIdle, num_stream_max, MaxOps, MaxPriorities
\* StreamMap
CONSTANTS Entries, Keys, INITIAL_TABLE_LENGTH, MaxTableLength, Nil
\* Memchunks
CONSTANTS N, Queues, MaxBytes, MaxWrite, MaxMemCalls
\* Main
CONSTANTS Options, Slots, Batches, Rtts, MaxBatches, SIZE_MAX
\* UrlParser
CONSTANT Inputs

VARIABLES part,
          t, tree_moved, nops, npri,
          table, key, next, size, held,
          st, said, kept, put, mem_calls, right,
          config, main_pc, h1req, nva, workers, thread, ready, left, stats, latency, batches,
          args, first, uri_pc, u, uri_config, reqlines

tree == <<t, tree_moved, nops, npri>>
map == <<table, key, next, size, held>>
mem == <<st, said, kept, put, mem_calls, right>>
main == <<config, main_pc, h1req, nva, workers, thread, ready, left, stats, latency, batches>>
uri == <<args, first, uri_pc, u, uri_config, reqlines>>
mcvars == <<part, vars, tree, map, mem, main, uri>>

Mixed == [k \in Keys |-> mix(k)]

St == INSTANCE StreamTree WITH moved <- tree_moved, MaxWrite <- MaxFrame
Sm == INSTANCE StreamMap WITH Mixed <- Mixed
Mem == INSTANCE Memchunks WITH calls <- mem_calls, MaxCalls <- MaxMemCalls
Mn == INSTANCE Main WITH pc <- main_pc, total_req_left <- left
Ur == INSTANCE UrlParser WITH pc <- uri_pc, config <- uri_config
\* The names that Inputs is made with
Un == INSTANCE UrlParser WITH pc <- uri_pc, config <- uri_config, Inputs <- {}

----------------------------------------------------------------------------
(* Main: the command lines.                                                *)

Cmd == [nclients |-> 1, nthreads |-> 1, nreqs |-> 1, rate |-> 0, m |-> 1,
        duration |-> 0, qps |-> 0, custom |-> <<>>, data |-> FALSE]
MCOptions ==
    {[Cmd EXCEPT !.nclients = c, !.nthreads = th, !.nreqs = n, !.rate = r,
                 !.duration = d, !.qps = q] :
        c \in 1..3, th \in 0..3, n \in {0, 100}, r \in {0, 2, 3}, d \in {0, 1}, q \in {0, 2}}
    \cup {[Cmd EXCEPT !.nclients = 4, !.nthreads = 3, !.nreqs = 2, !.m = m] : m \in {0, 1}}
    \cup {[Cmd EXCEPT !.custom = hs, !.data = d] : d \in BOOLEAN,
            hs \in SeqOf({":host", ":authority", ":method", ":path", "host", "user-agent", "x"}, 3)}

----------------------------------------------------------------------------
(* UrlParser: every short text after the scheme, every short second URI,   *)
(* ports at the limit of 16 bits, and URIs put together from their parts.  *)

Strings(S, n) == UNION {[1..m -> S] : m \in 0..n}
Text(s) == [text |-> s, parts |-> {}]
Whole(p) == [text |-> Un!Compose(p), parts |-> {p}]
Scheme == <<120, Un!COLON, Un!SLASH, Un!SLASH>>
UriChars == {97, 103, 48, Un!COLON, Un!AT, Un!LBRACKET, Un!RBRACKET, Un!PERCENT, Un!SLASH, Un!QUEST, Un!HASH}
PathChars == {97, Un!COLON, Un!SLASH, Un!STAR, Un!QUEST, Un!HASH, 32}
UriParts ==
  {p \in [scheme : {Un!HTTP, <<65>>}, at : BOOLEAN, userinfo : {<<>>, <<97, Un!COLON, Un!PERCENT>>},
          v6 : BOOLEAN, host : {<<97, 45, 57>>, <<Un!COLON, Un!COLON>>, <<Un!COLON, 97, Un!PERCENT, 122>>},
          port : {<<>>, <<48>>, <<54, 53, 53, 51, 53>>},
          path : {<<>>, <<Un!SLASH>>, <<Un!SLASH, 97, Un!SLASH, Un!SLASH, Un!AT>>},
          mark : BOOLEAN, query : {<<>>, <<97, Un!QUEST, Un!SLASH>>},
          hashes : 0..2, fragment : {<<>>, <<97, Un!HASH, Un!QUEST>>}] :
     Un!LegalParts(p) /\ (~p.mark => p.query = <<>>)}
SimpleParts ==
  {p \in UriParts : p.at /\ p.hashes = 1 /\ p.v6 /\ Len(p.path) < 2 /\ p.userinfo = <<>> /\ Len(p.host) = 2}
Ports == {<<54, 53, 53, 51, 54>>, <<48, 48, 48, 48, 56, 48>>, <<49, 48, 48, 48, 48, 48, 48, 48, 48, 48, 48, 48>>}
MCInputs ==
  {<<>>} \cup {<<Text(Scheme \o s)>> : s \in Strings(UriChars, 4)}
  \cup {<<Text(Scheme \o <<97, Un!COLON>> \o s)>> : s \in Ports}
  \cup {<<Text(Scheme \o <<97>>), Text(s)>> : s \in Strings(PathChars, 4)}
  \cup {<<Whole(p)>> : p \in UriParts}
  \cup {<<Whole(p), Whole(q)>> : p \in {r \in SimpleParts : r.port = <<>>}, q \in {r \in SimpleParts : r.port = <<48>>}}
----------------------------------------------------------------------------
(* The parts side by side.                                                 *)

IdleTree == t = 0 /\ tree_moved = 0 /\ nops = 0 /\ npri = 0
IdleMap == table = 0 /\ key = 0 /\ next = 0 /\ size = 0 /\ held = 0
IdleMem == st = 0 /\ said = 0 /\ kept = 0 /\ put = 0 /\ mem_calls = 0 /\ right = 0
IdleMain == /\ config = 0 /\ main_pc = 0 /\ h1req = 0 /\ nva = 0 /\ workers = 0
            /\ thread = 0 /\ ready = 0 /\ left = 0 /\ stats = 0 /\ latency = 0 /\ batches = 0
IdleUri == args = 0 /\ first = 0 /\ uri_pc = 0 /\ u = 0 /\ uri_config = 0 /\ reqlines = 0

MCInit ==
  /\ Init
  /\ \/ part = "budget" /\ IdleTree /\ IdleMap /\ IdleMem /\ IdleMain /\ IdleUri
     \/ part = "tree" /\ St!Init /\ IdleMap /\ IdleMem /\ IdleMain /\ IdleUri
     \/ part = "map" /\ IdleTree /\ Sm!Init /\ IdleMem /\ IdleMain /\ IdleUri
     \/ part = "mem" /\ IdleTree /\ IdleMap /\ Mem!Init /\ IdleMain /\ IdleUri
     \/ part = "main" /\ IdleTree /\ IdleMap /\ IdleMem /\ Mn!Init /\ IdleUri
     \/ part = "uri" /\ IdleTree /\ IdleMap /\ IdleMem /\ IdleMain /\ Ur!Init

MCNext ==
  \/ part = "budget" /\ Next /\ UNCHANGED <<part, tree, map, mem, main, uri>>
  \/ part = "tree" /\ St!Next /\ UNCHANGED <<part, vars, map, mem, main, uri>>
  \/ part = "map" /\ Sm!Next /\ UNCHANGED <<part, vars, tree, mem, main, uri>>
  \/ part = "mem" /\ Mem!Next /\ UNCHANGED <<part, vars, tree, map, main, uri>>
  \/ part = "main" /\ Mn!Next /\ UNCHANGED <<part, vars, tree, map, mem, uri>>
  \/ part = "uri" /\ Ur!Next /\ UNCHANGED <<part, vars, tree, map, mem, main>>

MCSpec == MCInit /\ [][MCNext]_mcvars

----------------------------------------------------------------------------
\* The links of nghttp2_stream.c form one tree, sum_dep_weight is the sum of the
\* children's weights, and idle and closed streams are bounded
\* (nghttp2_session_adjust_closed_stream).
TreeSound == part = "tree" => St!OneTree /\ St!SumsExact /\ St!ListsBounded

\* A stream is queued exactly when it or a descendant can send (stream_obq_push,
\* stream_obq_remove), and the one sent next has waited longest for its weight
\* (nghttp2_pq.c, nghttp2_stream_reschedule).
ScheduleFair == part = "tree" => St!QueuedIffActive /\ St!LongestWaitingFirst

\* nghttp2_map.c holds the streams inserted and not removed, through collisions
\* and growth.
MapIsExact == part = "map" => Sm!MapIsExact

\* Memchunks are byte queues whatever calls are made, the chunks of a pool are never
\* shared or lost, and what writev is given is the front of the queue (riovec,
\* limit_iovec).
QueuesSound == part = "mem" => Mem!QueuesAreExact /\ Mem!ChunksAccounted /\ Mem!IovecIsPrefix

\* main gives out all clients, all of the rate and all tokens, evenly; it creates
\* no worker without clients but in qps mode, where that worker's tokens are lost
\* exactly when there are more tokens than clients; and a thread starts when every
\* worker is complete.
SharesRight ==
  part = "main" => Mn!SharesExact /\ Mn!NoIdleWorker /\ Mn!ThreadsRunTheirWorker

\* main prints the final figures of all workers, adding up to -n, and percentiles
\* that are percentiles.
ResultsRight == part = "main" => Mn!BooksComplete /\ Mn!PercentilesRight

\* What main requests is what the command line says: it builds the same request for
\* HTTP/1.1 and HTTP/2, well formed exactly when -H gives neither :path nor host;
\* what http_parser_parse_url accepts is made of the fields it reports; and
\* parse_uris takes the server from the first URI and a request line from each.
RequestsRight ==
  /\ part = "main" => Mn!RequestsAgree
  /\ part = "uri" => Ur!FieldsMakeTheUri /\ Ur!UriMeansItsParts
=============================================================================
