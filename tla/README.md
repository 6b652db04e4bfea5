# A TLA+ model of sofaload

sofaload is a load generator for HTTP/1.1, HTTP/2 and SofaRPC, derived from
h2load of nghttp2. This directory holds TLA+ modules that model its core, the
TLC configurations that check them on small instances, and TLAPS proofs of the
properties that matter most for every instance.

`PROJECT.json` maps each definition to the lines it models, and lists the runs,
the faulty variants that show that the properties can fail, the findings and the
hazards.

## 1. The system

### Parts

| part | source | state | operations |
|---|---|---|---|
| `main` | `src/h2load.cc` from 1660 | `Config`, the atomic `total_req_left`, `total_req_send` | parse options, resolve the host, divide clients, rate and qps among threads, start and join the threads, merge `Stats` |
| `Worker` | `h2load.cc`, `h2load.h` | libev loop, `clients`, `stats`, `current_phase`, `qpsLeft`, `clientsBlockedDueToQps`, timers | `run`, `duration_timeout_cb`, `warmup_timeout_cb`, `update_worker_qpsLeft`, `stop_all_clients` |
| `Client` | `h2load.cc`, `h2load.h` | socket, `wb`, `streams`, `req_inflight`, `readfn` and `writefn`, connection timers, address list | `connect`, `connected`, `tls_handshake`, `connection_made`, `submit_request`, `on_stream_close`, `try_again_or_fail`, `fail`, `disconnect`, `timeout`, reads and writes |
| SofaRPC session | `h2load_sofarpc_session.cc` | read buffer, bytes to discard, current stream and status | `submit_request`, `on_read`, `on_write`, `terminate` |
| HTTP/1.1 session | `h2load_http1_session.cc` | request and response counters, parser, `complete_` | the same, and the parser's callbacks |
| HTTP/2 session | `h2load_http2_session.cc` | an nghttp2 session | the same, and nghttp2's callbacks |
| Memchunks | `memchunk.h` | list and pool of chunks | append, remove, drain, `riovec` |
| nghttp2 | `lib/` | session, streams and their priorities, frames, HPACK tables, containers | the library's API |

### How they interact

`main` starts one thread per worker. The threads share only the two atomic
counters. A worker runs one event loop, so its callbacks never overlap. Each
client owns one connection and, once it is connected, one session. The session
calls back into the client (`on_stream_close`), which takes the next request from
the shared budget (`submit_request`) and hands it to the session, which appends
it to the client's write buffer. The HTTP/2 session does so through an nghttp2
session: that one queues frames, packs them into buffers with the header
compressor, and the write callback moves them to the write buffer; what is read
goes through the frame reader, the decompressor and the rules of HTTP messages
to the callbacks that end a stream.

### What is hard

- Threads race on the last requests of the budget.
- A response arrives in any number of reads, and SofaRPC closes the stream at
  each of them.
- Connections end in many ways (end of stream, a failing write, two timers, a
  response that says so, the end of the run), each with requests in flight.
- The write buffer and the list of clients waiting for tokens outlive a
  connection.
- Requests issued in one phase (warm-up, main, over) are answered in another.
- The loop ends only if no watcher is left, or somebody breaks it.
- In HTTP/2 frames of both ends cross on the wire: settings, window updates,
  resets and GOAWAY arrive when the other end has moved on.
- A read may end inside anything, and a write may take part of anything.
- Two tables, or a table and its index, must change alike: those of the header
  compressor and decompressor, the priority tree and its queues.

`PROJECT.json` lists these hazards at the lines where they bite.

## 2. Modules

| module | models |
|---|---|
| `Worker` | the only worker of a run (`-t 1`) and its clients: everything but the protocol |
| `SofaRpcWorker` | `Worker` with the SofaRPC session and its server |
| `Http1Worker` | `Worker` with the HTTP/1.1 session (without request bodies) and its server |
| `SofaRpcWire` | the bytes of a SofaRPC connection: requests, ids, responses in pieces |
| `Http1Body` | HTTP/1.1 requests with a body (`-d`) |
| `RequestBudget` | the threads' single accesses to the shared counters |
| `Main` | `main`: options, requests, shares, threads, statistics |
| `UrlParser` | the URIs of the command line |
| `Memchunks` | the byte queues and their pool |
| `H2Session` | one nghttp2 session, as operators from session to session |
| `H2Pair` | two of them, joined by a connection |
| `Exchange` | what a connection promises about requests (abstract) |
| `Http2Client` | a client of h2load on top of `H2Pair` |
| `InboundFrame` | the frame reader of nghttp2, on bytes |
| `FrameBuffers` | the frame packer, the buffer chain and the send loop |
| `Hpack`, `Huffman` | header compression |
| `HttpMessaging` | the rules of HTTP messages |
| `StreamTree` | the priority tree and its heaps |
| `StreamMap`, `StreamHash` | the hash map of streams |
| `MCSofaRpc`, `MCHttp1`, `MCHttp2` | instances for one protocol each |
| `MCCodec` | the instances of the modules on bytes and messages |
| `MCStructures`, `MCRequestBudget` | the instances of the structures, `Main` and the budget |
| `RequestBudget_proofs` | theorems on the budget |
| `Worker_proofs` | lemmas on the operators of `Worker` |
| `WorkerSteps_proofs` | each action of `Worker` keeps the invariant |
| `SofaRpcWorker_proofs`, `Http1Worker_proofs` | the theorems on a worker of each protocol |

### Worker

The run has one thread; what more of them add to the shared counters is the
subject of `RequestBudget`. A callback is one action, with every call it makes.
The exception is `readcb`: its read loop goes on while the socket has data, and
the server may send more in the meantime. So each read is an action, and `running`
names the client whose read loop is executing. No other callback starts until
`ReadDrained`, `ReadEof` or a failing read ends it.

State, where it is not the field of the same name:

- `sock` summarises `fd`, `session` and `writefn`. `"none"` and `"unreached"`
  have no socket; `"unreached"` is left by a connect that was not completed, and
  keeps `writefn = connected`. `"connecting"`, `"tls"` and `"open"` are the
  stages of a connection.
- `wev` is the write watcher. The read watcher is active exactly when `sock` is
  `"tls"` or `"open"`.
- `timer` is the set of connection timers that run (`-T`, `-N`).
- `addr` counts the addresses left in `next_addr`.
- `wb` and `srv` hold request numbers: what waits in the write buffer, and what
  the server has received and not answered. `issued` is the last number of the
  connection.
- `inq` is what the next reads return.
- `streams` holds the open streams of all clients as pairs.
- `granted` is a history variable: tokens handed out in qps mode.

Loops of the code are closed forms. `submit_requests` stands for n calls of
`submit_request`, of which `Granted(n)` succeed. `update_worker_qpsLeft` serves
the last entries of the list at once.

Data that no property tells apart is left out: byte counts, times, round trip
times, the content of requests and responses. A write takes whole requests from
`wb`; a request of which a part was written counts as still in `wb`.

A client without a session that gets a token (`h2load.cc:1142`) has its request
counted and its write watcher started. `StaleWrite` and `ConnectFailed` are what
its `writecb` then does.

### SofaRpcWorker

`ReadHeader` is `on_read` at a header: it records the status and, if the response
has a body, discards what is there and closes the stream. `ReadRest` is `on_read`
at more of the same body: it closes the stream again. A response without a body
closes nothing. With a file of `-d` that is not empty (`data`) the test of
`h2load_sofarpc_session.cc:84` fails for each stream the client knows, because
SofaRPC never advances `data_offset`: no stream is closed. The server answers each
request once, in any order, in up to `MaxPieces` reads.

### Http1Worker

`ReadStatus` and `ReadComplete` are the parser's callbacks. `ReadFinal` is a
response that ends the connection: the client reconnects if budget is left.
`Abort` is the failing `assert(req_stat)`. The server answers in order; what is
left in `wb` at a reconnect is sent on the new connection, as the code does.

### RequestBudget

`on_stream_close` makes a load of the budget before it issues a request, and
`submit_request` three accesses: a load, a decrement that returns the old value,
an increment of `total_req_send`. This module interleaves them for any number of
threads. For one thread `OneThreadIsAtomic` says that they behave as one step,
which is how `Worker` takes them; for more, `BudgetNotExceeded` fails, and
`LedgerIsExact` and `RaceWindowBounded` say what is left. `Width` is the number of
values of `size_t`.

### SofaRpcWire and Http1Body

`SofaRpcWire` has `on_read` on bytes that arrive in any pieces. Its
`ResponsesInStep` and `ClosedByOwnResponse` are what `SofaRpcWorker` takes for
granted: a response is a header, one close of its own stream, and one more close
for each later read that brings a part of its body; with `-d`, no close at all. A
byte has `Base` values.

`Http1Body` has the body of `-d` that `session_on_write` sends in pieces as `wb`
empties, while the response may already be complete and the connection may go.
Requests are not pipelined then.

### Main and UrlParser

`Main` has the checks of the options, the requests prepared as HTTP/1.1 text and
as HTTP/2 fields from the same headers (custom ones of `-H` replace some and are
added otherwise), `share` (the loop that divides clients,
rate and tokens), one thread per worker that waits on the condition variable,
the joins, the sums and the percentiles. `UrlParser` has both passes of
`http_parser_parse_url` over character codes, `parse_base_uri`, `parse_uris` and
`get_reqline`.

### H2Session, H2Pair, Exchange and Http2Client

A session is a record, and an operator is a function of `nghttp2_session.c` or
`nghttp2_submit.c` from the session before to the session after: `add_item` and
the three outbound queues, `mem_send` in its three steps (prepare, send, after
sending), one `on_..._received` per frame, windows and their updates, SETTINGS in
flight and their ACK, the limits on streams, GOAWAY, closing and destroying.
Frames are whole, header blocks empty, DATA is a number of units; the other
modules have what is left out here.

`H2Pair` joins a client and a server by two sequences of frames in transit. Its
scenarios say which calls the applications may make and how often. A transport
that blocks keeps the prepared frame in `aob`.

`Exchange` is the abstract specification: for each request of the client, whether
it is unknown, refused or closed at the client, and whether the server has
processed and answered it. `Implements` maps `H2Pair` to it.

`Http2Client` replaces the client's application by h2load's: `Http2Session`, its
callbacks, and the parts of `Client` they call. `wb` lies between the session
and the wire; the properties whose name ends in `WithBuffer` are those of
`H2Pair` with `wb` counted as part of the wire.

### InboundFrame, FrameBuffers, Hpack, HttpMessaging

`InboundFrame` is `nghttp2_session_mem_recv`: one action per state of the reader,
on bytes that arrive in any pieces. `FrameBuffers` is the opposite direction:
`nghttp2_frame_pack_*`, padding in place, CONTINUATION, and a send callback that
takes any part; memory is octet by octet and keeps what an earlier frame left.
`Hpack` is a deflater and an inflater with the blocks and the settings between
them. `HttpMessaging` compares the flags the code keeps while fields and DATA
arrive one by one with a definition of a well-formed message as a whole.

### StreamTree, StreamMap and Memchunks

Pointer structures, link by link, each against what it stands for: a tree in
which a stream is queued exactly when something below it can be sent, a function
from ids to streams, queues of bytes.

## 3. Runs

Passing runs:

| run | instance | checks |
|---|---|---|
| `sofa_nreq` | 2 clients, `-n 3 -m 2 -T`, with and without `-d`, responses in 1 or 2 reads, with and without body, good and bad | types; the budget is conserved and what was taken from it is counted as started; `req_not_issued` cannot wrap; gone clients hold nothing; timeouts are errors and errors failures; at most `-m` streams; requests in flight are under the timer |
| `sofa_timing` | 2 clients over TLS, `-D`, 2 addresses | nothing is counted in the warm-up; in flight stays within the open streams across the change of phase |
| `sofa_qps` | 2 clients, `--qps`, up to 4 tokens | no token is lost or used twice; each slot of a connected client is a stream or waits for a token; nothing is counted after the duration |
| `sofa_ends` | 1 client, 3 pipelined requests | the loop ends, also when the session is terminated with a write buffer above its threshold |
| `http1_nreq` | 2 clients, `-n 4 -m 2 -N`, closing responses | `BooksAreExact`: in flight is exactly the open streams, at most `-m`; gone clients hold nothing; `req_not_issued` cannot wrap. The streams are a contiguous window of the pipeline |
| `http2` | the scenarios of `MCHttp2`: those of two sessions whose applications do as they like, those of h2load against a server | see below |
| `codec` | `InboundFrame`, `Hpack`, `FrameBuffers`, `HttpMessaging`, `SofaRpcWire`, `Http1Body` | see below |
| `structures` | `StreamTree`, `StreamMap`, `Memchunks`, `Main`, `UrlParser`, `RequestBudget` with 3 threads | see below |

`codec` and `structures` each check several modules that do not depend on each
other: the variable `part` says which one a behaviour is about, and each property
is about its own part.

A property of these three runs joins the related properties of one module,
each of which has its own definition and comment there.

`http2`:

- `RequestsAccounted`: a request is counted once although a request that is not
  sent is closed by two callbacks; a success was answered in full by the server.
  The budget is charged before the session may refuse the request, so a GOAWAY
  costs requests that are never started: none are lost before it, and with the
  open streams they are at most `-m`.
- `StreamsSettled`: h2load and nghttp2 agree on the open streams, at most `-m` of
  them; nghttp2 closes each once and its counters are exact.
- `EndsInStep`: credit is neither lost nor made (window, bytes received and
  updates in transit add up); the settings in force, in flight and acknowledged
  of one end match what the other end has; at rest both agree on the streams. This
  holds after a GOAWAY too, as long as the end still reads.
- `NoFalseAccusation`: between two ends that follow the protocol there is no
  connection error, and no stream is reset for flow control on account of a frame
  that arrives. (One may be on account of the end's own WINDOW_UPDATE: `h2_shrink`.)
- `NothingHangs`: when no step is left, no request is left open and the client of
  h2load has disconnected.
- `Implements`: what becomes of the requests is a behaviour of `Exchange`.

`codec`:

- `ReaderInStep`, `FramesReadExactly` (`InboundFrame`): the reader is in step with
  the frames however they are cut, waits for no byte it does not need, and its
  arrays suffice; it delivers exactly what was sent, folds SETTINGS to the last
  value of each (with the smallest table size kept), and refuses only malformed
  frames.
- `TablesSound`, `BlocksSurvive` (`Hpack`): both tables are equal after every block
  and change of size, the encoder's map has exactly the entries of its table,
  sizes are within bounds, never-indexed values enter no table; every block fits
  `deflate_bound`, is accepted, and the fields arrive as sent.
- `FramesRoundTrip`, `BuffersSuffice` (`FrameBuffers`): unpacking what was packed
  gives the frame, also padded and in several buffers, with END_HEADERS on the
  last one; nothing is written outside a buffer, nothing is left between frames,
  what fits the limit fits the chain.
- `MessageRulesKept` (`HttpMessaging`): a stream is reset exactly if its message is
  malformed; only legal fields are delivered, and no byte beyond `content-length`.
- `WireInStep` (`SofaRpcWire`): the server can cut the requests apart and each has
  its id; the reader is in step with the responses; a stream is closed by its own
  response only, with `-d` by none.
- `BodiesSettled`, `OnlyTheServerIsAwaited` (`Http1Body`): a stream is closed once,
  when its response is complete and its body handed over; every body follows its
  own head; a request is counted once; at rest only the server is awaited.

`structures`:

- `TreeSound`, `ScheduleFair` (`StreamTree`): the links form one tree, the sums of
  weights are exact, closed and idle streams stay within their limits; a stream
  is queued exactly if it or a descendant can send, and the one that waited
  longest for its weight goes first.
- `MapIsExact` (`StreamMap`): the table is the function it stands for.
- `QueuesSound` (`Memchunks`): each queue is what its callers put in and did not take
  out, each chunk is in one place, and `riovec` describes a prefix.
- `SharesRight`, `ResultsRight` (`Main`): the shares add up and differ by at most one;
  no worker is without client except in qps mode, where its tokens are lost exactly
  if there are fewer clients than threads and than tokens; a thread runs when all
  workers are complete; the sums have every request, and percentiles are the nearest
  ranks.
- `RequestsRight` (`Main`, `UrlParser`): both forms of a request have the same
  method, authority and other fields; that of HTTP/2 is well formed exactly if
  `-H` gives no `:path`, that of HTTP/1.1 exactly if `-H` gives no `host`; the
  fields cut the text into the parts of a URI; server and request line mean what
  it means.
- `LedgerIsExact`, `RaceWindowBounded` (`RequestBudget`): until the counter wraps the
  ledger is exact, and the race exceeds the budget by less than the number of
  threads.

Runs that show a disagreement between the code and its comments or documentation:

| run | what happens |
|---|---|
| `sofa_hang` | a client connects after the others used up the budget. It issues nothing, nobody terminates it, and without `-T` or `-N` the loop never ends |
| `http1_assert` | requests left in the write buffer are sent again after a reconnect; the extra responses reach `assert(req_stat)` |
| `budget_race` | two threads see the last request, `total_req_left` wraps around, and more than `-n` requests are sent |
| `h2_shrink` | a WINDOW_UPDATE is queued, a smaller initial window is acknowledged, the update is sent: the check that follows it, with 0 new bytes, resets the stream with FLOW_CONTROL_ERROR. The scenario is one of `http2` too, whose `NoFalseAccusation` holds: no arriving frame is at fault |

### Bounds

- Two clients are enough for one to use up the budget, end or wait while the
  other acts; three threads for two to race while the third has taken a request.
- `-m 2` gives pipelining and out-of-order answers. `-n 3` is more than one
  window, so a stream is reused and the budget ends in the middle of a window. HTTP/1.1
  has `-n 4`, so that a connection can end after a response was counted and still
  leave budget for a new one.
- `MaxAnswers` and `MaxTokens` bound the responses and the tokens. Past the bound
  the server is silent, which it may be anyway.
- `Backoff = 2` lets the write buffer be below and at its threshold.
- `MaxPieces = 2` has a second close of one stream; more reads repeat it.
- `NReqs = 1` in the timed runs stands for `SIZE_MAX`: the budget is positive until
  the duration is over.
- `http2`: windows of 4 and frames of 2 units, so that a body of 5 needs updates of
  both windows; `MAX_WINDOW_SIZE = 8` lets a window overflow. Each scenario combines
  two or three kinds of event, which keeps it small; all kinds together are out
  of reach.
- `codec`: byte values, tables and buffers are shrunk so that each limit is
  reached: 2 buckets in the encoder's map, tables of two entries, buffers that a
  header block of a few fields overflows, numbers that overflow at `IntMax`.
- `structures`: three streams besides the root and six operations suffice for a
  stream to be made to depend on its descendant, removed, and its weight shared
  out; `CycleMod = 16` lets cycles wrap; keys that collide before and after the
  table doubles; chunks of 2 bytes.
- `http1_nreq` reaches `Abort` too (a request left in `wb` is answered on the next
  connection). Its invariants hold there as well; that the assertion fails at all
  is the subject of `http1_assert`.

Deadlock is checked in every passing run of a worker; `Finished` is the end of the
worker. `sofa_hang` switches it off, since the loop that waits for ever is its
subject. `http2`, `codec` and `structures` switch it off because a behaviour ends
when its scenario's calls are used up. That nothing ends too early there is what
`NothingHangs` and `OnlyTheServerIsAwaited` say of every state in which no step is
left.

### Fairness

`FairSpec` of `SofaRpcWorker` is used by `sofa_ends` and `sofa_hang`. libev serves
each watcher that is ready and each timer that expired, so each callback is
fair; it is strongly fair because a read loop of another client disables it for a
while. Connects end one way or the other, and the server answers what it has
received. The server closing a connection is not fair.

## 4. Proofs

What follows holds for any number of clients or threads and any configuration that
satisfies the assumptions of the modules (`ConfigAssumption`, `SofaAssumption`,
`Http1Assumption`, `BudgetAssumption`). These say which constants are numbers and
booleans, that the set of clients is finite, that `--qps` needs `-D`, and that
`--qps` is not used over TLS.

**RequestBudget.** `LedgerCorrect`, `RaceCorrect` and `OneThreadCorrect`. The
inductive invariant of the first two is their conjunction with the types.
`RaceWindowBounded` alone is not inductive: `Load` needs the ledger to know that
`total_req_left > 0` means `taken < NReqs`, and `Decrement` needs the types to
know when the counter wraps. `OneThreadCorrect` adds that the counter has not
wrapped and that a thread past a load still finds a request (`Alone`): with one
thread no other decrement comes between.

**SofaRpcWorker and Http1Worker.** `TypeCorrect`, `BudgetCorrect`, `NotIssuedCorrect`,
`InflightCorrect` and `WarmUpCorrect`, all from `Invariant`
(`Spec => []Inv`), where `Inv` is `TypeOK` and `Balanced`:

- `Books`: the four properties themselves (`BudgetConserved` is about a run of one
  thread, and says that what was taken from the budget is counted as started) as
  statements on the statistics, the requests in flight and the set of streams
  (`Ledger`), that this set is finite, and that no stream has a number beyond
  `issued`. The last is needed because new streams must be new: otherwise the
  number of open streams does not grow with the requests started, and
  `req_inflight` exceeds it.
- `Opened`: only clients with a session have streams. It is needed where a
  connect fails and nothing is abandoned.
- `Fresh`: before `run` there is no stream.

`Ledger` takes the statistics, the requests in flight and the streams as
parameters, because `on_stream_close` passes intermediate values on:
`CloseLedger` and `UnknownLedger` show that closing a known and an unknown stream
keep it, `AbandonLedger` that giving up a connection does, and `SubmitBooks` that
issuing requests does. `ClientStepBooks`, `WorkerStepBooks` and
`EnvironmentBooks` have one case per action. These lemmas are about `Worker` and
serve both protocols; a protocol adds its own reads and its server. In
`Http1Worker` the new case is `ReadFinal`, which closes one stream and abandons
the others in one step: `CloseLedger` followed by `AbandonLedger`.

Only model-checked: `GoneClientsAreSettled`, `ErrorsWithinFailures`,
`ConcurrencyBounded`, `LimitedWhileBusy`, `TokensConserved`, `SlotsConserved`,
`NothingCountedAfterwards`, `InflightIsExact`, `PipelineIsContiguous`, `RunEnds`, and
everything in the runs `http2`, `codec` and `structures` other than the budget.
Liveness under fairness is outside what the proof system supports, and so is
what the recursive operators of `StreamTree`, `StreamMap`, `Memchunks`,
`SofaRpcWire`, `Http1Body` and `Http2Client` compute. The types of
`Http1Worker` and `OneThreadIsAtomic` are proved only.

## 5. Not modelled

- **`--qps` over TLS**: there `writecb` of a client without a connection uses a
  connection object that is gone.
- **Timing scripts**: `request_timeout_watcher` is initialised and stopped, and
  nothing starts it.
- **Times and byte counters**, and what is computed from them (except percentiles).
- **HTTP/1.1**: parse errors, and a data file that cannot be read.
- **nghttp2**: extension, ALTSVC and ORIGIN frames in `H2Session` (`FrameBuffers` and
  `InboundFrame` have them); callbacks that fail,
  except those that supply DATA; exhausted memory; reference counts
  (`nghttp2_rcbuf.c`); `nghttp2_queue.c`, which no other file uses; options,
  setters and debug output.
- **`main`**: option parsing, name resolution, reading URIs from a file, printing.
  A header of `-H` is a name; names that begin with a colon other than those main
  overrides behave like `:path`.
- **`UrlParser`**: CONNECT targets; texts beyond 64k, where 16-bit offsets end.
- **Memchunks**: `PeekMemchunks`, which h2load does not use.
- llhttp and the Huffman tables (generated), TLS set-up, and stateless helpers.

Seen while reading, and not covered by a run:

- `on_stream_close` terminates a session as soon as the shared budget is used up
  (`h2load.cc:744`), with up to `-m` minus 1 streams still open, which are then
  reported as failed; `h2load.h:140` speaks of a client that 'processed all
  requests it is responsible for'.
- In the warm-up a SofaRPC response in two reads closes its stream twice and
  issues a request each time (`h2load_sofarpc_session.cc:85`): more than `-m`
  streams. In qps mode the entries of a client in the list of blocked clients
  survive its disconnect (`h2load.cc:470`): they use up tokens, and an HTTP/1.1
  client that reconnects after a closing response holds more than `-m` slots, so
  that `SlotsConserved` is a property of SofaRPC clients, which do not reconnect.
  The list is served from its back (`h2load.cc:1140`): the front may wait for ever.
- With `-d` a SofaRPC stream is never closed (`h2load_sofarpc_session.cc:84`): a
  client issues its first `-m` requests and no more. The data itself is not sent.
- `-H ':path: x'` adds a second `:path` behind the regular fields in HTTP/2 and is
  dropped in HTTP/1.1; `-H 'host: x'` gives a second Host line (`h2load.cc:2117`).
- `h2load.h:188` calls `req_failed` a subset of `req_done`, but abandoned requests
  are failed and not done.
- The `-T` timer is only started by a request that is granted in the main phase
  (`h2load.cc:498`).
- With fewer clients than threads, qps shares go to workers without clients
  (`h2load.cc:2371`).
- A SofaRPC request has a fixed class name, header and content (`h2load.cc:2187`);
  the options for them are read and overwritten.
- The connection rate of `-r` is divided among the workers and then used nowhere;
  `Worker::run` connects all clients at once.
- In the main phase a SofaRPC response in two reads decrements `req_inflight` twice
  (`h2load.cc:706`), so that `req_inflight` may be below the number of open
  streams; `InflightIsExact` is therefore a property of HTTP/1.1 only.
- `nghttp2_stream_dep_remove_subtree` resets a stream's cycle through
  `stream_obq_remove` (`nghttp2_stream.c:195`), so that a moved stream starts anew.
- After an early response to an HTTP/1.1 request with a body, what is left of the
  body in `wb` goes to the next connection, like the requests of `http1_assert`.
- `http_parser_parse_url` refuses a URI with a fragment directly after the host.

## 6. Plan

1. Proofs for `Worker`: tokens, errors within failures, nothing counted afterwards,
   the contiguous pipeline, `-m`.
2. Proofs for `H2Session`: conservation of credit and `ClosedOnce`, for any windows.
3. Proofs for `Main` (shares) and `StreamMap`, with recursion written as functions.
4. `Http2Client` inside `Worker`, with phases and qps, when its instances allow it.
