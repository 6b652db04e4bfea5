------------------------------- MODULE Worker -------------------------------
(***************************************************************************)
(* The worker thread of a run with one thread (-t 1), and its clients.     *)
(*                                                                         *)
(* A worker runs one libev loop.  Its callbacks (readcb, writecb, the      *)
(* timers) never overlap, so a callback is one action; the only callback   *)
(* that is cut into steps is readcb, whose read loop can be fed by the     *)
(* network while it runs: `running' names the client whose read loop is    *)
(* executing, and until it ends no other callback of the worker starts.    *)
(* The budget total_req_left is shared by all threads.  With one thread    *)
(* the single accesses that on_stream_close and submit_request make to it  *)
(* are part of one callback and nothing comes between them; what several   *)
(* threads do to it between two accesses is the subject of RequestBudget.  *)
(*                                                                         *)
(* The protocol of a connection (the Session classes) is added by the      *)
(* modules that extend this one.  A request is identified by its client    *)
(* and its number on the connection; the protocol numbers (1, 2, 3 .. for  *)
(* SofaRPC, 1, 3, 5 .. for HTTP) are an injective function of it.          *)
(*                                                                         *)
(* Definitions named mutant_... are faulty variants of the definition that *)
(* follows them; they show that the properties can fail.                   *)
(***************************************************************************)
EXTENDS Integers, Sequences, FiniteSets

CONSTANTS
  Clients,            \* the clients of this worker
  NoClient,           \* "no read loop is running"
  NReqs,              \* -n; with -D any positive number, for SIZE_MAX; with
                      \* --qps the duration times the rate
  MaxConcurrent,      \* -m, max_concurrent_streams
  Timing,             \* -D is given
  Tls,                \* the scheme is https
  Qps,                \* --qps is given (only together with -D)
  ActiveTimeout,      \* -T is given
  InactivityTimeout,  \* -N is given
  NAddrs,             \* addresses the host name resolved to
  Backoff,            \* requests in wb that fill BACKOFF_WRITE_BUFFER_THRES
  QpsCounts,          \* the values qps_counts_ holds
  MaxTokens,          \* bound: tokens the qps timer hands out
  MayClose            \* the server may close a connection

ASSUME ConfigAssumption ==
  /\ IsFiniteSet(Clients) /\ NoClient \notin Clients
  /\ NReqs \in Nat \ {0} /\ MaxConcurrent \in Nat \ {0}
  /\ Tls \in BOOLEAN /\ Timing \in BOOLEAN
  /\ Qps \in BOOLEAN /\ (Qps => Timing /\ ~Tls)   \* --qps over TLS is left out
  /\ ActiveTimeout \in BOOLEAN /\ InactivityTimeout \in BOOLEAN
  /\ NAddrs \in Nat \ {0} /\ Backoff \in Nat \ {0}
  /\ QpsCounts \subseteq Nat /\ MaxTokens \in Nat
  /\ MayClose \in BOOLEAN

VARIABLES
  \* the atomic counters of the process
  total_req_left, total_req_send,
  \* Worker
  current_phase, stats, qpsLeft, blocked, granted,
  loop,          \* "start": before run, "running": in ev_run, "done"
  brk,           \* ev_break was called
  running,       \* the client whose readcb is in its read loop
  \* Client
  sock,          \* "connecting", "tls", "open" (session set), or Gone (fd = -1)
  wev,           \* the write watcher is active
  timer,         \* which of conn_active_watcher, conn_inactivity_watcher run
  addr,          \* addresses left in the list next_addr
  req_inflight,
  wb,            \* numbers of the requests in the write buffer
  streams,       \* pairs <<client, number>> of the open streams
  \* Session
  issued,        \* requests submitted on the current connection
  terminated,    \* terminate() was called on the session
  \* the connection, as the server and the network hold it
  srv,           \* requests the server has and did not answer, in order
  inq            \* what the next reads return

sharedVars == <<total_req_left, total_req_send>>
loopVars == <<loop, brk, running>>
connVars == <<sock, wev, timer, addr>>
sessVars == <<streams, issued, terminated>>
netVars == <<srv, inq>>
qpsVars == <<qpsLeft, blocked, granted>>
workerVars == <<sharedVars, qpsVars, loopVars, connVars, sessVars, netVars,
                current_phase, stats, req_inflight, wb>>

Main == current_phase = "MAIN_DURATION"

NoStats ==
  [req_started |-> 0, req_done |-> 0, req_status_success |-> 0,
   req_failed |-> 0, req_error |-> 0, req_timedout |-> 0]

StatsType ==
  [req_started : Nat, req_done : Nat, req_status_success : Nat,
   req_failed : Nat, req_error : Nat, req_timedout : Nat]

MinOf(a, b) == IF a <= b THEN a ELSE b

\* the end of stream, or a reset, as the read loop meets it
Eof == [type |-> "eof"]

\* the server has closed the connection and sends nothing more on it
Ended(c) == inq[c] # <<>> /\ inq[c][Len(inq[c])] = Eof

\* fd = -1.  "unreached": the last connect did not complete, so that writefn is
\* still Client::connected
Gone == {"none", "unreached"}

Inactivity == IF InactivityTimeout THEN {"inactivity"} ELSE {}
-----------------------------------------------------------------------------
(***************************************************************************)
(* What the methods of Client do, as conjuncts of the actions below.       *)
(***************************************************************************)

\* what disconnect leaves of a socket when s is wanted next
SockAfter(c, s) ==
  IF s = "none" /\ sock[c] \in {"connecting", "unreached"} THEN "unreached" ELSE s

\* Client::disconnect of the clients D, which are left with socket s, write
\* watcher w and timers t.  wb, req_inflight and the worker's list of blocked
\* clients are not touched.
Teardown(D, s, w, t) ==
  /\ sock' = [c \in Clients |-> IF c \in D THEN SockAfter(c, s) ELSE sock[c]]
  /\ wev' = [c \in Clients |-> IF c \in D THEN w ELSE wev[c]]
  /\ timer' = [c \in Clients |-> IF c \in D THEN t ELSE timer[c]]
  /\ streams' = {x \in streams : x[1] \notin D}
  /\ issued' = [c \in Clients |-> IF c \in D THEN 0 ELSE issued[c]]
  /\ terminated' = [c \in Clients |-> c \notin D /\ terminated[c]]
  /\ srv' = [c \in Clients |-> IF c \in D THEN <<>> ELSE srv[c]]
  /\ inq' = [c \in Clients |-> IF c \in D THEN <<>> ELSE inq[c]]

mutant_disconnect(D) == Teardown(D, "none", TRUE, {})
disconnect(D) == Teardown(D, "none", FALSE, {})

\* disconnect followed by a connect that got a socket
reconnect(c) == Teardown({c}, "connecting", TRUE, Inactivity)

mutant_abandon_keeps_inflight(c, s, f) ==
  /\ stats' = IF Main THEN [s EXCEPT !.req_failed = @ + f[c],
                                     !.req_error = @ + f[c]] ELSE s
  /\ req_inflight' = f
mutant_abandon_counts_errors(c, s, f) ==
  /\ stats' = IF Main THEN [s EXCEPT !.req_error = @ + f[c]] ELSE s
  /\ req_inflight' = IF Main THEN [f EXCEPT ![c] = 0] ELSE f

\* process_abandoned_streams: what is in flight has failed, in the main phase.
\* s, f: the statistics and the requests in flight so far.
process_abandoned_streams(c, s, f) ==
  IF Main
    THEN /\ stats' = [s EXCEPT !.req_failed = @ + f[c], !.req_error = @ + f[c]]
         /\ req_inflight' = [f EXCEPT ![c] = 0]
    ELSE stats' = s /\ req_inflight' = f

fail(c) ==
  /\ disconnect({c})
  /\ process_abandoned_streams(c, stats, req_inflight)

\* How many of n consecutive calls of submit_request get a request out.
\* SIZE_MAX, the budget of the timing mode, is never used up.
mutant_Granted(n) == n
Granted(n) ==
  CASE Qps -> MinOf(n, qpsLeft)
    [] Timing /\ ~Qps -> IF total_req_left > 0 THEN n ELSE 0
    [] OTHER -> MinOf(n, total_req_left)

\* What k granted calls take from the budget and from the tokens, what the
\* refused ones of n calls add to the blocked clients, and what is counted
mutant_BudgetAfter(k) == total_req_left
BudgetAfter(k) == IF Timing THEN total_req_left ELSE total_req_left - k
mutant_TokensAfter(k) == qpsLeft
TokensAfter(k) == IF Qps THEN qpsLeft - k ELSE qpsLeft
mutant_BlockedAfter(c, k) == IF Qps /\ k > 0 THEN Append(blocked, c) ELSE blocked
BlockedAfter(c, k) == IF Qps THEN blocked \o [i \in 1 .. k |-> c] ELSE blocked
mutant_StartedStats(s, k) == [s EXCEPT !.req_started = @ + k]
StartedStats(s, k) == IF Main THEN [s EXCEPT !.req_started = @ + k] ELSE s

\* n consecutive calls of Client::submit_request, the first failing call
\* ending them with process_request_failure.  s, f, o: the statistics, the
\* requests in flight and the open streams they start from.
submit_requests(c, n, s, f, o) ==
  LET k == Granted(n)
  IN /\ total_req_left' = BudgetAfter(k)
     /\ total_req_send' = total_req_send + k
     /\ qpsLeft' = TokensAfter(k)
     /\ blocked' = BlockedAfter(c, n - k)
     /\ streams' = o \cup ({c} \X ((issued[c] + 1) .. (issued[c] + k)))
     /\ issued' = [issued EXCEPT ![c] = @ + k]
     /\ wb' = [wb EXCEPT ![c] = @ \o [i \in 1 .. k |-> issued[c] + i]]
     /\ stats' = StartedStats(s, k)
     /\ req_inflight' = IF Main THEN [f EXCEPT ![c] = @ + k] ELSE f
     /\ brk' = (brk \/ (~Qps /\ k < n /\ ~Main))
     /\ UNCHANGED granted

mutant_ActiveTimer(n) ==
  IF ActiveTimeout /\ Main /\ Granted(n) > 1 THEN {"active"} ELSE {}

\* the watcher a granted request starts in the main phase
ActiveTimer(n) ==
  IF ActiveTimeout /\ Main /\ Granted(n) > 0 THEN {"active"} ELSE {}

\* session->max_concurrent_streams(), the calls connection_made makes
mutant_FirstRequests == MaxConcurrent + 1
FirstRequests == MaxConcurrent

\* Client::connection_made: the session exists from here on, and the first
\* requests are issued
connection_made(c) ==
  /\ sock' = [sock EXCEPT ![c] = "open"]
  /\ wev' = [wev EXCEPT ![c] = TRUE]
  /\ timer' = [timer EXCEPT ![c] = @ \cup Inactivity \cup ActiveTimer(FirstRequests)]
  /\ submit_requests(c, FirstRequests, stats, req_inflight, streams)
  /\ UNCHANGED <<terminated, srv, inq>>

\* get_req_stat finds the stream
mutant_Known(c, i) == TRUE
Known(c, i) == <<c, i>> \in streams

\* The statistics, and the requests in flight, after a stream of c closes
ClosedStats(success, good) ==
  IF ~Main THEN stats
  ELSE [stats EXCEPT !.req_done = @ + 1,
                     !.req_status_success = IF success /\ good THEN @ + 1 ELSE @,
                     !.req_failed = IF success /\ good THEN @ ELSE @ + 1,
                     !.req_error = IF success THEN @ ELSE @ + 1]
mutant_ClosedInflight(c) == req_inflight
ClosedInflight(c) ==
  IF Main /\ req_inflight[c] > 0
    THEN [req_inflight EXCEPT ![c] = @ - 1] ELSE req_inflight

\* Client::on_stream_close of stream i of client c.  good: the stream has
\* status_success = 1.  A stream the client does not know ends the call early
\* in the main phase, after req_inflight was decremented.  An exhausted budget
\* terminates the session; otherwise the next request is issued, unless the
\* connection is about to close.
on_stream_close(c, i, success, good, final) ==
  LET s == ClosedStats(success, good)
      f == ClosedInflight(c)
      o == streams \ {<<c, i>>}
      n == IF final THEN 0 ELSE 1
  IN \/ /\ Main /\ ~Known(c, i)
        /\ req_inflight' = f
        /\ UNCHANGED <<sharedVars, qpsVars, brk, sessVars, stats, wb>>
        /\ timer' = [timer EXCEPT ![c] = @ \cup Inactivity]
     \/ /\ Main => Known(c, i)
        /\ total_req_left = 0
        /\ terminated' = [terminated EXCEPT ![c] = TRUE]
        /\ req_inflight' = f /\ stats' = s /\ streams' = o
        /\ UNCHANGED <<sharedVars, qpsVars, brk, issued, wb>>
        /\ timer' = [timer EXCEPT ![c] = @ \cup Inactivity]
     \/ /\ Main => Known(c, i)
        /\ total_req_left > 0
        /\ submit_requests(c, n, s, f, o)
        /\ timer' = [timer EXCEPT ![c] = @ \cup Inactivity \cup ActiveTimer(n)]
        /\ UNCHANGED terminated
-----------------------------------------------------------------------------
(***************************************************************************)
(* The callbacks of the loop.                                              *)
(***************************************************************************)

\* the loop can start a callback
Idle == loop = "running" /\ running = NoClient

\* Worker::run: every client connects; one that gets no socket for any of the
\* addresses fails at once.  In timing mode the first connect starts the
\* warm-up.
run ==
  /\ loop = "start"
  /\ loop' = "running"
  /\ \E up \in SUBSET Clients, a \in [Clients -> 0 .. NAddrs - 1] :
       /\ \A c \in Clients \ up : a[c] = 0
       /\ addr' = a
       /\ sock' = [c \in Clients |-> IF c \in up THEN "connecting" ELSE "none"]
       /\ wev' = [c \in Clients |-> c \in up]
       /\ timer' = [c \in Clients |-> IF c \in up THEN Inactivity ELSE {}]
  /\ current_phase' = IF current_phase = "INITIAL_IDLE" /\ Clients # {}
                        THEN "WARM_UP" ELSE current_phase
  /\ UNCHANGED <<sharedVars, qpsVars, brk, running, stats, sessVars, netVars,
                 req_inflight, wb>>

\* writecb of a client whose connect finished, on a clear-text connection
ConnectDone(c) ==
  /\ Idle /\ ~Tls /\ sock[c] = "connecting" /\ wev[c]
  /\ connection_made(c)
  /\ UNCHANGED <<current_phase, loop, running, addr>>

\* writecb, with writefn = connected, of a client whose connect failed or that
\* has no socket any more (the qps timer started its watcher): the next address
\* that gives a socket is tried; without one the client has failed
ConnectFailed(c) ==
  /\ Idle /\ sock[c] \in {"connecting", "unreached"} /\ wev[c]
  /\ \/ \E a \in 0 .. addr[c] - 1 :
            /\ addr' = [addr EXCEPT ![c] = a]
            /\ reconnect(c)
            /\ UNCHANGED <<stats, req_inflight>>
     \/ /\ addr' = [addr EXCEPT ![c] = 0]
        /\ fail(c)
  /\ UNCHANGED <<sharedVars, qpsVars, loopVars, current_phase, wb>>

\* writecb with writefn = write_clear: k requests of wb reach the server; the
\* watcher stays active when the socket takes no more
WriteSome(c) ==
  /\ \E k \in 0 .. Len(wb[c]) :
       /\ terminated[c] => Len(wb[c]) - k >= Backoff
       /\ srv' = [srv EXCEPT ![c] = @ \o SubSeq(wb[c], 1, k)]
       /\ wb' = [wb EXCEPT ![c] = SubSeq(@, k + 1, Len(@))]
       /\ wev' = [wev EXCEPT ![c] = k < Len(wb[c])]
  /\ timer' = [timer EXCEPT ![c] = @ \cup Inactivity]
  /\ UNCHANGED <<sharedVars, qpsVars, loop, brk, current_phase, stats, sock,
                 addr, sessVars, inq, req_inflight>>

\* ... or the write ends the connection: the session is terminated, which it
\* says once wb is below the threshold, or writev fails
WriteFails(c) ==
  /\ \E k \in 0 .. Len(wb[c]) :
       /\ \/ terminated[c] /\ Len(wb[c]) - k < Backoff
             /\ (Len(wb[c]) < Backoff => k = 0)
          \/ MayClose
       /\ wb' = [wb EXCEPT ![c] = SubSeq(@, k + 1, Len(@))]
  /\ fail(c)
  /\ UNCHANGED <<sharedVars, qpsVars, loop, brk, current_phase, addr>>

writecb(c) ==
  /\ Idle /\ sock[c] = "open" /\ wev[c]
  /\ WriteSome(c) \/ WriteFails(c)
  /\ UNCHANGED running

\* writecb of a client without a connection, whose watcher the qps timer
\* started: writev(-1) fails if wb still holds something
StaleWrite(c) ==
  /\ Idle /\ sock[c] = "none" /\ wev[c]
  /\ \/ wb[c] # <<>> /\ fail(c)
     \/ /\ wb[c] = <<>>
        /\ wev' = [wev EXCEPT ![c] = FALSE]
        /\ timer' = [timer EXCEPT ![c] = @ \cup Inactivity]
        /\ UNCHANGED <<sock, sessVars, netVars, stats, req_inflight>>
  /\ UNCHANGED <<sharedVars, qpsVars, loopVars, current_phase, addr, wb>>

\* The read loop of readcb of client c takes the head of inq[c]
Reading(c) ==
  /\ loop = "running" /\ running \in {NoClient, c}
  /\ sock[c] = "open" /\ inq[c] # <<>>

\* ... a read that the session accepts
ReadAccepted(c) ==
  /\ running' = c
  /\ inq' = [inq EXCEPT ![c] = Tail(@)]
  /\ wev' = [wev EXCEPT ![c] = TRUE]

\* ... no more data: readcb goes on with writecb
ReadDrained(c) ==
  /\ running = c /\ inq[c] = <<>>
  /\ running' = NoClient
  /\ WriteSome(c) \/ WriteFails(c)

\* do_read failed: Client::try_again_or_fail.  requested: the session called
\* try_new_connection in this very read (new_connection_requested).
try_again_or_fail(c, s, f, requested) ==
  /\ running' = NoClient
  /\ \/ /\ requested /\ total_req_left > 0
        /\ reconnect(c) \/ Teardown({c}, "none", FALSE, Inactivity)
     \/ /\ ~requested \/ total_req_left = 0
        /\ disconnect({c})
  /\ process_abandoned_streams(c, s, f)
  /\ UNCHANGED <<sharedVars, qpsVars, loop, brk, current_phase, addr, wb>>

\* the server's end of stream, or a socket error, reaches the read loop
ReadEof(c) ==
  /\ Reading(c) /\ Head(inq[c]) = Eof
  /\ try_again_or_fail(c, stats, req_inflight, FALSE)

\* The TLS handshake, after connected() and from readcb and writecb.  It waits
\* for the socket, succeeds, or ends the connection (an error, or no protocol
\* was negotiated).
TlsStart(c) ==
  /\ Idle /\ Tls /\ sock[c] = "connecting" /\ wev[c]
  /\ sock' = [sock EXCEPT ![c] = "tls"]
  /\ \E b \in BOOLEAN : wev' = [wev EXCEPT ![c] = b]
  /\ timer' = [timer EXCEPT ![c] = @ \cup Inactivity]
  /\ UNCHANGED <<sharedVars, qpsVars, loopVars, current_phase, stats, addr, sessVars, netVars, req_inflight, wb>>

TlsHandshake(c) ==
  /\ Idle /\ sock[c] = "tls"
  /\ \/ /\ \E b \in BOOLEAN : wev' = [wev EXCEPT ![c] = b]
        /\ timer' = [timer EXCEPT ![c] = @ \cup Inactivity]
        /\ UNCHANGED <<sharedVars, qpsVars, brk, stats, sock, sessVars,
                       netVars, req_inflight, wb>>
     \/ connection_made(c)
     \/ /\ fail(c)
        /\ UNCHANGED <<sharedVars, qpsVars, brk, wb>>
  /\ UNCHANGED <<loop, running, current_phase, addr>>

\* conn_timeout_cb: either timer.  Without a socket, or with an error pending on
\* it (reported to readcb or writecb next), the client only loses its timers.
conn_timeout_cb(c) ==
  /\ Idle /\ timer[c] # {}
  /\ \/ /\ sock[c] \notin Gone
        /\ disconnect({c})
        /\ process_abandoned_streams(c,
             IF Main THEN [stats EXCEPT !.req_timedout = @ + req_inflight[c]]
             ELSE stats, req_inflight)
     \/ /\ sock[c] # "open" \/ Ended(c)
        /\ timer' = [timer EXCEPT ![c] = {}]
        /\ UNCHANGED <<sock, wev, sessVars, netVars, stats, req_inflight>>
  /\ UNCHANGED <<sharedVars, qpsVars, loopVars, current_phase, addr, wb>>

\* warmup_timeout_cb
warmup_timeout_cb ==
  /\ Idle /\ current_phase = "WARM_UP"
  /\ current_phase' = "MAIN_DURATION"
  /\ UNCHANGED <<sharedVars, qpsVars, loopVars, connVars, sessVars, netVars,
                 stats, req_inflight, wb>>

\* duration_timeout_cb: clears the budget of all workers, stops the clients
\* that have a session, and breaks the loop
duration_timeout_cb ==
  /\ Idle /\ Timing /\ Main
  /\ total_req_left' = 0
  /\ current_phase' = "DURATION_OVER"
  /\ disconnect({c \in Clients : sock[c] = "open"})
  /\ brk' = TRUE
  /\ UNCHANGED <<total_req_send, qpsVars, loop, running, stats, addr, req_inflight, wb>>

\* The blocked clients the qps timer serves when it has n tokens: the last
\* entries of the list, and how often each client is among them
Served(n) == (Len(blocked) - MinOf(n, Len(blocked)) + 1) .. Len(blocked)
Times(n, c) == Cardinality({i \in Served(n) : blocked[i] = c})

\* update_worker_qpsLeft: tokens are added, and blocked clients submit while
\* there are any.  A client without a session has its request counted only.
update_worker_qpsLeft ==
  /\ Idle /\ Qps /\ Main
  /\ \E q \in QpsCounts :
       LET n == qpsLeft + q
           k == MinOf(n, Len(blocked))
           t == [c \in Clients |-> Times(n, c)]
           r == [c \in Clients |-> IF sock[c] = "open" THEN t[c] ELSE 0]
       IN /\ granted + q <= MaxTokens
          /\ granted' = granted + q
          /\ qpsLeft' = n - k
          /\ blocked' = SubSeq(blocked, 1, Len(blocked) - k)
          /\ total_req_send' = total_req_send + k
          /\ streams' = streams \cup
               UNION {{c} \X ((issued[c] + 1) .. (issued[c] + r[c])) : c \in Clients}
          /\ issued' = [c \in Clients |-> issued[c] + r[c]]
          /\ wb' = [c \in Clients |->
                      wb[c] \o [i \in 1 .. r[c] |-> issued[c] + i]]
          /\ stats' = [stats EXCEPT !.req_started = @ + k]
          /\ req_inflight' = [c \in Clients |-> req_inflight[c] + t[c]]
          /\ wev' = [c \in Clients |-> wev[c] \/ t[c] > 0]
          /\ timer' = [c \in Clients |->
                         IF ActiveTimeout /\ t[c] > 0
                           THEN timer[c] \cup {"active"} ELSE timer[c]]
  /\ UNCHANGED <<total_req_left, loopVars, current_phase, sock, addr, terminated, netVars>>

\* ev_run keeps going while a watcher is active: io, connection timers, the
\* warm-up timer, the duration timer (and with it the qps timer)
SomeWatcher ==
  \/ \E c \in Clients : wev[c] \/ sock[c] \in {"tls", "open"} \/ timer[c] # {}
  \/ current_phase = "WARM_UP"
  \/ Timing /\ Main

\* ev_run returns
LoopReturns ==
  /\ Idle /\ (brk \/ ~SomeWatcher)
  /\ loop' = "done"
  /\ UNCHANGED <<sharedVars, qpsVars, brk, running, connVars, sessVars, netVars,
                 current_phase, stats, req_inflight, wb>>

\* the callbacks that do not depend on the protocol
ClientStep(c) ==
  \/ ConnectDone(c) \/ ConnectFailed(c) \/ TlsStart(c) \/ TlsHandshake(c)
  \/ writecb(c) \/ StaleWrite(c) \/ ReadDrained(c) \/ ReadEof(c)
  \/ conn_timeout_cb(c)

WorkerStep ==
  \/ run \/ warmup_timeout_cb \/ duration_timeout_cb
  \/ update_worker_qpsLeft \/ LoopReturns
-----------------------------------------------------------------------------
(***************************************************************************)
(* The environment: the server closing a connection.                       *)
(***************************************************************************)

ServerCloses(c) ==
  /\ MayClose /\ sock[c] = "open" /\ ~Ended(c)
  /\ inq' = [inq EXCEPT ![c] = Append(@, Eof)]
  /\ UNCHANGED <<sharedVars, qpsVars, loopVars, connVars, sessVars, srv,
                 current_phase, stats, req_inflight, wb>>
-----------------------------------------------------------------------------
WorkerInit ==
  /\ total_req_left = NReqs /\ total_req_send = 0
  /\ current_phase = IF Timing THEN "INITIAL_IDLE" ELSE "MAIN_DURATION"
  /\ stats = NoStats
  /\ qpsLeft = 0 /\ blocked = <<>> /\ granted = 0
  /\ loop = "start" /\ brk = FALSE /\ running = NoClient
  /\ sock = [c \in Clients |-> "none"]
  /\ wev = [c \in Clients |-> FALSE]
  /\ timer = [c \in Clients |-> {}]
  /\ addr = [c \in Clients |-> NAddrs]
  /\ req_inflight = [c \in Clients |-> 0]
  /\ wb = [c \in Clients |-> <<>>]
  /\ streams = {}
  /\ issued = [c \in Clients |-> 0]
  /\ terminated = [c \in Clients |-> FALSE]
  /\ srv = [c \in Clients |-> <<>>]
  /\ inq = [c \in Clients |-> <<>>]
-----------------------------------------------------------------------------
StreamsOf(c) == {x \in streams : x[1] = c}
BlockedOf(c) == {i \in 1 .. Len(blocked) : blocked[i] = c}

\* The types of the worker's variables; inq is the protocol's
WorkerTypeOK ==
  /\ total_req_left \in Nat /\ total_req_send \in Nat
  /\ current_phase \in {"INITIAL_IDLE", "WARM_UP", "MAIN_DURATION",
                        "DURATION_OVER"}
  /\ stats \in StatsType
  /\ qpsLeft \in Nat /\ blocked \in Seq(Clients) /\ granted \in Nat
  /\ loop \in {"start", "running", "done", "aborted"} /\ brk \in BOOLEAN
  /\ running \in Clients \cup {NoClient}
  /\ sock \in [Clients -> {"none", "unreached", "connecting", "tls", "open"}]
  /\ wev \in [Clients -> BOOLEAN]
  /\ timer \in [Clients -> SUBSET {"active", "inactivity"}]
  /\ addr \in [Clients -> Nat]
  /\ req_inflight \in [Clients -> Nat]
  /\ wb \in [Clients -> Seq(Nat)]
  /\ streams \subseteq Clients \X Nat
  /\ issued \in [Clients -> Nat]
  /\ terminated \in [Clients -> BOOLEAN]
  /\ srv \in [Clients -> Seq(Nat)]
-----------------------------------------------------------------------------
(***************************************************************************)
(* Properties.                                                             *)
(***************************************************************************)

\* In a run of -n requests by one thread every request of the budget is either
\* left or sent, and exactly the sent ones are counted as started: no way from
\* total_req_left to req_started (connection_made, on_stream_close, a new
\* connection) loses a request or takes one that is not there.
BudgetConserved ==
  ~Timing => /\ total_req_left + total_req_send = NReqs
             /\ stats.req_started = total_req_send

\* In a run of -n requests the requests counted as succeeded or failed, and
\* those still open, are at most the started ones, so that the subtraction
\* main does at the end (req_not_issued = nreqs - req_status_success -
\* req_failed) cannot wrap around, whatever the connections do: responses in
\* pieces, timeouts, closes by the server, failing connects.
NotIssuedDoesNotWrap ==
  ~Timing => stats.req_status_success + stats.req_failed + Cardinality(streams)
               <= stats.req_started

\* In the main phase a client never counts more requests in flight than it has
\* open streams, so giving up a connection never reports a request twice.  (In
\* qps mode the tokens of a client without a connection are counted.)
InflightWithinStreams ==
  Main /\ ~Qps => \A c \in Clients : req_inflight[c] <= Cardinality(StreamsOf(c))

\* In a run of -n requests a client without a connection has nothing in
\* flight and no active watcher but a timer of a reconnect that got no
\* socket: it neither loses requests nor keeps the loop alive.
GoneClientsAreSettled ==
  ~Timing => \A c \in Clients :
    sock[c] \in Gone => req_inflight[c] = 0 /\ StreamsOf(c) = {} /\ ~wev[c]

\* Timeouts are errors and errors are failures (the comments on Stats call
\* them subsets).
ErrorsWithinFailures ==
  /\ stats.req_timedout <= stats.req_error
  /\ stats.req_error <= stats.req_failed

\* A session never has more than -m streams open in a run of -n requests.  (It
\* can have more in a warm-up, where every piece of a response closes a stream.)
ConcurrencyBounded ==
  \A c \in Clients : Cardinality(StreamsOf(c)) <= MaxConcurrent

\* Nothing is counted before the main phase begins: the assertions of
\* warmup_timeout_cb hold whenever it can run.
WarmUpCountsNothing ==
  current_phase \in {"INITIAL_IDLE", "WARM_UP"} =>
    /\ stats = NoStats
    /\ \A c \in Clients : req_inflight[c] = 0

\* In qps mode every token the timer handed out is either unused or paid for
\* one request: the rate is never exceeded.
TokensConserved == Qps => total_req_send + qpsLeft = granted

\* In qps mode each of the -m slots of a connected client is either an open
\* stream or an entry in the list of blocked clients, whose tokens are taken from
\* the back: while a connection lasts no slot is lost and none is made.  (It does
\* not say that each entry is served: the ones at the front wait for as long as
\* the later ones use up the tokens.)
SlotsConserved ==
  Qps => \A c \in Clients :
    sock[c] = "open" /\ total_req_left > 0 =>
      Cardinality(StreamsOf(c)) + Cardinality(BlockedOf(c)) = MaxConcurrent

\* In a run of -n requests a connected client has in flight exactly its open
\* streams ("requests currently have started, but not abandoned or finished").
InflightIsExact ==
  ~Timing => \A c \in Clients :
    sock[c] = "open" => req_inflight[c] = Cardinality(StreamsOf(c))

\* With -T a connected client with requests in flight has its timer running
\* (submit_request starts it, disconnect stops it, ev_timer_start does nothing
\* when it runs), unless the server has ended the connection, which readcb then
\* sees: no request is without a limit, however connections and requests follow
\* each other.
LimitedWhileBusy ==
  ActiveTimeout /\ Main => \A c \in Clients :
    sock[c] = "open" /\ ~Ended(c) /\ req_inflight[c] > 0 => "active" \in timer[c]
=============================================================================
