------------------------------ MODULE MCHttp2 ------------------------------
(***************************************************************************)
(* Scenarios for HTTP/2.  In those of kind "pair" the applications of two  *)
(* nghttp2 sessions make whatever calls the scenario grants (H2Pair); in   *)
(* those of kind "h2load" the client is h2load (Http2Client) and the       *)
(* server may reset, push back and go away.                                *)
(***************************************************************************)
EXTENDS Http2Client

None == [o \in {"request", "rst", "goaway", "shutdown", "terminate", "settings", "window",
                "setwin", "push", "ping", "defer", "fail"} |-> 0]

Body(n) == [left |-> n, trailer |-> FALSE]
Ops(c, v) == [client |-> c @@ None, server |-> v @@ None]
IW(n) == <<"INITIAL_WINDOW_SIZE", n>>

Pair ==
  [kind |-> "pair",
   auto |-> [e \in Ends |-> TRUE], iv |-> [e \in Ends |-> <<>>], iv2 |-> [e \in Ends |-> <<>>],
   ops |-> [e \in Ends |-> None], body |-> NoItem, answer |-> Body(3), blocks |-> FALSE,
   upgrade |-> FALSE, deltas |-> {2}, sizes |-> {1},
   nreqs |-> 0, m |-> 0, window |-> 0, good |-> TRUE, reads |-> {"data"},
   timers |-> FALSE, hangs_up |-> FALSE]

H2load ==
  [Pair EXCEPT !.kind = "h2load", !.answer = Body(1), !.nreqs = 3, !.m = 2, !.window = 6,
               !.iv.client = <<<<"ENABLE_PUSH", 0>>, IW(4)>>]

PairScenarios == {
  \* responses larger than the windows
  [Pair EXCEPT !.ops = Ops([request |-> 2], <<>>)],
  [Pair EXCEPT !.ops = Ops([request |-> 1], <<>>), !.body = Body(5), !.answer = Body(1)],
  \* SETTINGS that change the windows of open streams
  [Pair EXCEPT !.ops = Ops([request |-> 1, settings |-> 2], <<>>), !.answer = Body(4),
               !.iv2.client = <<IW(1)>>],
  [Pair EXCEPT !.ops = Ops([request |-> 1, settings |-> 1], <<>>), !.answer = Body(5),
               !.iv.client = <<IW(1)>>, !.iv2.client = <<IW(6)>>],
  \* a limit on streams, and no push, that arrive late
  [Pair EXCEPT !.ops = Ops([request |-> 2], [settings |-> 1]), !.answer = NoItem,
               !.iv2.server = <<<<"MAX_CONCURRENT_STREAMS", 1>>>>],
  [Pair EXCEPT !.ops = Ops([request |-> 1, settings |-> 1], [push |-> 1]), !.answer = Body(1),
               !.iv2.client = <<<<"ENABLE_PUSH", 0>>>>],
  \* resets from either side
  [Pair EXCEPT !.ops = Ops([request |-> 1, rst |-> 1], [push |-> 1]), !.answer = Body(1)],
  [Pair EXCEPT !.ops = Ops([request |-> 1, rst |-> 1], [rst |-> 1]), !.body = Body(3),
               !.answer = Body(1)],
  \* GOAWAY, with and without notice, and torn down
  [Pair EXCEPT !.ops = Ops([request |-> 2], [goaway |-> 1, shutdown |-> 1]), !.answer = NoItem],
  [Pair EXCEPT !.ops = Ops([request |-> 1, terminate |-> 1], [terminate |-> 1]),
               !.answer = Body(1)],
  \* windows managed by the application
  [Pair EXCEPT !.ops = Ops([request |-> 1, rst |-> 1, settings |-> 1], <<>>), !.auto.client = FALSE,
               !.answer = Body(5), !.iv2.client = <<IW(2)>>],
  [Pair EXCEPT !.ops = Ops([request |-> 1, setwin |-> 1, window |-> 1], <<>>), !.sizes = {1, 8}],
  \* a transport that blocks
  [Pair EXCEPT !.ops = Ops([request |-> 1, rst |-> 1], [goaway |-> 1]), !.answer = Body(2),
               !.blocks = TRUE],
  \* trailers, deferred and failing bodies
  [Pair EXCEPT !.ops = Ops([request |-> 1], [defer |-> 1, fail |-> 1]),
               !.answer = [left |-> 3, trailer |-> TRUE]],
  \* as many ACKs as the queue takes
  [Pair EXCEPT !.ops = Ops([ping |-> 2, settings |-> 1], [ping |-> 1])],
  \* HTTP/1.1 Upgrade
  [Pair EXCEPT !.ops = Ops([request |-> 1], <<>>), !.upgrade = TRUE, !.iv.client = <<IW(2)>>]}

H2loadScenarios == {
  [H2load EXCEPT !.answer = Body(3)],
  \* responses larger than the windows, with a bad status
  [H2load EXCEPT !.answer = Body(5), !.nreqs = 2, !.good = FALSE],
  \* uploads, of one frame and of three, larger than the window, which may fail
  [H2load EXCEPT !.body = Body(2), !.nreqs = 2, !.m = 1, !.reads = {"data", "fail"}],
  [H2load EXCEPT !.body = Body(5), !.nreqs = 1, !.m = 1, !.reads = {"data", "fail"}],
  \* resets, a graceful GOAWAY, a GOAWAY, a torn down connection
  [H2load EXCEPT !.ops = Ops(<<>>, [rst |-> 1])],
  [H2load EXCEPT !.ops = Ops(<<>>, [goaway |-> 1, shutdown |-> 1]), !.answer = NoItem, !.nreqs = 4],
  [H2load EXCEPT !.ops = Ops(<<>>, [terminate |-> 1]), !.answer = NoItem],
  \* a limit on streams below -m
  [H2load EXCEPT !.ops = Ops(<<>>, [goaway |-> 1, settings |-> 1]), !.iv2.server = <<<<"MAX_CONCURRENT_STREAMS", 1>>>>,
               !.answer = NoItem],
  \* timers, and a server that hangs up
  [H2load EXCEPT !.timers = TRUE, !.hangs_up = TRUE, !.answer = NoItem]}

\* A smaller INITIAL_WINDOW_SIZE takes effect while a WINDOW_UPDATE is queued.
ShrinkScenarios == {
  [Pair EXCEPT !.ops = Ops([request |-> 1, settings |-> 1], <<>>), !.answer = Body(5),
               !.iv2.client = <<IW(1)>>]}

MCScenarios == PairScenarios \cup ShrinkScenarios \cup H2loadScenarios

MCInit ==
  \/ Init /\ sc.kind = "pair" /\ app = Fresh /\ wb = <<>>
  \/ CInit /\ sc.kind = "h2load"

MCNext ==
  \/ sc.kind = "pair" /\ Next /\ UNCHANGED <<app, wb>>
  \/ sc.kind = "h2load" /\ CNext

MCSpec == MCInit /\ [][MCNext]_cvars
=============================================================================
