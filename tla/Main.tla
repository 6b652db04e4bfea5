-------------------------------- MODULE Main --------------------------------
(***************************************************************************)
(* main of h2load (h2load.cc): the checks of the options, the requests     *)
(* written once for each protocol from the same headers, the division of   *)
(* clients, connection rate and tokens among the worker threads, the start *)
(* of the threads behind one condition variable, the joins, the sums of    *)
(* the statistics and the latency percentiles.                             *)
(*                                                                         *)
(* What a worker does between its start and its end is the subject of the  *)
(* other modules.  Here it issues requests in batches, each batch with one *)
(* outcome and one round trip time, and ends at any moment.  A worker that *)
(* has no client issues nothing: its loop has no watcher and returns.      *)
(* Times are whole numbers and percentiles whole percentages.  A custom    *)
(* header (-H) is the name of a field; its value is its place in the list. *)
(***************************************************************************)
EXTENDS Integers, Sequences, FiniteSets, FiniteSetsExt, SequencesExt, Functions

CONSTANTS
    Options,        \* the command lines, records of -c -t -n -r -m -D --qps -H
    Slots,          \* qps_update_per_second
    Batches,        \* how many requests of one kind a worker issues in a row
    Rtts,           \* round trip times, in microseconds
    MaxBatches,     \* bound on the batches of one run
    SIZE_MAX        \* numeric_limits<size_t>::max()

VARIABLES
    config, pc,     \* the options; where main is
    h1req, nva,     \* the request of HTTP/1.1 and the fields of HTTP/2
    workers,        \* the vector<Worker *>
    thread,         \* what each std::async thread is doing
    ready,          \* the flag behind the condition variable
    total_req_left, \* the shared budget
    stats,          \* the sums printed
    latency,        \* the percentiles printed
    batches         \* batches so far

vars == <<config, pc, h1req, nva, workers, thread, ready, total_req_left, stats,
          latency, batches>>

Percentiles == {50, 75, 90, 95, 99}

is_rate_mode == config.rate > 0
is_timing_based_mode == config.duration > 0
is_qps_mode == config.qps > 0

NoStats == [started |-> 0, done |-> 0, status_success |-> 0, failed |-> 0,
            error |-> 0]
Plus(s, t) == [f \in DOMAIN s |-> s[f] + t[f]]

\* The combinations of options that main refuses with EXIT_FAILURE.
rejected(o) ==
    \/ o.qps > 0 /\ (o.rate > 0 \/ o.duration = 0)
    \/ o.duration > 0 /\ o.rate > 0
    \/ o.nreqs = 0 /\ o.duration = 0
    \/ o.m = 0 \/ o.nthreads = 0
    \/ o.nclients < o.nthreads /\ o.qps = 0
    \/ o.rate > 0 /\ (o.rate < o.nthreads \/ o.rate > o.nclients)

\* config.nreqs after the checks, also the initial total_req_left.
requests(o) == CASE o.duration = 0 -> o.nreqs
                 [] o.qps > 0      -> o.duration * o.qps
                 [] OTHER          -> SIZE_MAX

Init == /\ config \in Options
        /\ pc = "options" /\ h1req = <<>> /\ nva = <<>> /\ workers = <<>>
        /\ thread = <<>> /\ ready = FALSE /\ total_req_left = 0
        /\ stats = NoStats /\ latency = <<>> /\ batches = 0

CheckOptions ==
    /\ pc = "options"
    /\ IF rejected(config)
       THEN pc' = "refused" /\ UNCHANGED <<config, total_req_left>>
       ELSE /\ pc' = "requests"
            /\ config' = [config EXCEPT !.nreqs = requests(config)]
            /\ total_req_left' = requests(config)
    /\ UNCHANGED <<h1req, nva, workers, thread, ready, stats, latency, batches>>

override_hdrs == {":authority", ":host", ":method", ":scheme", "user-agent"}

\* The names that begin with a colon
Pseudo == {":authority", ":host", ":method", ":scheme", ":path"}
Field(name, value) == [name |-> name, value |-> value]

\* The fields all requests share: the defaults, whose value is 0, overridden or
\* extended by the custom headers one after the other.
shared_nva ==
    LET defaults == [j \in 1..4 |->
            Field(<<":scheme", ":authority", ":method", "user-agent">>[j], 0)]
        step(hs, j) ==
            LET name == config.custom[j] IN
            IF name \in override_hdrs
            THEN [l \in DOMAIN hs |->
                    IF hs[l].name = name \/ (hs[l].name = ":authority" /\ name = ":host")
                    THEN Field(hs[l].name, j) ELSE hs[l]]
            ELSE Append(hs, Field(name, j))
    IN FoldLeft(step, defaults, [j \in DOMAIN config.custom |-> j])

\* The request line and the fields of HTTP/1.1, and the fields of HTTP/2, the
\* path in front.  With -d both end in the length of the data.
BuildRequests ==
    LET length == IF config.data THEN <<Field("content-length", 0)>> ELSE <<>>
        method == SelectSeq(shared_nva, LAMBDA f : f.name = ":method")[1].value
        lines == SelectSeq(shared_nva, LAMBDA f : f.name = ":authority" \/ f.name \notin Pseudo)
        line(f) == IF f.name = ":authority" THEN Field("Host", f.value) ELSE f
    IN /\ pc = "requests"
       /\ h1req' = <<Field("line", method)>> \o [j \in DOMAIN lines |-> line(lines[j])] \o length
       /\ nva' = <<Field(":path", 0)>> \o shared_nva \o length
       /\ pc' = "create"
       /\ UNCHANGED <<config, workers, thread, ready, total_req_left, stats,
                      latency, batches>>

\* What worker i, counted from 0, gets of a total: the first ones take the
\* remainder.  The loop counts nclients_rem and rate_per_thread_rem down.
share(total, i) == total \div config.nthreads
                   + (IF i < total % config.nthreads THEN 1 ELSE 0)

\* The tokens of one second, thrown one by one into slots chosen at random.
spread(n) == {c \in [1..Slots -> 0..n] : FoldFunction(+, 0, c) = n}

create_worker(i, counts) ==
    [nclients |-> share(config.nclients, i),
     rate |-> share(IF is_rate_mode THEN config.rate ELSE config.nclients, i),
     counts |-> counts,
     stats |-> NoStats,
     rtts |-> [r \in Rtts |-> 0]]

\* One turn of the loop: the worker, its tokens, its thread, which refers to
\* the element of the vector (reserved for all of them, so that push_back moves
\* none) and waits for ready.
CreateWorker ==
    LET i == Len(workers) IN
    /\ pc = "create" /\ i < config.nthreads
    /\ \E counts \in IF is_qps_mode THEN spread(share(config.qps, i)) ELSE {<<>>} :
          workers' = Append(workers, create_worker(i, counts))
    /\ thread' = Append(thread, "waiting")
    /\ UNCHANGED <<config, h1req, nva, pc, ready, total_req_left, stats, latency, batches>>

SetReady ==
    /\ pc = "create" /\ Len(workers) = config.nthreads
    /\ ready' = TRUE /\ pc' = "join"
    /\ UNCHANGED <<config, h1req, nva, workers, thread, total_req_left, stats,
                   latency, batches>>

mutant_wake(t) == TRUE

\* cv.wait with its predicate: a wake-up, spurious or not, counts only when
\* ready holds.
wake(t) == ready

StartThread(t) ==
    /\ thread[t] = "waiting" /\ wake(t)
    /\ thread' = [thread EXCEPT ![t] = "running"]
    /\ UNCHANGED <<config, h1req, nva, pc, workers, ready, total_req_left, stats,
                   latency, batches>>

Outcomes == {"good", "failed", "reset", "abandoned", "open"}

\* What k requests add to the books: answered well, answered with a failure
\* status, closed with an error, lost with their connection, or still open when
\* the worker stops.
outcome(k, how) ==
    [started |-> k,
     done |-> IF how \in {"good", "failed", "reset"} THEN k ELSE 0,
     status_success |-> IF how = "good" THEN k ELSE 0,
     failed |-> IF how \in {"failed", "reset", "abandoned"} THEN k ELSE 0,
     error |-> IF how \in {"reset", "abandoned"} THEN k ELSE 0]

\* A batch; the streams that are closed record their round trip time r.
Work(t) ==
    /\ thread[t] = "running" /\ workers[t].nclients > 0 /\ batches < MaxBatches
    /\ \E k \in Batches, how \in Outcomes, r \in Rtts :
          /\ k <= total_req_left
          /\ total_req_left' = total_req_left - k
          /\ workers' = [workers EXCEPT
                ![t].stats = Plus(@, outcome(k, how)),
                ![t].rtts[r] = @ + outcome(k, how).done]
    /\ batches' = batches + 1
    /\ UNCHANGED <<config, h1req, nva, pc, thread, ready, stats, latency>>

EndThread(t) ==
    /\ thread[t] = "running"
    /\ thread' = [thread EXCEPT ![t] = "ended"]
    /\ UNCHANGED <<config, h1req, nva, pc, workers, ready, total_req_left, stats,
                   latency, batches>>

\* fut.get() of every future has returned.
joined == \A t \in DOMAIN thread : thread[t] = "ended"

\* Unsigned: below zero it would wrap to a huge number.
req_not_issued(s) ==
    IF is_timing_based_mode \/ is_qps_mode THEN 0
    ELSE (config.nreqs - s.status_success - s.failed) % (SIZE_MAX + 1)

Sum(ws) == FoldLeft(LAMBDA s, w : Plus(s, w.stats), NoStats, ws)

\* The joins, the sums, and the requests not issued counted as failures.
Merge ==
    /\ pc = "join" /\ joined
    /\ LET s == Sum(workers) IN
       stats' = [s EXCEPT !.failed = @ + req_not_issued(s),
                          !.error = @ + req_not_issued(s)]
    /\ pc' = "merged"
    /\ UNCHANGED <<config, h1req, nva, workers, thread, ready, total_req_left,
                   latency, batches>>

\* rtts of main: how often each round trip time was seen by any worker.
histogram == [r \in Rtts |-> FoldLeft(LAMBDA n, w : n + w.rtts[r], 0, workers)]

mutant_rank(p, n) == (p * n + 200) \div 100

\* std::round((percentile / 100.0) * rtt_counts + 0.5)
rank(p, n) == (p * n + 100) \div 100

\* The first time whose running total reaches the rank; the loop that finds
\* none stops one past rtt_max.
percentile(h, p) ==
    LET n == FoldFunction(+, 0, h)
        seen == {r \in Rtts : h[r] > 0}
        total(r) == FoldFunctionOnSet(+, 0, h, {q \in Rtts : q <= r})
        reached == {r \in seen : total(r) >= rank(p, n)}
    IN IF seen = {} THEN 0
       ELSE IF reached = {} THEN Max(seen) + 1 ELSE Min(reached)

Report ==
    /\ pc = "merged"
    /\ latency' = [p \in Percentiles |-> percentile(histogram, p)]
    /\ pc' = "done"
    /\ UNCHANGED <<config, h1req, nva, workers, thread, ready, total_req_left, stats,
                   batches>>

Next == \/ CheckOptions \/ BuildRequests \/ CreateWorker \/ SetReady \/ Merge \/ Report
        \/ \E t \in DOMAIN thread : StartThread(t) \/ Work(t) \/ EndThread(t)

Spec == Init /\ [][Next]_vars

-----------------------------------------------------------------------------

Total(f(_)) == FoldLeft(LAMBDA n, w : n + f(w), 0, workers)
Even(f(_)) == \A i, j \in DOMAIN workers : f(workers[i]) <= f(workers[j]) + 1
Clients(w) == w.nclients
Rate(w) == w.rate
Tokens(w) == FoldFunction(+, 0, w.counts)

\* Once the loop that creates the workers is over, they have all the clients,
\* all of the connection rate and all the tokens of a second among them, and no
\* two shares differ by more than one (h2load.cc:2342-2379).
SharesExact ==
    pc \in {"join", "merged", "done"} =>
       /\ Total(Clients) = config.nclients /\ Even(Clients)
       /\ is_rate_mode => Total(Rate) = config.rate /\ Even(Rate)
       /\ is_qps_mode => Total(Tokens) = config.qps /\ Even(Tokens)

\* The request of HTTP/2 is well formed: the four pseudo-header fields, once each,
\* in front of the others.
WellFormed2 ==
    /\ {nva[j].name : j \in 1..4} = Pseudo \ {":host"}
    /\ \A j \in 5..Len(nva) : nva[j].name \notin Pseudo

\* The request of HTTP/1.1 is well formed: one Host line, in whatever case.
WellFormed1 == Len(SelectSeq(h1req, LAMBDA f : f.name \in {"Host", "host"})) = 1

\* The two forms of a request say the same: the last custom value of the method
\* and of the authority, given as :authority or :host, and the same other fields
\* in the same order.  HTTP/2's is well formed exactly when no -H adds a
\* pseudo-header that main does not override (:path), and HTTP/1.1's exactly when
\* no -H gives host without its colon (h2load.cc:2090-2181).
RequestsAgree ==
    pc \notin {"options", "refused", "requests"} =>
       LET values(hs, name) == LET fs == SelectSeq(hs, LAMBDA f : f.name = name)
                               IN [j \in DOMAIN fs |-> fs[j].value]
           other(hs) == SelectSeq(hs, LAMBDA f : f.name \notin Pseudo \cup {"line", "Host"})
           last(names) == LET js == {j \in DOMAIN config.custom : config.custom[j] \in names}
                          IN IF js = {} THEN 0 ELSE Max(js)
           added == Range(config.custom) \ override_hdrs
       IN /\ values(nva, ":method") = <<last({":method"})>>
          /\ values(h1req, "line") = <<last({":method"})>>
          /\ values(nva, ":authority") = <<last({":authority", ":host"})>>
          /\ values(h1req, "Host") = <<last({":authority", ":host"})>>
          /\ other(h1req) = other(nva)
          /\ WellFormed2 <=> added \cap Pseudo = {}
          /\ WellFormed1 <=> "host" \notin added

\* A worker that is created has a client, and in rate mode a rate of at least
\* one and no more than its clients need.  Only qps mode allows threads without
\* clients, and tokens are handed to such a thread, which cannot use them,
\* exactly when there are fewer clients than threads and fewer clients than
\* tokens (h2load.cc:1984-2010 and 2358-2379).
NoIdleWorker ==
    /\ \A i \in DOMAIN workers :
          /\ is_qps_mode \/ workers[i].nclients > 0
          /\ is_rate_mode => workers[i].rate \in 1..workers[i].nclients
    /\ pc \in {"join", "merged", "done"} /\ is_qps_mode =>
          ((\E w \in Range(workers) : Clients(w) = 0 /\ Tokens(w) > 0)
             <=> config.nclients < config.nthreads /\ config.nclients < config.qps)

\* A thread runs only after every worker has been created with its clients and
\* tokens (h2load.cc:2381-2394).
ThreadsRunTheirWorker ==
    \A t \in DOMAIN thread : thread[t] # "waiting" => Len(workers) = config.nthreads

\* What main prints are the final figures of all the workers, and with -n every
\* request is either successful or failed in them, the ones never issued and
\* the ones left open included (h2load.cc:2398-2439).
BooksComplete ==
    pc \in {"merged", "done"} =>
       /\ Sum(workers).status_success = stats.status_success
       /\ Sum(workers).started = stats.started
       /\ ~is_timing_based_mode =>
             stats.status_success + stats.failed = config.nreqs

\* Each latency percentile printed is one: a time some response took, with at
\* least p percent of the responses no slower and at most p percent faster
\* (h2load.cc:2542-2579).
PercentilesRight ==
    pc = "done" /\ (\E r \in Rtts : histogram[r] > 0) =>
       LET n == FoldFunction(+, 0, histogram)
           upto(S) == FoldFunctionOnSet(+, 0, histogram, S)
       IN \A p \in Percentiles :
             LET v == latency[p] IN
             /\ v \in Rtts /\ histogram[v] > 0
             /\ 100 * upto({r \in Rtts : r <= v}) >= p * n
             /\ 100 * upto({r \in Rtts : r < v}) <= p * n
=============================================================================
