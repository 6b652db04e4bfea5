--------------------------- MODULE Worker_proofs ----------------------------
(***************************************************************************)
(* The books of a worker: lemmas that hold for every protocol on top of    *)
(* module Worker.                                                          *)
(*                                                                         *)
(* Ledger(s, f, o) says that statistics s, requests in flight f and open   *)
(* streams o agree with each other.  A callback that closes a stream and   *)
(* issues the next request passes through intermediate values of the       *)
(* three; each lemma below takes one such piece of a callback.             *)
(***************************************************************************)
EXTENDS Worker, FiniteSetTheorems, SequenceTheorems, TLAPS

Of(o, c) == {x \in o : x[1] = c}

Ledger(s, f, o) ==
  /\ s \in StatsType
  /\ f \in [Clients -> Nat]
  /\ o \subseteq Clients \X Nat
  /\ ~Qps => IsFiniteSet(o)
  /\ ~Timing => s.req_status_success + s.req_failed + Cardinality(o)
                  <= s.req_started
  /\ Main /\ ~Qps => \A c \in Clients : f[c] <= Cardinality(Of(o, c))
  /\ current_phase \in {"INITIAL_IDLE", "WARM_UP"} =>
       s = NoStats /\ \A c \in Clients : f[c] = 0

\* the books balance between callbacks
Books ==
  /\ Ledger(stats, req_inflight, streams)
  /\ ~Timing => Main
  /\ BudgetConserved
  /\ \A x \in streams : x[2] <= issued[x[1]]

\* The streams of one client among finitely many.
LEMMA ClientStreams ==
  ASSUME NEW o, IsFiniteSet(o), NEW c
  PROVE  /\ IsFiniteSet(Of(o, c))
         /\ Cardinality(o) \in Nat /\ Cardinality(Of(o, c)) \in Nat
         /\ Cardinality(Of(o, c)) <= Cardinality(o)
<1>1. Of(o, c) \subseteq o
  BY DEF Of
<1> QED
  BY <1>1, FS_Subset, FS_CardinalityType

\* Giving up a client takes exactly its streams.
LEMMA WithoutClient ==
  ASSUME NEW o, IsFiniteSet(o), NEW c, NEW p, p = {x \in o : x[1] # c}
  PROVE  /\ IsFiniteSet(p)
         /\ Cardinality(p) = Cardinality(o) - Cardinality(Of(o, c))
<1> DEFINE q == Of(o, c)
<1>1. p = o \ q /\ o \cap q = q
  BY DEF Of
<1> HIDE DEF q
<1>2. /\ IsFiniteSet(o \ q)
      /\ Cardinality(o \ q) = Cardinality(o) - Cardinality(o \cap q)
  BY FS_Difference
<1>3. IsFiniteSet(p) /\ Cardinality(p) = Cardinality(o) - Cardinality(q)
  BY <1>1, <1>2
<1> QED
  BY <1>3 DEF q

\* Closing a stream takes one from its client and nothing from the others.
LEMMA WithoutStream ==
  ASSUME NEW o, IsFiniteSet(o), NEW c, NEW i, <<c, i>> \in o
  PROVE  LET p == o \ {<<c, i>>}
         IN /\ IsFiniteSet(p)
            /\ Cardinality(p) = Cardinality(o) - 1
            /\ Cardinality(Of(p, c)) = Cardinality(Of(o, c)) - 1
            /\ \A d : d # c => Of(p, d) = Of(o, d)
<1> DEFINE p == o \ {<<c, i>>}
<1>1. IsFiniteSet(p) /\ Cardinality(p) = Cardinality(o) - 1
  BY FS_RemoveElement
<1>2. Of(p, c) = Of(o, c) \ {<<c, i>>} /\ <<c, i>> \in Of(o, c)
  BY DEF Of
<1>3. Cardinality(Of(p, c)) = Cardinality(Of(o, c)) - 1
  BY <1>2, ClientStreams, FS_RemoveElement
<1>4. \A d : d # c => Of(p, d) = Of(o, d)
  BY DEF Of
<1> QED
  BY <1>1, <1>3, <1>4

\* o with the next k requests of client c, after request a
WithNext(o, c, a, k) == o \cup ({c} \X ((a + 1) .. (a + k)))

\* The next k requests of a client add k streams to it and none to the others.
LEMMA WithRequests ==
  ASSUME NEW o, IsFiniteSet(o), NEW c, NEW a \in Nat, NEW k \in Nat,
         \A x \in Of(o, c) : x[2] \in Nat /\ x[2] <= a,
         NEW p, p = WithNext(o, c, a, k)
  PROVE  /\ IsFiniteSet(p)
         /\ Cardinality(p) = Cardinality(o) + k
         /\ Cardinality(Of(p, c)) = Cardinality(Of(o, c)) + k
         /\ \A d : d # c => Of(p, d) = Of(o, d)
<1> DEFINE n == {c} \X ((a + 1) .. (a + k))
<1>1. IsFiniteSet(n) /\ Cardinality(n) = k
  <2> DEFINE r == (a + 1) .. (a + k)
  <2>1. IsFiniteSet(r) /\ Cardinality(r) = k
    <3>1. a + 1 \in Int /\ a + k \in Int
      OBVIOUS
    <3>2. /\ IsFiniteSet(r)
          /\ Cardinality(r) = IF a + 1 > a + k THEN 0 ELSE (a + k) - (a + 1) + 1
      BY ONLY <3>1, FS_Interval
    <3> QED
      BY <3>2
  <2>2. IsFiniteSet({c}) /\ Cardinality({c}) = 1
    BY FS_Singleton
  <2> HIDE DEF r
  <2>3. /\ IsFiniteSet({c} \X r)
        /\ Cardinality({c} \X r) = Cardinality({c}) * Cardinality(r)
    BY <2>1, <2>2, FS_Product
  <2>4. Cardinality({c} \X r) = k
    BY <2>1, <2>2, <2>3
  <2> QED
    BY <2>3, <2>4 DEF r
<1>2. o \cap n = {} /\ Of(o, c) \cap n = {}
  BY DEF Of
<1>3. /\ p = o \cup n
      /\ Of(p, c) = Of(o, c) \cup n /\ \A d : d # c => Of(p, d) = Of(o, d)
  BY DEF Of, WithNext
<1> HIDE DEF n
\* a finite set disjoint from n grows by k
<1>4. ASSUME NEW S, IsFiniteSet(S), S \cap n = {}
      PROVE  IsFiniteSet(S \cup n) /\ Cardinality(S \cup n) = Cardinality(S) + k
  <2>1. /\ IsFiniteSet(S \cup n)
        /\ Cardinality(S \cup n)
             = Cardinality(S) + Cardinality(n) - Cardinality(S \cap n)
    BY <1>1, <1>4, FS_Union
  <2>2. Cardinality(S \cap n) = 0 /\ Cardinality(S) \in Nat
    BY <1>4, FS_EmptySet, FS_CardinalityType
  <2>3. Cardinality(S \cup n) = Cardinality(S) + k
    BY <1>1, <2>1, <2>2
  <2> QED
    BY <2>1, <2>3
<1>5. IsFiniteSet(p) /\ Cardinality(p) = Cardinality(o) + k
  BY <1>2, <1>3, <1>4
<1>6. Cardinality(Of(o, c) \cup n) = Cardinality(Of(o, c)) + k
  BY <1>2, <1>4, ClientStreams
<1> QED
  BY <1>3, <1>5, <1>6 DEF n
-----------------------------------------------------------------------------
\* Counting keeps the type of the statistics.
LEMMA CountFailed ==
  ASSUME NEW s \in StatsType, NEW a \in Nat, NEW b \in Nat
  PROVE  [s EXCEPT !.req_failed = a, !.req_error = b] \in StatsType
  BY DEF StatsType

LEMMA CountClosed ==
  ASSUME NEW s \in StatsType,
         NEW a \in Nat, NEW b \in Nat, NEW c \in Nat, NEW d \in Nat
  PROVE  [s EXCEPT !.req_done = a, !.req_status_success = b,
                   !.req_failed = c, !.req_error = d] \in StatsType
  BY DEF StatsType

\* on_stream_close up to its streams.erase keeps the books.
LEMMA CloseLedger ==
  ASSUME Ledger(stats, req_inflight, streams), ~Timing => Main,
         NEW c \in Clients, NEW i, Main => Known(c, i),
         NEW success \in BOOLEAN, NEW good \in BOOLEAN
  PROVE  Ledger(ClosedStats(success, good), ClosedInflight(c),
                streams \ {<<c, i>>})
<1> DEFINE s == ClosedStats(success, good)
           f == ClosedInflight(c)
           o == streams \ {<<c, i>>}
<1>1. s \in StatsType /\ f \in [Clients -> Nat]
  <2>1. stats \in StatsType /\ req_inflight \in [Clients -> Nat]
    BY DEF Ledger
  <2>2. s \in StatsType
    <3>1. /\ stats.req_done + 1 \in Nat
          /\ stats.req_status_success \in Nat /\ stats.req_status_success + 1 \in Nat
          /\ stats.req_failed \in Nat /\ stats.req_failed + 1 \in Nat
          /\ stats.req_error \in Nat /\ stats.req_error + 1 \in Nat
      BY <2>1 DEF StatsType
    <3> QED
      BY <2>1, <3>1, CountClosed DEF ClosedStats
  <2>3. f \in [Clients -> Nat]
    BY <2>1 DEF ClosedInflight
  <2> QED
    BY <2>2, <2>3
<1>2. o \subseteq Clients \X Nat /\ (~Qps => IsFiniteSet(o))
  BY FS_Subset DEF Ledger
<1>3. current_phase \in {"INITIAL_IDLE", "WARM_UP"} =>
        s = NoStats /\ \A d \in Clients : f[d] = 0
  BY DEF Ledger, ClosedStats, ClosedInflight, Main
<1>4. CASE Main /\ ~Qps
  <2>0. IsFiniteSet(streams) /\ <<c, i>> \in streams
    BY <1>4 DEF Ledger, Known
  <2>1. /\ Cardinality(streams) \in Nat
        /\ Cardinality(o) = Cardinality(streams) - 1
        /\ Cardinality(Of(o, c)) = Cardinality(Of(streams, c)) - 1
        /\ \A d : d # c => Of(o, d) = Of(streams, d)
        /\ Cardinality(Of(streams, c)) \in Nat
    BY <2>0, WithoutStream, ClientStreams
  <2>2. ~Timing => s.req_status_success + s.req_failed + Cardinality(o)
                     <= s.req_started
    BY <1>4, <2>1 DEF Ledger, ClosedStats, StatsType
  <2>3. \A d \in Clients : f[d] <= Cardinality(Of(o, d))
    <3> TAKE d \in Clients
    <3>1. CASE d = c
      <4>1. /\ Cardinality(Of(o, c)) \in Nat
            /\ req_inflight[c] <= Cardinality(Of(streams, c))
            /\ req_inflight[c] \in Nat
        BY <1>2, <1>4, ClientStreams DEF Ledger
      <4>2. f[c] = IF req_inflight[c] > 0 THEN req_inflight[c] - 1
                   ELSE req_inflight[c]
        BY <1>4 DEF Ledger, ClosedInflight
      <4> QED
        BY <2>1, <3>1, <4>1, <4>2
    <3>2. CASE d # c
      <4>1. f[d] = req_inflight[d]
        BY <3>2 DEF Ledger, ClosedInflight
      <4> QED
        BY <1>4, <2>1, <3>2, <4>1 DEF Ledger
    <3> QED
      BY <3>1, <3>2
  <2> QED
    BY <1>1, <1>2, <1>3, <2>2, <2>3 DEF Ledger
<1>5. CASE ~(Main /\ ~Qps)
  <2>1. Timing
    BY <1>5, ConfigAssumption
  <2> QED
    BY <1>1, <1>2, <1>3, <1>5, <2>1 DEF Ledger
<1> QED
  BY <1>4, <1>5

\* on_stream_close of a stream the client does not know only decrements
\* req_inflight.
LEMMA UnknownLedger ==
  ASSUME Ledger(stats, req_inflight, streams), NEW c \in Clients
  PROVE  Ledger(stats, ClosedInflight(c), streams)
<1> DEFINE f == ClosedInflight(c)
<1>1. f \in [Clients -> Nat] /\ \A d \in Clients : f[d] <= req_inflight[d]
  BY DEF Ledger, ClosedInflight
<1>2. Main /\ ~Qps => \A d \in Clients : f[d] <= Cardinality(Of(streams, d))
  <2> SUFFICES ASSUME Main, ~Qps, NEW d \in Clients
               PROVE  f[d] <= Cardinality(Of(streams, d))
    OBVIOUS
  <2>1. Cardinality(Of(streams, d)) \in Nat
    BY ClientStreams DEF Ledger
  <2> QED
    BY <1>1, <2>1 DEF Ledger
<1>3. (\A d \in Clients : req_inflight[d] = 0) => \A d \in Clients : f[d] = 0
  BY DEF ClosedInflight
<1> QED
  BY <1>1, <1>2, <1>3 DEF Ledger

\* Giving up a connection: what was in flight is failed, and its streams go.
LEMMA AbandonLedger ==
  ASSUME NEW s, NEW f, NEW o, Ledger(s, f, o), ~Timing => Main,
         NEW c \in Clients, process_abandoned_streams(c, s, f),
         streams' = {x \in o : x[1] # c}, UNCHANGED current_phase
  PROVE  /\ Ledger(stats, req_inflight, streams)'
         /\ stats'.req_started = s.req_started
<1>1. /\ stats' \in StatsType /\ req_inflight' \in [Clients -> Nat]
      /\ stats'.req_started = s.req_started
  <2>1. s \in StatsType /\ f \in [Clients -> Nat] /\ f[c] \in Nat
    BY DEF Ledger
  <2>2. stats' \in StatsType /\ stats'.req_started = s.req_started
    <3>1. s.req_failed + f[c] \in Nat /\ s.req_error + f[c] \in Nat
      BY <2>1 DEF StatsType
    <3>a. [s EXCEPT !.req_failed = s.req_failed + f[c],
                    !.req_error = s.req_error + f[c]] \in StatsType
      BY <2>1, <3>1, CountFailed
    <3>2. stats' \in StatsType
      BY <2>1, <3>a DEF process_abandoned_streams
    <3>3. stats'.req_started = s.req_started
      BY <2>1 DEF process_abandoned_streams, StatsType
    <3> QED
      BY <3>2, <3>3
  <2>3. req_inflight' \in [Clients -> Nat]
    BY <2>1 DEF process_abandoned_streams
  <2> QED
    BY <2>2, <2>3
<1>2. streams' \subseteq Clients \X Nat /\ (~Qps => IsFiniteSet(streams'))
  BY FS_Subset DEF Ledger
<1>3. Main' = Main
  BY DEF Main
<1>4. current_phase' \in {"INITIAL_IDLE", "WARM_UP"} =>
        stats' = NoStats /\ \A d \in Clients : req_inflight'[d] = 0
  BY DEF Ledger, process_abandoned_streams, Main
<1>5. CASE Main /\ ~Qps
  <2>1. /\ Cardinality(streams') = Cardinality(o) - Cardinality(Of(o, c))
        /\ Cardinality(o) \in Nat /\ Cardinality(Of(o, c)) \in Nat
        /\ Cardinality(Of(o, c)) <= Cardinality(o)
    BY <1>5, WithoutClient, ClientStreams DEF Ledger
  <2>2. /\ stats'.req_status_success = s.req_status_success
        /\ stats'.req_failed = s.req_failed + f[c]
        /\ f[c] \in Nat /\ f[c] <= Cardinality(Of(o, c))
    BY <1>5 DEF Ledger, process_abandoned_streams, StatsType
  <2>3. /\ s.req_status_success \in Nat /\ s.req_failed \in Nat
        /\ s.req_started \in Nat
    BY DEF Ledger, StatsType
  <2>4. ~Timing => stats'.req_status_success + stats'.req_failed
                     + Cardinality(streams') <= stats'.req_started
    BY <1>1, <2>1, <2>2, <2>3 DEF Ledger
  <2>5. \A d \in Clients : req_inflight'[d] <= Cardinality(Of(streams', d))
    <3> TAKE d \in Clients
    <3>1. CASE d = c
      <4>1. Cardinality(Of(streams', c)) \in Nat
        BY <1>2, <1>5, ClientStreams
      <4> QED
        BY <1>5, <3>1, <4>1 DEF Ledger, process_abandoned_streams
    <3>2. CASE d # c
      <4>1. Of(streams', d) = Of(o, d)
        BY <3>2 DEF Of
      <4>2. req_inflight'[d] = f[d]
        BY <1>5, <3>2 DEF Ledger, process_abandoned_streams
      <4> QED
        BY <1>5, <4>1, <4>2 DEF Ledger
    <3> QED
      BY <3>1, <3>2
  <2> QED
    BY <1>1, <1>2, <1>3, <1>4, <2>4, <2>5 DEF Ledger, Of
<1>6. CASE ~(Main /\ ~Qps)
  <2>1. Timing
    BY <1>6, ConfigAssumption
  <2> QED
    BY <1>1, <1>2, <1>3, <1>4, <1>6, <2>1 DEF Ledger
<1> QED
  BY <1>1, <1>5, <1>6

\* submit_request grants no more than it is asked for and than is left.
LEMMA GrantedBound ==
  ASSUME WorkerTypeOK, NEW n \in Nat
  PROVE  /\ Granted(n) \in Nat /\ Granted(n) <= n
         /\ ~Timing => Granted(n) <= total_req_left
         /\ Qps => Granted(n) <= qpsLeft
<1>1. total_req_left \in Nat /\ qpsLeft \in Nat
  BY DEF WorkerTypeOK
<1>2. CASE Qps
  <2>1. Granted(n) = MinOf(n, qpsLeft) /\ Timing
    BY <1>2, ConfigAssumption DEF Granted
  <2> QED
    BY <1>1, <2>1 DEF MinOf
<1>3. CASE ~Qps /\ Timing
  <2>1. Granted(n) = IF total_req_left > 0 THEN n ELSE 0
    BY <1>3 DEF Granted
  <2> QED
    BY <1>1, <1>3, <2>1
<1>4. CASE ~Timing
  <2>1. ~Qps
    BY <1>4, ConfigAssumption
  <2>2. Granted(n) = MinOf(n, total_req_left)
    BY <1>4, <2>1 DEF Granted
  <2> QED
    BY <1>1, <2>1, <2>2 DEF MinOf
<1> QED
  BY <1>2, <1>3, <1>4

\* n calls of submit_request keep the books.
LEMMA SubmitBooks ==
  ASSUME WorkerTypeOK, NEW s, NEW f, NEW o, Ledger(s, f, o), ~Timing => Main,
         BudgetConserved, s.req_started = stats.req_started, o \subseteq streams,
         \A x \in streams : x[2] <= issued[x[1]],
         NEW c \in Clients, NEW n \in Nat, submit_requests(c, n, s, f, o),
         UNCHANGED current_phase
  PROVE  Books'
<1> DEFINE k == Granted(n)
           a == issued[c]
           new == {c} \X ((a + 1) .. (a + k))
<1>1. /\ k \in Nat /\ (~Timing => k <= total_req_left)
      /\ a \in Nat /\ issued \in [Clients -> Nat]
      /\ total_req_left \in Nat /\ total_req_send \in Nat
  BY GrantedBound DEF WorkerTypeOK
<1>2. /\ total_req_left' = BudgetAfter(k) /\ total_req_send' = total_req_send + k
      /\ streams' = o \cup new /\ issued' = [issued EXCEPT ![c] = a + k]
      /\ stats' = StartedStats(s, k)
      /\ req_inflight' = IF Main THEN [f EXCEPT ![c] = f[c] + k] ELSE f
  BY DEF submit_requests
<1>3. Main' = Main
  BY DEF Main
<1> HIDE DEF k, a
<1>4. /\ s \in StatsType /\ f \in [Clients -> Nat] /\ o \subseteq Clients \X Nat
      /\ s.req_started \in Nat /\ s.req_status_success \in Nat
      /\ s.req_failed \in Nat
  BY DEF Ledger, StatsType
<1>5. /\ stats' \in StatsType /\ req_inflight' \in [Clients -> Nat]
      /\ streams' \subseteq Clients \X Nat
      /\ stats'.req_status_success = s.req_status_success
      /\ stats'.req_failed = s.req_failed
      /\ stats'.req_started = IF Main THEN s.req_started + k ELSE s.req_started
  <2>1. s.req_started + k \in Nat /\ f[c] + k \in Nat
    BY <1>1, <1>4
  <2>2. streams' \subseteq Clients \X Nat
    BY <1>1, <1>2, <1>4
  <2>3. req_inflight' \in [Clients -> Nat]
    BY <1>2, <1>4, <2>1
  <2>4. stats' = IF Main THEN [s EXCEPT !.req_started = s.req_started + k] ELSE s
    BY <1>2 DEF StartedStats
  <2> QED
    BY <1>4, <2>1, <2>2, <2>3, <2>4 DEF StatsType
<1>6. \A x \in streams' : x[2] <= issued'[x[1]]
  <2> TAKE x \in streams'
  <2>1. CASE x \in o
    <3>1. x[1] \in Clients /\ x[2] \in Nat /\ x[2] <= issued[x[1]]
      BY <1>4, <2>1
    <3> QED
      BY <1>1, <1>2, <3>1 DEF a
  <2>2. CASE x \in new
    <3>1. x[1] = c /\ x[2] \in (a + 1) .. (a + k)
      BY <2>2
    <3> QED
      BY <1>1, <1>2, <3>1
  <2> QED
    BY <1>2, <2>1, <2>2
<1>7. BudgetConserved'
  BY <1>1, <1>2, <1>3, <1>4, <1>5 DEF BudgetConserved, BudgetAfter
<1>8. current_phase' \in {"INITIAL_IDLE", "WARM_UP"} =>
        stats' = NoStats /\ \A d \in Clients : req_inflight'[d] = 0
  BY <1>2 DEF Ledger, Main, StartedStats
<1>9. ~Qps =>
        /\ IsFiniteSet(streams')
        /\ Cardinality(streams') = Cardinality(o) + k
        /\ Cardinality(Of(streams', c)) = Cardinality(Of(o, c)) + k
        /\ \A d : d # c => Of(streams', d) = Of(o, d)
  <2> SUFFICES ASSUME ~Qps
               PROVE  /\ IsFiniteSet(streams')
                      /\ Cardinality(streams') = Cardinality(o) + k
                      /\ Cardinality(Of(streams', c)) = Cardinality(Of(o, c)) + k
                      /\ \A d : d # c => Of(streams', d) = Of(o, d)
    OBVIOUS
  <2>1. IsFiniteSet(o)
    BY DEF Ledger
  <2>2. \A x \in Of(o, c) : x[2] \in Nat /\ x[2] <= a
    BY <1>4 DEF Of, a
  <2>3. streams' = WithNext(o, c, a, k)
    BY <1>2 DEF WithNext
  <2>4. a \in Nat /\ k \in Nat
    BY <1>1
  <2> QED
    BY ONLY <2>1, <2>2, <2>3, <2>4, WithRequests
<1>10. ~Timing => stats'.req_status_success + stats'.req_failed
                    + Cardinality(streams') <= stats'.req_started
  <2> SUFFICES ASSUME ~Timing
               PROVE  stats'.req_status_success + stats'.req_failed
                        + Cardinality(streams') <= stats'.req_started
    OBVIOUS
  <2>1. ~Qps /\ Main
    BY ConfigAssumption
  <2>2. Cardinality(o) \in Nat
    BY <2>1, FS_CardinalityType DEF Ledger
  <2>3. s.req_status_success + s.req_failed + Cardinality(o) <= s.req_started
    BY DEF Ledger
  <2> QED
    BY <1>1, <1>4, <1>5, <1>9, <2>1, <2>2, <2>3
<1>11. Main /\ ~Qps =>
         \A d \in Clients : req_inflight'[d] <= Cardinality(Of(streams', d))
  <2> SUFFICES ASSUME Main, ~Qps, NEW d \in Clients
               PROVE  req_inflight'[d] <= Cardinality(Of(streams', d))
    OBVIOUS
  <2>1. f[d] <= Cardinality(Of(o, d)) /\ f[d] \in Nat
    BY <1>4 DEF Ledger
  <2>2. Cardinality(Of(o, d)) \in Nat
    BY ClientStreams DEF Ledger
  <2>3. CASE d = c
    <3>1. req_inflight'[c] = f[c] + k
      BY <1>2, <1>4
    <3>2. Cardinality(Of(streams', c)) = Cardinality(Of(o, c)) + k
      BY <1>9
    <3> QED
      BY <1>1, <2>1, <2>2, <2>3, <3>1, <3>2
  <2>4. CASE d # c
    <3>1. req_inflight'[d] = f[d] /\ Of(streams', d) = Of(o, d)
      BY <1>2, <1>4, <1>9, <2>4
    <3> QED
      BY <2>1, <3>1
  <2> QED
    BY <2>3, <2>4
<1>12. Ledger(stats, req_inflight, streams)'
  BY <1>3, <1>5, <1>8, <1>9, <1>10, <1>11 DEF Ledger, Of
<1> QED
  BY <1>3, <1>6, <1>7, <1>12 DEF Books
-----------------------------------------------------------------------------
(***************************************************************************)
(* Types.  S is what the protocol puts into inq.                           *)
(***************************************************************************)
ConnTypeOK(S) ==
  /\ sock \in [Clients -> {"none", "unreached", "connecting", "tls", "open"}]
  /\ wev \in [Clients -> BOOLEAN]
  /\ timer \in [Clients -> SUBSET {"active", "inactivity"}]
  /\ streams \subseteq Clients \X Nat
  /\ issued \in [Clients -> Nat]
  /\ terminated \in [Clients -> BOOLEAN]
  /\ srv \in [Clients -> Seq(Nat)]
  /\ inq \in [Clients -> Seq(S)]

CountTypeOK ==
  /\ total_req_left \in Nat /\ total_req_send \in Nat
  /\ stats \in StatsType
  /\ qpsLeft \in Nat /\ blocked \in Seq(Clients) /\ granted \in Nat
  /\ brk \in BOOLEAN
  /\ req_inflight \in [Clients -> Nat]
  /\ wb \in [Clients -> Seq(Nat)]

\* what on_stream_close changes
CloseTypeOK ==
  /\ CountTypeOK
  /\ streams \subseteq Clients \X Nat /\ issued \in [Clients -> Nat]
  /\ terminated \in [Clients -> BOOLEAN]
  /\ timer \in [Clients -> SUBSET {"active", "inactivity"}]

LoopTypeOK ==
  /\ current_phase \in {"INITIAL_IDLE", "WARM_UP", "MAIN_DURATION",
                        "DURATION_OVER"}
  /\ loop \in {"start", "running", "done", "aborted"}
  /\ running \in Clients \cup {NoClient}
  /\ addr \in [Clients -> Nat]

\* The three parts are the type invariant.
LEMMA TypeParts ==
  ASSUME NEW S
  PROVE  (WorkerTypeOK /\ inq \in [Clients -> Seq(S)])
           <=> (ConnTypeOK(S) /\ CountTypeOK /\ LoopTypeOK)
  BY DEF WorkerTypeOK, ConnTypeOK, CountTypeOK, LoopTypeOK

\* A timer set stays one when the inactivity timer joins it.
LEMMA TimerType ==
  ASSUME NEW t \in SUBSET {"active", "inactivity"}, NEW n
  PROVE  /\ Inactivity \in SUBSET {"active", "inactivity"}
         /\ t \cup Inactivity \in SUBSET {"active", "inactivity"}
         /\ t \cup Inactivity \cup ActiveTimer(n) \in SUBSET {"active", "inactivity"}
  BY DEF Inactivity, ActiveTimer

\* disconnect, and disconnect with a new connect
LEMMA TeardownType ==
  ASSUME NEW S, ConnTypeOK(S), NEW D, NEW s \in {"none", "connecting"},
         NEW w \in BOOLEAN, NEW t \in SUBSET {"active", "inactivity"},
         Teardown(D, s, w, t)
  PROVE  ConnTypeOK(S)'
<1>1. <<>> \in Seq(Nat) /\ <<>> \in Seq(S)
  BY EmptySeq
<1>2. sock' \in [Clients -> {"none", "unreached", "connecting", "tls", "open"}]
  BY DEF Teardown, SockAfter, ConnTypeOK
<1>3. wev' \in [Clients -> BOOLEAN]
  BY DEF Teardown, ConnTypeOK
<1>4. timer' \in [Clients -> SUBSET {"active", "inactivity"}]
  BY DEF Teardown, ConnTypeOK
<1>5. streams' \subseteq Clients \X Nat /\ issued' \in [Clients -> Nat]
  BY DEF Teardown, ConnTypeOK
<1>6. terminated' \in [Clients -> BOOLEAN]
  BY DEF Teardown, ConnTypeOK
<1>7. srv' \in [Clients -> Seq(Nat)] /\ inq' \in [Clients -> Seq(S)]
  BY <1>1 DEF Teardown, ConnTypeOK
<1> QED
  BY <1>2, <1>3, <1>4, <1>5, <1>6, <1>7 DEF ConnTypeOK

\* process_abandoned_streams
LEMMA AbandonType ==
  ASSUME NEW s \in StatsType, NEW f \in [Clients -> Nat], NEW c \in Clients,
         process_abandoned_streams(c, s, f)
  PROVE  stats' \in StatsType /\ req_inflight' \in [Clients -> Nat]
<1>1. s.req_failed + f[c] \in Nat /\ s.req_error + f[c] \in Nat
  BY DEF StatsType
<1>2. [s EXCEPT !.req_failed = s.req_failed + f[c],
                !.req_error = s.req_error + f[c]] \in StatsType
  BY <1>1, CountFailed
<1> QED
  BY <1>2 DEF process_abandoned_streams

\* A block of k entries is a sequence.
LEMMA BlockType ==
  ASSUME NEW k \in Nat, NEW c \in Clients, NEW a \in Nat
  PROVE  /\ [i \in 1 .. k |-> c] \in Seq(Clients)
         /\ [i \in 1 .. k |-> a + i] \in Seq(Nat)
<1>1. [i \in 1 .. k |-> c] \in [1 .. k -> Clients]
  OBVIOUS
<1>2. [i \in 1 .. k |-> a + i] \in [1 .. k -> Nat]
  OBVIOUS
<1> QED
  BY <1>1, <1>2, SeqDef

\* submit_request
LEMMA SubmitType ==
  ASSUME WorkerTypeOK, NEW s \in StatsType, NEW f \in [Clients -> Nat],
         NEW o, o \subseteq Clients \X Nat, NEW c \in Clients, NEW n \in Nat,
         submit_requests(c, n, s, f, o)
  PROVE  /\ CountTypeOK'
         /\ streams' \subseteq Clients \X Nat /\ issued' \in [Clients -> Nat]
<1> DEFINE k == Granted(n)
<1>1. /\ k \in Nat /\ k <= n /\ (~Timing => k <= total_req_left)
      /\ (Qps => k <= qpsLeft)
  BY GrantedBound
<1>2. /\ total_req_left' = BudgetAfter(k) /\ total_req_send' = total_req_send + k
      /\ qpsLeft' = TokensAfter(k) /\ blocked' = BlockedAfter(c, n - k)
      /\ streams' = o \cup ({c} \X ((issued[c] + 1) .. (issued[c] + k)))
      /\ issued' = [issued EXCEPT ![c] = issued[c] + k]
      /\ wb' = [wb EXCEPT ![c] = wb[c] \o [i \in 1 .. k |-> issued[c] + i]]
      /\ stats' = StartedStats(s, k)
      /\ req_inflight' = IF Main THEN [f EXCEPT ![c] = f[c] + k] ELSE f
      /\ brk' = (brk \/ (~Qps /\ k < n /\ ~Main))
      /\ granted' = granted
  BY DEF submit_requests
<1> HIDE DEF k
<1>3. /\ total_req_left \in Nat /\ total_req_send \in Nat /\ qpsLeft \in Nat
      /\ blocked \in Seq(Clients) /\ issued \in [Clients -> Nat]
      /\ wb \in [Clients -> Seq(Nat)] /\ granted \in Nat
  BY DEF WorkerTypeOK
<1>4. total_req_left' \in Nat /\ total_req_send' \in Nat /\ qpsLeft' \in Nat
  BY <1>1, <1>2, <1>3 DEF BudgetAfter, TokensAfter
<1>5. blocked' \in Seq(Clients)
  <2>1. n - k \in Nat
    BY <1>1
  <2>2. [i \in 1 .. (n - k) |-> c] \in Seq(Clients)
    BY <2>1, BlockType
  <2>3. blocked \o [i \in 1 .. (n - k) |-> c] \in Seq(Clients)
    BY <1>3, <2>2, ConcatProperties
  <2> QED
    BY <1>2, <1>3, <2>3 DEF BlockedAfter
<1>6. wb' \in [Clients -> Seq(Nat)]
  <2>1. wb[c] \in Seq(Nat) /\ issued[c] \in Nat
    BY <1>3
  <2>2. [i \in 1 .. k |-> issued[c] + i] \in Seq(Nat)
    BY <1>1, <2>1, BlockType
  <2>3. wb[c] \o [i \in 1 .. k |-> issued[c] + i] \in Seq(Nat)
    BY <2>1, <2>2, ConcatProperties
  <2> QED
    BY <1>2, <1>3, <2>3
<1>7. issued' \in [Clients -> Nat] /\ streams' \subseteq Clients \X Nat
  <2>1. issued[c] \in Nat /\ issued[c] + k \in Nat
    BY <1>1, <1>3
  <2>2. {c} \X ((issued[c] + 1) .. (issued[c] + k)) \subseteq Clients \X Nat
    BY <1>1, <2>1
  <2> QED
    BY <1>2, <1>3, <2>1, <2>2
<1>8. stats' \in StatsType
  <2>1. s.req_started + k \in Nat
    BY <1>1 DEF StatsType
  <2>2. stats' = IF Main THEN [s EXCEPT !.req_started = s.req_started + k] ELSE s
    BY <1>2 DEF StartedStats
  <2> QED
    BY <2>1, <2>2 DEF StatsType
<1>9. req_inflight' \in [Clients -> Nat]
  <2>1. f[c] + k \in Nat
    BY <1>1
  <2> QED
    BY <1>2, <2>1
<1>10. brk' \in BOOLEAN
  BY <1>2
<1> QED
  BY <1>2, <1>3, <1>4, <1>5, <1>6, <1>7, <1>8, <1>9, <1>10 DEF CountTypeOK

\* connection_made
LEMMA ConnectionType ==
  ASSUME NEW S, WorkerTypeOK, inq \in [Clients -> Seq(S)], NEW c \in Clients,
         connection_made(c)
  PROVE  ConnTypeOK(S)' /\ CountTypeOK'
<1>1. /\ stats \in StatsType /\ req_inflight \in [Clients -> Nat]
      /\ streams \subseteq Clients \X Nat /\ FirstRequests \in Nat
  BY ConfigAssumption DEF WorkerTypeOK, FirstRequests
<1>2. submit_requests(c, FirstRequests, stats, req_inflight, streams)
  BY DEF connection_made
<1>3. /\ CountTypeOK'
      /\ streams' \subseteq Clients \X Nat /\ issued' \in [Clients -> Nat]
  BY <1>1, <1>2, SubmitType
<1>4. sock' \in [Clients -> {"none", "unreached", "connecting", "tls", "open"}]
  BY DEF connection_made, WorkerTypeOK
<1>5. wev' \in [Clients -> BOOLEAN]
  BY DEF connection_made, WorkerTypeOK
<1>6. timer' \in [Clients -> SUBSET {"active", "inactivity"}]
  BY TimerType DEF connection_made, WorkerTypeOK
<1>7. terminated' = terminated /\ srv' = srv /\ inq' = inq
  BY DEF connection_made
<1> QED
  BY <1>3, <1>4, <1>5, <1>6, <1>7 DEF ConnTypeOK, WorkerTypeOK

\* the statistics on_stream_close leaves
LEMMA ClosedType ==
  ASSUME WorkerTypeOK, NEW c \in Clients,
         NEW success \in BOOLEAN, NEW good \in BOOLEAN
  PROVE  /\ ClosedStats(success, good) \in StatsType
         /\ ClosedInflight(c) \in [Clients -> Nat]
<1>1. stats \in StatsType /\ req_inflight \in [Clients -> Nat]
  BY DEF WorkerTypeOK
<1>2. /\ stats.req_done + 1 \in Nat
      /\ stats.req_status_success \in Nat /\ stats.req_status_success + 1 \in Nat
      /\ stats.req_failed \in Nat /\ stats.req_failed + 1 \in Nat
      /\ stats.req_error \in Nat /\ stats.req_error + 1 \in Nat
  BY <1>1 DEF StatsType
<1>3. ClosedStats(success, good) \in StatsType
  BY <1>1, <1>2, CountClosed DEF ClosedStats
<1>4. ClosedInflight(c) \in [Clients -> Nat]
  BY <1>1 DEF ClosedInflight
<1> QED
  BY <1>3, <1>4

\* on_stream_close
LEMMA StreamCloseType ==
  ASSUME WorkerTypeOK, NEW c \in Clients, NEW i,
         NEW success \in BOOLEAN, NEW good \in BOOLEAN, NEW final,
         on_stream_close(c, i, success, good, final)
  PROVE  CloseTypeOK'
<1> DEFINE s == ClosedStats(success, good)
           f == ClosedInflight(c)
           o == streams \ {<<c, i>>}
           n == IF final THEN 0 ELSE 1
<1>1. /\ s \in StatsType /\ f \in [Clients -> Nat]
      /\ o \subseteq Clients \X Nat /\ n \in Nat
  BY ClosedType DEF WorkerTypeOK
<1>2. \/ /\ req_inflight' = f
         /\ UNCHANGED <<sharedVars, qpsVars, brk, sessVars, stats, wb>>
         /\ timer' = [timer EXCEPT ![c] = timer[c] \cup Inactivity]
      \/ /\ terminated' = [terminated EXCEPT ![c] = TRUE]
         /\ req_inflight' = f /\ stats' = s /\ streams' = o
         /\ UNCHANGED <<sharedVars, qpsVars, brk, issued, wb>>
         /\ timer' = [timer EXCEPT ![c] = timer[c] \cup Inactivity]
      \/ /\ submit_requests(c, n, s, f, o)
         /\ timer' = [timer EXCEPT ![c] = timer[c] \cup Inactivity \cup ActiveTimer(n)]
         /\ UNCHANGED terminated
  BY DEF on_stream_close
<1> HIDE DEF s, f, o, n
<1>3. timer' \in [Clients -> SUBSET {"active", "inactivity"}]
  <2>1. timer \in [Clients -> SUBSET {"active", "inactivity"}]
    BY DEF WorkerTypeOK
  <2>2. timer[c] \in SUBSET {"active", "inactivity"}
    BY <2>1
  <2>3. /\ timer[c] \cup Inactivity \in SUBSET {"active", "inactivity"}
        /\ timer[c] \cup Inactivity \cup ActiveTimer(n)
             \in SUBSET {"active", "inactivity"}
    BY <2>2, TimerType
  <2>4. \E t \in SUBSET {"active", "inactivity"} : timer' = [timer EXCEPT ![c] = t]
    BY <1>2, <2>3
  <2> QED
    BY <2>1, <2>4
<1>4. CASE submit_requests(c, n, s, f, o) /\ UNCHANGED terminated
  BY <1>1, <1>3, <1>4, SubmitType DEF WorkerTypeOK, CloseTypeOK
<1>5. CASE /\ req_inflight' = f
           /\ UNCHANGED <<sharedVars, qpsVars, brk, sessVars, stats, wb>>
  BY <1>1, <1>3, <1>5
     DEF WorkerTypeOK, CountTypeOK, CloseTypeOK, sharedVars, qpsVars, sessVars
<1>6. CASE /\ terminated' = [terminated EXCEPT ![c] = TRUE]
           /\ req_inflight' = f /\ stats' = s /\ streams' = o
           /\ UNCHANGED <<sharedVars, qpsVars, brk, issued, wb>>
  BY <1>1, <1>3, <1>6
     DEF WorkerTypeOK, CountTypeOK, CloseTypeOK, sharedVars, qpsVars
<1> QED
  BY <1>2, <1>4, <1>5, <1>6
=============================================================================
