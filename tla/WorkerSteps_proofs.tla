------------------------- MODULE WorkerSteps_proofs -------------------------
(***************************************************************************)
(* Every callback of a worker, and every step of its environment, keeps    *)
(* the types and the books, whatever the protocol.                         *)
(***************************************************************************)
EXTENDS Worker_proofs

\* fail
LEMMA FailType ==
  ASSUME NEW S, ConnTypeOK(S), CountTypeOK, NEW c \in Clients, fail(c)
  PROVE  /\ ConnTypeOK(S)'
         /\ stats' \in StatsType /\ req_inflight' \in [Clients -> Nat]
<1>1. Teardown({c}, "none", FALSE, {})
  BY DEF fail, disconnect
<1>2. {} \in SUBSET {"active", "inactivity"}
  OBVIOUS
<1>3. ConnTypeOK(S)'
  BY <1>1, <1>2, TeardownType
<1>4. stats' \in StatsType /\ req_inflight' \in [Clients -> Nat]
  BY AbandonType DEF fail, CountTypeOK
<1> QED
  BY <1>3, <1>4

\* A part of a sequence of numbers.
LEMMA PartType ==
  ASSUME NEW w \in Seq(Nat), NEW k \in 0 .. Len(w)
  PROVE  /\ SubSeq(w, 1, k) \in Seq(Nat)
         /\ SubSeq(w, k + 1, Len(w)) \in Seq(Nat)
<1>1. Len(w) \in Nat /\ \A j \in 1 .. Len(w) : w[j] \in Nat
  BY LenProperties, ElementOfSeq
<1>2. /\ k \in Int /\ k + 1 \in Int /\ Len(w) \in Int /\ 1 \in Int
      /\ \A j \in 1 .. k : w[j] \in Nat
      /\ \A j \in (k + 1) .. Len(w) : w[j] \in Nat
  BY <1>1
<1>3. SubSeq(w, 1, k) \in Seq(Nat)
  BY <1>2, SubSeqProperties
<1>4. SubSeq(w, k + 1, Len(w)) \in Seq(Nat)
  BY <1>2, SubSeqProperties
<1> QED
  BY <1>3, <1>4

\* the two ways a write ends
LEMMA WriteSomeType ==
  ASSUME NEW S, ConnTypeOK(S), CountTypeOK, NEW c \in Clients, WriteSome(c)
  PROVE  ConnTypeOK(S)' /\ CountTypeOK'
<1>1. PICK k \in 0 .. Len(wb[c]) :
        /\ srv' = [srv EXCEPT ![c] = srv[c] \o SubSeq(wb[c], 1, k)]
        /\ wb' = [wb EXCEPT ![c] = SubSeq(wb[c], k + 1, Len(wb[c]))]
        /\ wev' = [wev EXCEPT ![c] = k < Len(wb[c])]
  BY DEF WriteSome
<1>2. wb[c] \in Seq(Nat) /\ srv[c] \in Seq(Nat)
  BY DEF ConnTypeOK, CountTypeOK
<1>3. /\ SubSeq(wb[c], 1, k) \in Seq(Nat)
      /\ SubSeq(wb[c], k + 1, Len(wb[c])) \in Seq(Nat)
  BY <1>2, PartType
<1>4. srv[c] \o SubSeq(wb[c], 1, k) \in Seq(Nat)
  BY <1>2, <1>3, ConcatProperties
<1>5. srv' \in [Clients -> Seq(Nat)] /\ wb' \in [Clients -> Seq(Nat)]
  BY <1>1, <1>3, <1>4 DEF ConnTypeOK, CountTypeOK
<1>6. (k < Len(wb[c])) \in BOOLEAN
  OBVIOUS
<1>7. wev' \in [Clients -> BOOLEAN]
  BY <1>1, <1>6 DEF ConnTypeOK
<1>8. timer' \in [Clients -> SUBSET {"active", "inactivity"}]
  BY TimerType DEF WriteSome, ConnTypeOK
<1>9. UNCHANGED <<sharedVars, qpsVars, brk, stats, sock, sessVars, inq,
                  req_inflight>>
  BY DEF WriteSome
<1> QED
  BY <1>5, <1>7, <1>8, <1>9
     DEF ConnTypeOK, CountTypeOK, sharedVars, qpsVars, sessVars

LEMMA WriteFailsType ==
  ASSUME NEW S, ConnTypeOK(S), CountTypeOK, NEW c \in Clients, WriteFails(c)
  PROVE  ConnTypeOK(S)' /\ CountTypeOK'
<1>1. PICK k \in 0 .. Len(wb[c]) :
        wb' = [wb EXCEPT ![c] = SubSeq(wb[c], k + 1, Len(wb[c]))]
  BY DEF WriteFails
<1>2. wb[c] \in Seq(Nat)
  BY DEF CountTypeOK
<1>3. SubSeq(wb[c], k + 1, Len(wb[c])) \in Seq(Nat)
  BY <1>2, PartType
<1>4. wb' \in [Clients -> Seq(Nat)]
  BY <1>1, <1>3 DEF CountTypeOK
<1>5. fail(c) /\ UNCHANGED <<sharedVars, qpsVars, brk>>
  BY DEF WriteFails
<1>6. /\ ConnTypeOK(S)'
      /\ stats' \in StatsType /\ req_inflight' \in [Clients -> Nat]
  BY <1>5, FailType
<1> QED
  BY <1>4, <1>5, <1>6 DEF CountTypeOK, sharedVars, qpsVars

\* try_again_or_fail
LEMMA TryAgainType ==
  ASSUME NEW S, ConnTypeOK(S), CountTypeOK, LoopTypeOK, NEW c \in Clients,
         NEW s \in StatsType, NEW f \in [Clients -> Nat], NEW requested,
         try_again_or_fail(c, s, f, requested)
  PROVE  ConnTypeOK(S)' /\ CountTypeOK' /\ LoopTypeOK'
<1>1. Inactivity \in SUBSET {"active", "inactivity"}
  BY DEF Inactivity
<1>2. \/ Teardown({c}, "connecting", TRUE, Inactivity)
      \/ Teardown({c}, "none", FALSE, Inactivity)
      \/ Teardown({c}, "none", FALSE, {})
  BY DEF try_again_or_fail, reconnect, disconnect
<1>3. {} \in SUBSET {"active", "inactivity"}
  OBVIOUS
<1>4. ConnTypeOK(S)'
  BY <1>1, <1>2, <1>3, TeardownType
<1>5. stats' \in StatsType /\ req_inflight' \in [Clients -> Nat]
  BY AbandonType DEF try_again_or_fail
<1>6. /\ running' = NoClient
      /\ UNCHANGED <<sharedVars, qpsVars, loop, brk, current_phase, addr, wb>>
  BY DEF try_again_or_fail
<1> QED
  BY <1>4, <1>5, <1>6 DEF CountTypeOK, LoopTypeOK, sharedVars, qpsVars

\* A callback of one client keeps the types.
LEMMA ClientStepType ==
  ASSUME NEW S, WorkerTypeOK, inq \in [Clients -> Seq(S)],
         NEW c \in Clients, ClientStep(c)
  PROVE  WorkerTypeOK' /\ (inq \in [Clients -> Seq(S)])'
<1> SUFFICES ConnTypeOK(S)' /\ CountTypeOK' /\ LoopTypeOK'
  BY DEF WorkerTypeOK, ConnTypeOK, CountTypeOK, LoopTypeOK
<1>0. ConnTypeOK(S) /\ CountTypeOK /\ LoopTypeOK
  BY TypeParts
<1>1. CASE ConnectDone(c)
  <2>1. connection_made(c) /\ UNCHANGED <<current_phase, loop, running, addr>>
    BY <1>1 DEF ConnectDone
  <2> QED
    BY <1>0, <2>1, ConnectionType DEF LoopTypeOK
<1>2. CASE ConnectFailed(c)
  <2>1. UNCHANGED <<sharedVars, qpsVars, loopVars, current_phase, wb>>
    BY <1>2 DEF ConnectFailed
  <2>2. CASE \E a \in 0 .. addr[c] - 1 :
               /\ addr' = [addr EXCEPT ![c] = a]
               /\ reconnect(c)
               /\ UNCHANGED <<stats, req_inflight>>
    <3>1. PICK a \in 0 .. addr[c] - 1 : addr' = [addr EXCEPT ![c] = a]
      BY <2>2
    <3>2. addr' \in [Clients -> Nat]
      BY <1>0, <3>1 DEF LoopTypeOK
    <3>3. Teardown({c}, "connecting", TRUE, Inactivity)
      BY <2>2 DEF reconnect
    <3>4. Inactivity \in SUBSET {"active", "inactivity"}
      BY DEF Inactivity
    <3>5. ConnTypeOK(S)'
      BY <1>0, <3>3, <3>4, TeardownType
    <3> QED
      BY <1>0, <2>1, <2>2, <3>2, <3>5
         DEF LoopTypeOK, CountTypeOK, sharedVars, qpsVars, loopVars
  <2>3. CASE addr' = [addr EXCEPT ![c] = 0] /\ fail(c)
    <3>1. addr' \in [Clients -> Nat]
      BY <1>0, <2>3 DEF LoopTypeOK
    <3>2. /\ ConnTypeOK(S)'
          /\ stats' \in StatsType /\ req_inflight' \in [Clients -> Nat]
      BY <1>0, <2>3, FailType
    <3> QED
      BY <1>0, <2>1, <3>1, <3>2
         DEF LoopTypeOK, CountTypeOK, sharedVars, qpsVars, loopVars
  <2> QED
    BY <1>2, <2>2, <2>3 DEF ConnectFailed
<1>3. CASE TlsStart(c)
  <2>1. sock' \in [Clients -> {"none", "unreached", "connecting", "tls", "open"}]
    BY <1>0, <1>3 DEF TlsStart, ConnTypeOK
  <2>2. wev' \in [Clients -> BOOLEAN]
    BY <1>0, <1>3 DEF TlsStart, ConnTypeOK
  <2>3. timer' \in [Clients -> SUBSET {"active", "inactivity"}]
    BY <1>0, <1>3, TimerType DEF TlsStart, ConnTypeOK
  <2>4. UNCHANGED <<sharedVars, qpsVars, loopVars, current_phase, stats, addr,
                    sessVars, netVars, req_inflight, wb>>
    BY <1>3 DEF TlsStart
  <2> QED
    BY <1>0, <2>1, <2>2, <2>3, <2>4
       DEF ConnTypeOK, LoopTypeOK, CountTypeOK, sharedVars, qpsVars, loopVars,
           sessVars, netVars
<1>4. CASE TlsHandshake(c)
  <2>1. UNCHANGED <<loop, running, current_phase, addr>>
    BY <1>4 DEF TlsHandshake
  <2>2. LoopTypeOK'
    BY <1>0, <2>1 DEF LoopTypeOK
  <2>3. CASE /\ \E b \in BOOLEAN : wev' = [wev EXCEPT ![c] = b]
             /\ timer' = [timer EXCEPT ![c] = @ \cup Inactivity]
             /\ UNCHANGED <<sharedVars, qpsVars, brk, stats, sock, sessVars,
                            netVars, req_inflight, wb>>
    <3>1. wev' \in [Clients -> BOOLEAN]
      BY <1>0, <2>3 DEF ConnTypeOK
    <3>2. timer' \in [Clients -> SUBSET {"active", "inactivity"}]
      BY <1>0, <2>3, TimerType DEF ConnTypeOK
    <3> QED
      BY <1>0, <2>2, <2>3, <3>1, <3>2
         DEF ConnTypeOK, CountTypeOK, sharedVars, qpsVars, sessVars, netVars
  <2>4. CASE connection_made(c)
    BY <2>2, <2>4, ConnectionType
  <2>5. CASE fail(c) /\ UNCHANGED <<sharedVars, qpsVars, brk, wb>>
    <3>1. /\ ConnTypeOK(S)'
          /\ stats' \in StatsType /\ req_inflight' \in [Clients -> Nat]
      BY <1>0, <2>5, FailType
    <3> QED
      BY <1>0, <2>2, <2>5, <3>1 DEF CountTypeOK, sharedVars, qpsVars
  <2> QED
    BY <1>4, <2>3, <2>4, <2>5 DEF TlsHandshake
<1>5. CASE writecb(c) \/ ReadDrained(c)
  <2>1. ConnTypeOK(S)' /\ CountTypeOK'
    BY <1>0, <1>5, WriteSomeType, WriteFailsType DEF writecb, ReadDrained
  <2>2. running' \in Clients \cup {NoClient}
    BY <1>0, <1>5 DEF writecb, ReadDrained, LoopTypeOK
  <2>3. UNCHANGED <<loop, current_phase, addr>>
    BY <1>5 DEF writecb, ReadDrained, WriteSome, WriteFails
  <2> QED
    BY <1>0, <2>1, <2>2, <2>3 DEF LoopTypeOK
<1>6. CASE StaleWrite(c)
  <2>1. UNCHANGED <<sharedVars, qpsVars, loopVars, current_phase, addr, wb>>
    BY <1>6 DEF StaleWrite
  <2>2. CASE fail(c)
    <3>1. /\ ConnTypeOK(S)'
          /\ stats' \in StatsType /\ req_inflight' \in [Clients -> Nat]
      BY <1>0, <2>2, FailType
    <3> QED
      BY <1>0, <2>1, <3>1
         DEF LoopTypeOK, CountTypeOK, sharedVars, qpsVars, loopVars
  <2>3. CASE /\ wev' = [wev EXCEPT ![c] = FALSE]
             /\ timer' = [timer EXCEPT ![c] = @ \cup Inactivity]
             /\ UNCHANGED <<sock, sessVars, netVars, stats, req_inflight>>
    <3>1. wev' \in [Clients -> BOOLEAN]
      BY <1>0, <2>3 DEF ConnTypeOK
    <3>2. timer' \in [Clients -> SUBSET {"active", "inactivity"}]
      BY <1>0, <2>3, TimerType DEF ConnTypeOK
    <3> QED
      BY <1>0, <2>1, <2>3, <3>1, <3>2
         DEF LoopTypeOK, ConnTypeOK, CountTypeOK, sharedVars, qpsVars, loopVars,
             sessVars, netVars
  <2> QED
    BY <1>6, <2>2, <2>3 DEF StaleWrite
<1>7. CASE ReadEof(c)
  <2>1. try_again_or_fail(c, stats, req_inflight, FALSE)
    BY <1>7 DEF ReadEof
  <2>2. stats \in StatsType /\ req_inflight \in [Clients -> Nat]
    BY <1>0 DEF CountTypeOK
  <2> QED
    BY <1>0, <2>1, <2>2, TryAgainType
<1>8. CASE conn_timeout_cb(c)
  <2>1. UNCHANGED <<sharedVars, qpsVars, loopVars, current_phase, addr, wb>>
    BY <1>8 DEF conn_timeout_cb
  <2> DEFINE s == IF Main
                    THEN [stats EXCEPT !.req_timedout = @ + req_inflight[c]]
                    ELSE stats
  <2>2. CASE disconnect({c}) /\ process_abandoned_streams(c, s, req_inflight)
    <3>1. Teardown({c}, "none", FALSE, {}) /\ {} \in SUBSET {"active", "inactivity"}
      BY <2>2 DEF disconnect
    <3>2. ConnTypeOK(S)'
      BY <1>0, <3>1, TeardownType
    <3>3. /\ stats \in StatsType /\ req_inflight \in [Clients -> Nat]
          /\ stats.req_timedout + req_inflight[c] \in Nat
      BY <1>0 DEF CountTypeOK, StatsType
    <3>4. s \in StatsType
      BY <3>3 DEF StatsType
    <3> HIDE DEF s
    <3>5. stats' \in StatsType /\ req_inflight' \in [Clients -> Nat]
      BY <2>2, <3>3, <3>4, AbandonType
    <3> QED
      BY <1>0, <2>1, <3>2, <3>5
         DEF LoopTypeOK, CountTypeOK, sharedVars, qpsVars, loopVars
  <2>3. CASE /\ timer' = [timer EXCEPT ![c] = {}]
             /\ UNCHANGED <<sock, wev, sessVars, netVars, stats, req_inflight>>
    <3>1. timer' \in [Clients -> SUBSET {"active", "inactivity"}]
      BY <1>0, <2>3 DEF ConnTypeOK
    <3> QED
      BY <1>0, <2>1, <2>3, <3>1
         DEF LoopTypeOK, ConnTypeOK, CountTypeOK, sharedVars, qpsVars, loopVars,
             sessVars, netVars
  <2> QED
    BY <1>8, <2>2, <2>3 DEF conn_timeout_cb
<1> QED
  BY <1>1, <1>2, <1>3, <1>4, <1>5, <1>6, <1>7, <1>8 DEF ClientStep

\* How often update_worker_qpsLeft serves a client.
LEMMA TimesType ==
  ASSUME WorkerTypeOK, NEW n \in Nat, NEW c
  PROVE  Times(n, c) \in Nat
<1>1. Len(blocked) \in Nat
  BY LenProperties DEF WorkerTypeOK
<1>2. /\ Len(blocked) - MinOf(n, Len(blocked)) + 1 \in Int
      /\ Len(blocked) \in Int
  BY <1>1 DEF MinOf
<1>3. IsFiniteSet(Served(n))
  BY <1>2, FS_Interval DEF Served
<1>4. {i \in Served(n) : blocked[i] = c} \subseteq Served(n)
  OBVIOUS
<1>5. IsFiniteSet({i \in Served(n) : blocked[i] = c})
  BY <1>3, <1>4, FS_Subset
<1> QED
  BY <1>5, FS_CardinalityType DEF Times

\* update_worker_qpsLeft, with the choice it makes named
QpsStep(q, n, k, t, r) ==
  /\ granted' = granted + q
  /\ qpsLeft' = n - k
  /\ blocked' = SubSeq(blocked, 1, Len(blocked) - k)
  /\ total_req_send' = total_req_send + k
  /\ streams' = streams \cup
       UNION {{c} \X ((issued[c] + 1) .. (issued[c] + r[c])) : c \in Clients}
  /\ issued' = [c \in Clients |-> issued[c] + r[c]]
  /\ wb' = [c \in Clients |-> wb[c] \o [i \in 1 .. r[c] |-> issued[c] + i]]
  /\ stats' = [stats EXCEPT !.req_started = stats.req_started + k]
  /\ req_inflight' = [c \in Clients |-> req_inflight[c] + t[c]]
  /\ wev' = [c \in Clients |-> wev[c] \/ t[c] > 0]
  /\ timer' = [c \in Clients |->
                 IF ActiveTimeout /\ t[c] > 0
                   THEN timer[c] \cup {"active"} ELSE timer[c]]
  /\ UNCHANGED <<total_req_left, loopVars, current_phase, sock, addr,
                 terminated, netVars>>

\* Its numbers are natural numbers, and it takes no more tokens than there are.
LEMMA QpsChoice ==
  ASSUME WorkerTypeOK, update_worker_qpsLeft
  PROVE  \E q \in Nat, n \in Nat, k \in Nat,
            t \in [Clients -> Nat], r \in [Clients -> Nat] :
           /\ k <= n /\ k <= Len(blocked)
           /\ \A c \in Clients : sock[c] # "open" => r[c] = 0
           /\ QpsStep(q, n, k, t, r)
<1>1. PICK q \in QpsCounts :
        LET n == qpsLeft + q
            k == MinOf(n, Len(blocked))
            t == [c \in Clients |-> Times(n, c)]
            r == [c \in Clients |-> IF sock[c] = "open" THEN t[c] ELSE 0]
        IN QpsStep(q, n, k, t, r)
  BY DEF update_worker_qpsLeft, QpsStep
<1> DEFINE n == qpsLeft + q
           k == MinOf(n, Len(blocked))
           t == [c \in Clients |-> Times(n, c)]
           r == [c \in Clients |-> IF sock[c] = "open" THEN t[c] ELSE 0]
<1>2. q \in Nat /\ n \in Nat
  BY ConfigAssumption DEF WorkerTypeOK
<1>3. Len(blocked) \in Nat
  BY LenProperties DEF WorkerTypeOK
<1> HIDE DEF n
<1>4. k \in Nat /\ k <= n /\ k <= Len(blocked)
  BY <1>2, <1>3 DEF MinOf
<1>5. t \in [Clients -> Nat]
  BY <1>2, TimesType
<1> HIDE DEF t
<1>6. /\ r \in [Clients -> Nat]
      /\ \A c \in Clients : sock[c] # "open" => r[c] = 0
  BY <1>5
<1> HIDE DEF k, r
<1>7. QpsStep(q, n, k, t, r)
  BY <1>1 DEF n, k, t, r
<1> QED
  BY <1>2, <1>4, <1>5, <1>6, <1>7

\* A callback of the worker keeps the types.
LEMMA WorkerStepType ==
  ASSUME NEW S, WorkerTypeOK, inq \in [Clients -> Seq(S)], WorkerStep
  PROVE  WorkerTypeOK' /\ (inq \in [Clients -> Seq(S)])'
<1> SUFFICES ConnTypeOK(S)' /\ CountTypeOK' /\ LoopTypeOK'
  BY DEF WorkerTypeOK, ConnTypeOK, CountTypeOK, LoopTypeOK
<1>0. ConnTypeOK(S) /\ CountTypeOK /\ LoopTypeOK
  BY TypeParts
<1>1. CASE run
  <2>1. PICK up \in SUBSET Clients, a \in [Clients -> 0 .. NAddrs - 1] :
          /\ addr' = a
          /\ sock' = [c \in Clients |-> IF c \in up THEN "connecting" ELSE "none"]
          /\ wev' = [c \in Clients |-> c \in up]
          /\ timer' = [c \in Clients |-> IF c \in up THEN Inactivity ELSE {}]
    BY <1>1 DEF run
  <2>2. addr' \in [Clients -> Nat]
    BY <2>1, ConfigAssumption
  <2>3. sock' \in [Clients -> {"none", "unreached", "connecting", "tls", "open"}]
    BY <2>1
  <2>4. wev' \in [Clients -> BOOLEAN]
    BY <2>1
  <2>5. timer' \in [Clients -> SUBSET {"active", "inactivity"}]
    BY <2>1 DEF Inactivity
  <2>6. current_phase' \in {"WARM_UP", current_phase} /\ loop' = "running"
    BY <1>1 DEF run
  <2>7. UNCHANGED <<sharedVars, qpsVars, brk, running, stats, sessVars, netVars,
                    req_inflight, wb>>
    BY <1>1 DEF run
  <2> QED
    BY <1>0, <2>2, <2>3, <2>4, <2>5, <2>6, <2>7
       DEF ConnTypeOK, CountTypeOK, LoopTypeOK, sharedVars, qpsVars, sessVars,
           netVars
<1>2. CASE warmup_timeout_cb \/ LoopReturns
  BY <1>0, <1>2
     DEF warmup_timeout_cb, LoopReturns, ConnTypeOK, CountTypeOK, LoopTypeOK,
         sharedVars, qpsVars, loopVars, connVars, sessVars, netVars
<1>3. CASE duration_timeout_cb
  <2>1. PICK D : Teardown(D, "none", FALSE, {})
    BY <1>3 DEF duration_timeout_cb, disconnect
  <2>2. {} \in SUBSET {"active", "inactivity"}
    OBVIOUS
  <2>3. ConnTypeOK(S)'
    BY <1>0, <2>1, <2>2, TeardownType
  <2> QED
    BY <1>0, <1>3, <2>3 DEF duration_timeout_cb, CountTypeOK, LoopTypeOK, qpsVars
<1>4. CASE update_worker_qpsLeft
  <2>1. PICK q \in Nat, n \in Nat, k \in Nat,
             t \in [Clients -> Nat], r \in [Clients -> Nat] :
          /\ k <= n /\ k <= Len(blocked)
          /\ QpsStep(q, n, k, t, r)
    BY <1>4, QpsChoice
  <2>2. granted' \in Nat /\ qpsLeft' \in Nat /\ total_req_send' \in Nat
    BY <1>0, <2>1 DEF QpsStep, CountTypeOK
  <2>3. blocked' \in Seq(Clients)
    <3>1. /\ blocked \in Seq(Clients) /\ Len(blocked) \in Nat
          /\ \A j \in 1 .. Len(blocked) : blocked[j] \in Clients
      BY <1>0, LenProperties, ElementOfSeq DEF CountTypeOK
    <3>2. /\ 1 \in Int /\ Len(blocked) - k \in Int
          /\ \A j \in 1 .. (Len(blocked) - k) : blocked[j] \in Clients
      BY <2>1, <3>1
    <3>3. SubSeq(blocked, 1, Len(blocked) - k) \in Seq(Clients)
      BY <3>2, SubSeqProperties
    <3> QED
      BY <2>1, <3>3 DEF QpsStep
  <2>4. streams' \subseteq Clients \X Nat
    <3> SUFFICES ASSUME NEW x \in streams', x \notin streams
                 PROVE  x \in Clients \X Nat
      BY <1>0 DEF ConnTypeOK
    <3>1. PICK c \in Clients : x \in {c} \X ((issued[c] + 1) .. (issued[c] + r[c]))
      BY <2>1 DEF QpsStep
    <3>2. issued[c] \in Nat /\ r[c] \in Nat
      BY <1>0, <2>1 DEF ConnTypeOK
    <3> QED
      BY <3>1, <3>2
  <2>5. issued' \in [Clients -> Nat]
    BY <1>0, <2>1 DEF QpsStep, ConnTypeOK
  <2>6. wb' \in [Clients -> Seq(Nat)]
    <3>1. ASSUME NEW c \in Clients
          PROVE  wb[c] \o [i \in 1 .. r[c] |-> issued[c] + i] \in Seq(Nat)
      <4>1. wb[c] \in Seq(Nat) /\ issued[c] \in Nat /\ r[c] \in Nat
        BY <1>0, <2>1 DEF ConnTypeOK, CountTypeOK
      <4>2. [i \in 1 .. r[c] |-> issued[c] + i] \in Seq(Nat)
        BY <4>1, BlockType
      <4> QED
        BY <4>1, <4>2, ConcatProperties
    <3> QED
      BY <2>1, <3>1 DEF QpsStep
  <2>7. stats' \in StatsType
    <3>1. stats.req_started + k \in Nat /\ stats \in StatsType
      BY <1>0, <2>1 DEF CountTypeOK, StatsType
    <3> QED
      BY <2>1, <3>1 DEF QpsStep, StatsType
  <2>8. req_inflight' \in [Clients -> Nat]
    <3>1. req_inflight' = [c \in Clients |-> req_inflight[c] + t[c]]
      BY <2>1 DEF QpsStep
    <3>2. req_inflight \in [Clients -> Nat] /\ t \in [Clients -> Nat]
      BY <1>0, <2>1 DEF CountTypeOK
    <3> QED
      BY <3>1, <3>2
  <2>9. wev' \in [Clients -> BOOLEAN]
    BY <2>1 DEF QpsStep
  <2>10. timer' \in [Clients -> SUBSET {"active", "inactivity"}]
    BY <1>0, <2>1 DEF QpsStep, ConnTypeOK
  <2>11. UNCHANGED <<total_req_left, loopVars, current_phase, sock, addr,
                     terminated, netVars>>
    BY <2>1 DEF QpsStep
  <2> QED
    BY <1>0, <2>2, <2>3, <2>4, <2>5, <2>6, <2>7, <2>8, <2>9, <2>10, <2>11
       DEF ConnTypeOK, CountTypeOK, LoopTypeOK, loopVars, netVars
<1> QED
  BY <1>1, <1>2, <1>3, <1>4 DEF WorkerStep

\* The server closing a connection keeps the types.
LEMMA EnvironmentType ==
  ASSUME NEW S, Eof \in S, WorkerTypeOK, inq \in [Clients -> Seq(S)],
         NEW c \in Clients, ServerCloses(c)
  PROVE  WorkerTypeOK' /\ (inq \in [Clients -> Seq(S)])'
<1>1. Append(inq[c], Eof) \in Seq(S)
  <2>1. inq[c] \in Seq(S)
    OBVIOUS
  <2> QED
    BY <2>1, AppendProperties
<1>2. inq' \in [Clients -> Seq(S)]
  BY <1>1 DEF ServerCloses
<1> QED
  BY <1>2 DEF ServerCloses, WorkerTypeOK, sharedVars, qpsVars, loopVars, connVars, sessVars
-----------------------------------------------------------------------------
(***************************************************************************)
(* The books.  A stream belongs to an open connection: without this a      *)
(* client that tries its next address could lose streams unnoticed.        *)
(***************************************************************************)
Opened == \A x \in streams : sock[x[1]] = "open"

\* Before Worker::run there is no stream and no callback.
Fresh == loop = "start" => streams = {} /\ running = NoClient

Balanced == WorkerTypeOK /\ Books /\ Opened /\ Fresh

\* Giving up a connection keeps the books, whatever becomes of the socket.
\* s, f, o: what on_stream_close left, when the last response ended the
\* connection.
LEMMA GiveUpBooks ==
  ASSUME Balanced, NEW c \in Clients, NEW v, NEW w, NEW t, Teardown({c}, v, w, t),
         NEW s, NEW f, NEW o, Ledger(s, f, o), s.req_started = stats.req_started,
         {x \in o : x[1] # c} = {x \in streams : x[1] # c},
         process_abandoned_streams(c, s, f), UNCHANGED <<sharedVars, current_phase>>
  PROVE  Books' /\ Opened'
<1>1. /\ streams' = {x \in streams : x[1] # c}
      /\ issued' = [d \in Clients |-> IF d = c THEN 0 ELSE issued[d]]
      /\ sock' = [d \in Clients |-> IF d = c THEN SockAfter(c, v) ELSE sock[d]]
  BY DEF Teardown
<1>2. streams \subseteq Clients \X Nat /\ (~Timing => Main)
  BY DEF Balanced, WorkerTypeOK, Books
<1>3. Ledger(stats, req_inflight, streams)' /\ stats'.req_started = s.req_started
  BY <1>1, <1>2, AbandonLedger
<1>4. \A x \in streams' : x[2] <= issued'[x[1]] /\ sock'[x[1]] = "open"
  <2> TAKE x \in streams'
  <2>1. x \in streams /\ x[1] # c /\ x[1] \in Clients
    BY <1>1, <1>2
  <2> QED
    BY <1>1, <2>1 DEF Balanced, Books, Opened
<1>5. BudgetConserved'
  BY <1>3 DEF Balanced, Books, BudgetConserved, sharedVars
<1>6. (~Timing => Main)'
  BY <1>2 DEF Main
<1> QED
  BY <1>3, <1>4, <1>5, <1>6 DEF Books, Opened

LEMMA FailBooks ==
  ASSUME Balanced, NEW c \in Clients, fail(c), UNCHANGED <<sharedVars, current_phase>>
  PROVE  Books' /\ Opened'
<1>1. /\ Teardown({c}, "none", FALSE, {})
      /\ process_abandoned_streams(c, stats, req_inflight)
      /\ Ledger(stats, req_inflight, streams)
  BY DEF fail, disconnect, Balanced, Books
<1> QED
  BY <1>1, GiveUpBooks

\* Steps that leave the counters and the streams alone.
LEMMA UnchangedBooks ==
  ASSUME Balanced,
         UNCHANGED <<sharedVars, stats, req_inflight, streams, issued, current_phase>>,
         \A d \in Clients : sock[d] = "open" => sock'[d] = "open"
  PROVE  Books' /\ Opened'
<1>1. Ledger(stats, req_inflight, streams)' = Ledger(stats, req_inflight, streams)
  BY DEF Ledger, Main
<1>2. Books'
  BY <1>1 DEF Balanced, Books, BudgetConserved, Main, sharedVars
<1>3. Opened'
  BY DEF Balanced, WorkerTypeOK, Opened
<1> QED
  BY <1>2, <1>3

\* connection_made
LEMMA ConnectionBooks ==
  ASSUME Balanced, NEW c \in Clients, connection_made(c), UNCHANGED current_phase
  PROVE  Books' /\ Opened'
<1>1. /\ submit_requests(c, FirstRequests, stats, req_inflight, streams)
      /\ sock' = [sock EXCEPT ![c] = "open"] /\ FirstRequests \in Nat
  BY ConfigAssumption DEF connection_made, FirstRequests
<1>2. Books'
  BY <1>1, SubmitBooks DEF Balanced, Books
<1>3. Opened'
  <2>1. streams' \subseteq streams \cup ({c} \X Int)
    BY <1>1 DEF submit_requests
  <2> QED
    BY <1>1, <2>1 DEF Balanced, WorkerTypeOK, Opened
<1> QED
  BY <1>2, <1>3

\* on_stream_close, on an open connection
LEMMA StreamCloseBooks ==
  ASSUME Balanced, NEW c \in Clients, sock[c] = "open", NEW i,
         NEW success \in BOOLEAN, NEW good \in BOOLEAN, NEW final,
         on_stream_close(c, i, success, good, final),
         UNCHANGED <<current_phase, sock>>
  PROVE  Books' /\ Opened'
<1> DEFINE s == ClosedStats(success, good)
           f == ClosedInflight(c)
           o == streams \ {<<c, i>>}
           n == IF final THEN 0 ELSE 1
<1>1. /\ Ledger(stats, req_inflight, streams) /\ (~Timing => Main)
      /\ BudgetConserved /\ WorkerTypeOK
      /\ \A x \in streams : x[2] <= issued[x[1]]
  BY DEF Balanced, Books
<1>2. s.req_started = stats.req_started
  BY <1>1 DEF ClosedStats, WorkerTypeOK, StatsType
<1>3. o \subseteq streams /\ n \in Nat
  OBVIOUS
<1>4. \/ /\ req_inflight' = f
         /\ UNCHANGED <<sharedVars, qpsVars, brk, sessVars, stats, wb>>
      \/ /\ Main => Known(c, i)
         /\ req_inflight' = f /\ stats' = s /\ streams' = o
         /\ UNCHANGED <<sharedVars, qpsVars, brk, issued, wb>>
      \/ /\ Main => Known(c, i)
         /\ submit_requests(c, n, s, f, o)
  BY DEF on_stream_close
<1>5. (Main => Known(c, i)) => Ledger(s, f, o)
  BY <1>1, CloseLedger
<1>6. Ledger(stats, f, streams)
  BY <1>1, UnknownLedger
<1> HIDE DEF s, f, o, n
<1>7. CASE /\ req_inflight' = f
           /\ UNCHANGED <<sharedVars, qpsVars, brk, sessVars, stats, wb>>
  <2>1. Ledger(stats, req_inflight, streams)'
    BY <1>6, <1>7 DEF Ledger, Main, sessVars
  <2> QED
    BY <1>1, <1>7, <2>1
       DEF Balanced, Books, Opened, BudgetConserved, Main, sharedVars, sessVars
<1>8. CASE /\ Main => Known(c, i)
           /\ req_inflight' = f /\ stats' = s /\ streams' = o
           /\ UNCHANGED <<sharedVars, qpsVars, brk, issued, wb>>
  <2>1. Ledger(stats, req_inflight, streams)'
    BY <1>5, <1>8 DEF Ledger, Main
  <2>2. BudgetConserved'
    BY <1>1, <1>2, <1>8 DEF BudgetConserved, sharedVars
  <2> QED
    BY <1>1, <1>3, <1>8, <2>1, <2>2 DEF Balanced, Books, Opened, Main
<1>9. CASE (Main => Known(c, i)) /\ submit_requests(c, n, s, f, o)
  <2>1. Books'
    BY <1>1, <1>2, <1>3, <1>5, <1>9, SubmitBooks
  <2>2. streams' \subseteq streams \cup ({c} \X Int)
    BY <1>3, <1>9 DEF submit_requests
  <2>3. Opened'
    BY <2>2 DEF Balanced, Opened
  <2> QED
    BY <2>1, <2>3
<1> QED
  BY <1>4, <1>7, <1>8, <1>9

\* A callback of one client keeps the books.
LEMMA ClientStepBooks ==
  ASSUME Balanced, NEW c \in Clients, ClientStep(c)
  PROVE  Books' /\ Opened'
<1>0. /\ sock \in [Clients -> {"none", "unreached", "connecting", "tls", "open"}]
      /\ streams \subseteq Clients \X Nat
      /\ Ledger(stats, req_inflight, streams)
  BY DEF Balanced, WorkerTypeOK, Books
<1>1. CASE ConnectDone(c)
  BY <1>1, ConnectionBooks DEF ConnectDone
<1>2. CASE ConnectFailed(c)
  <2>1. /\ UNCHANGED <<sharedVars, current_phase>>
        /\ sock[c] # "open"
    BY <1>2 DEF ConnectFailed
  <2>2. CASE reconnect(c) /\ UNCHANGED <<stats, req_inflight>>
    \* nothing is lost: the client had no stream
    <3>1. /\ streams' = {x \in streams : x[1] # c}
          /\ issued' = [d \in Clients |-> IF d = c THEN 0 ELSE issued[d]]
          /\ sock' = [d \in Clients |-> IF d = c THEN "connecting" ELSE sock[d]]
      BY <2>2 DEF reconnect, Teardown, SockAfter
    <3>2. \A x \in streams : x[1] # c
      BY <2>1 DEF Balanced, Opened
    <3>3. streams' = streams
      BY <3>1, <3>2
    <3>4. Ledger(stats, req_inflight, streams)'
      BY <1>0, <2>1, <2>2, <3>3 DEF Ledger, Main
    <3>5. \A x \in streams' : x[2] <= issued'[x[1]] /\ sock'[x[1]] = "open"
      BY <1>0, <3>1, <3>2, <3>3 DEF Balanced, Books, Opened
    <3> QED
      BY <2>1, <2>2, <3>4, <3>5
         DEF Balanced, Books, Opened, BudgetConserved, Main, sharedVars
  <2>3. CASE fail(c)
    BY <2>1, <2>3, FailBooks
  <2> QED
    BY <1>2, <2>2, <2>3 DEF ConnectFailed
<1>3. CASE TlsStart(c)
  <2>1. /\ UNCHANGED <<sharedVars, stats, req_inflight, streams, issued,
                       current_phase>>
        /\ sock[c] = "connecting" /\ sock' = [sock EXCEPT ![c] = "tls"]
    BY <1>3 DEF TlsStart, sessVars
  <2>2. \A d \in Clients : sock[d] = "open" => sock'[d] = "open"
    BY <1>0, <2>1
  <2> QED
    BY <2>1, <2>2, UnchangedBooks
<1>4. CASE TlsHandshake(c)
  <2>1. UNCHANGED current_phase
    BY <1>4 DEF TlsHandshake
  <2>2. CASE connection_made(c)
    BY <2>1, <2>2, ConnectionBooks
  <2>3. CASE fail(c) /\ UNCHANGED sharedVars
    BY <2>1, <2>3, FailBooks
  <2>4. CASE UNCHANGED <<sharedVars, qpsVars, brk, stats, sock, sessVars,
                         netVars, req_inflight, wb>>
    BY <2>1, <2>4, UnchangedBooks DEF sessVars
  <2> QED
    BY <1>4, <2>2, <2>3, <2>4 DEF TlsHandshake
<1>5. CASE writecb(c) \/ ReadDrained(c)
  <2>1. CASE WriteSome(c)
    BY <2>1, UnchangedBooks DEF WriteSome, sessVars
  <2>2. CASE WriteFails(c)
    BY <2>2, FailBooks DEF WriteFails
  <2> QED
    BY <1>5, <2>1, <2>2 DEF writecb, ReadDrained
<1>6. CASE StaleWrite(c)
  <2>1. UNCHANGED <<sharedVars, current_phase>>
    BY <1>6 DEF StaleWrite
  <2>2. CASE fail(c)
    BY <2>1, <2>2, FailBooks
  <2>3. CASE UNCHANGED <<sock, sessVars, netVars, stats, req_inflight>>
    BY <2>1, <2>3, UnchangedBooks DEF sessVars
  <2> QED
    BY <1>6, <2>2, <2>3 DEF StaleWrite
<1>7. CASE ReadEof(c)
  <2>1. /\ process_abandoned_streams(c, stats, req_inflight)
        /\ UNCHANGED <<sharedVars, current_phase>>
    BY <1>7 DEF ReadEof, try_again_or_fail
  <2>2. PICK v, w, t : Teardown({c}, v, w, t)
    BY <1>7 DEF ReadEof, try_again_or_fail, disconnect, reconnect
  <2> QED
    BY <1>0, <2>1, <2>2, GiveUpBooks
<1>8. CASE conn_timeout_cb(c)
  <2>1. UNCHANGED <<sharedVars, current_phase>>
    BY <1>8 DEF conn_timeout_cb
  <2> DEFINE s == IF Main
                    THEN [stats EXCEPT !.req_timedout = @ + req_inflight[c]]
                    ELSE stats
  <2>2. CASE disconnect({c}) /\ process_abandoned_streams(c, s, req_inflight)
    <3>1. Teardown({c}, "none", FALSE, {})
      BY <2>2 DEF disconnect
    <3>2. /\ stats \in StatsType /\ req_inflight \in [Clients -> Nat]
          /\ stats.req_timedout + req_inflight[c] \in Nat
      BY <1>0 DEF Ledger, StatsType
    <3>3. /\ s \in StatsType /\ s.req_started = stats.req_started
          /\ s.req_status_success = stats.req_status_success
          /\ s.req_failed = stats.req_failed
          /\ ~Main => s = stats
      BY <3>2 DEF StatsType
    <3> HIDE DEF s
    <3>4. Ledger(s, req_inflight, streams)
      BY <1>0, <3>3 DEF Ledger, Main
    <3> QED
      BY <2>1, <2>2, <3>1, <3>3, <3>4, GiveUpBooks
  <2>3. CASE UNCHANGED <<sock, wev, sessVars, netVars, stats, req_inflight>>
    BY <2>1, <2>3, UnchangedBooks DEF sessVars
  <2> QED
    BY <1>8, <2>2, <2>3 DEF conn_timeout_cb
<1> QED
  BY <1>1, <1>2, <1>3, <1>4, <1>5, <1>6, <1>7, <1>8 DEF ClientStep

\* A callback of the worker keeps the books.
LEMMA WorkerStepBooks ==
  ASSUME Balanced, WorkerStep, WorkerTypeOK'
  PROVE  Books' /\ Opened'
<1>0. /\ Ledger(stats, req_inflight, streams) /\ BudgetConserved
      /\ (~Timing => Main)
      /\ streams \subseteq Clients \X Nat
      /\ \A x \in streams : x[2] <= issued[x[1]] /\ sock[x[1]] = "open"
  BY DEF Balanced, WorkerTypeOK, Books, Opened
<1>1. CASE run
  \* before the first connect there is no stream
  <2>1. /\ UNCHANGED <<sharedVars, stats, req_inflight, streams, issued>>
        /\ current_phase' = IF current_phase = "INITIAL_IDLE" /\ Clients # {}
                              THEN "WARM_UP" ELSE current_phase
    BY <1>1 DEF run, sessVars
  <2>2. Main' = Main
    BY <2>1 DEF Main
  <2>3. Ledger(stats, req_inflight, streams)'
    BY <1>0, <2>1, <2>2 DEF Ledger, Main
  <2>4. Opened'
    <3>1. loop = "start"
      BY <1>1 DEF run
    <3> QED
      BY <2>1, <3>1 DEF Balanced, Opened, Fresh
  <2> QED
    BY <1>0, <2>1, <2>2, <2>3, <2>4 DEF Books, BudgetConserved, sharedVars
<1>2. CASE LoopReturns
  BY <1>2, UnchangedBooks DEF LoopReturns, sessVars, connVars
<1>3. CASE warmup_timeout_cb
  <2>1. /\ UNCHANGED <<sharedVars, stats, req_inflight, streams, issued, sock>>
        /\ current_phase = "WARM_UP" /\ current_phase' = "MAIN_DURATION"
    BY <1>3 DEF warmup_timeout_cb, sessVars, connVars
  <2>2. ~Qps => \A c \in Clients : req_inflight[c] <= Cardinality(Of(streams, c))
    <3> SUFFICES ASSUME ~Qps, NEW c \in Clients
                 PROVE  req_inflight[c] <= Cardinality(Of(streams, c))
      OBVIOUS
    <3>1. req_inflight[c] = 0 /\ Cardinality(Of(streams, c)) \in Nat
      BY <1>0, <2>1, ClientStreams DEF Ledger
    <3> QED
      BY <3>1
  <2>3. Timing
    BY <1>0, <2>1, ConfigAssumption DEF Main
  <2>4. Ledger(stats, req_inflight, streams)'
    BY <1>0, <2>1, <2>2, <2>3 DEF Ledger
  <2> QED
    BY <1>0, <2>1, <2>3, <2>4 DEF Books, BudgetConserved, Opened
<1>4. CASE duration_timeout_cb
  <2>1. /\ streams' \subseteq streams
        /\ \A x \in streams' : issued'[x[1]] = issued[x[1]]
                               /\ sock'[x[1]] = sock[x[1]]
    BY <1>0, <1>4 DEF duration_timeout_cb, disconnect, Teardown
  <2>2. Timing /\ UNCHANGED <<stats, req_inflight>>
        /\ current_phase' = "DURATION_OVER"
    BY <1>4 DEF duration_timeout_cb
  <2>3. ~Qps => IsFiniteSet(streams')
    BY <1>0, <2>1, FS_Subset DEF Ledger
  <2>4. Ledger(stats, req_inflight, streams)'
    BY <1>0, <2>1, <2>2, <2>3 DEF Ledger, Main
  <2> QED
    BY <1>0, <2>1, <2>2, <2>4 DEF Books, BudgetConserved, Opened
<1>5. CASE update_worker_qpsLeft
  <2>1. Qps /\ Timing /\ Main
    BY <1>5, ConfigAssumption DEF update_worker_qpsLeft
  <2>2. UNCHANGED <<current_phase, sock>>
    BY <1>5 DEF update_worker_qpsLeft
  <2>3. /\ stats' \in StatsType /\ req_inflight' \in [Clients -> Nat]
        /\ streams' \subseteq Clients \X Nat
    BY DEF WorkerTypeOK
  <2>4. Ledger(stats, req_inflight, streams)'
    BY <2>1, <2>2, <2>3 DEF Ledger, Main
  <2>5. PICK q \in Nat, n \in Nat, k \in Nat,
             t \in [Clients -> Nat], r \in [Clients -> Nat] :
          /\ QpsStep(q, n, k, t, r)
          /\ \A c \in Clients : sock[c] # "open" => r[c] = 0
    BY <1>5, QpsChoice DEF Balanced
  <2>6. \A x \in streams' : x[2] <= issued'[x[1]] /\ sock'[x[1]] = "open"
    <3> TAKE x \in streams'
    <3>1. /\ issued \in [Clients -> Nat]
          /\ issued' = [c \in Clients |-> issued[c] + r[c]]
      BY <2>5 DEF QpsStep, Balanced, WorkerTypeOK
    <3>2. CASE x \in streams
      <4>1. /\ x[1] \in Clients /\ x[2] \in Nat /\ x[2] <= issued[x[1]]
            /\ sock[x[1]] = "open"
        BY <1>0, <3>2
      <4>2. issued[x[1]] \in Nat /\ r[x[1]] \in Nat
        BY <3>1, <4>1
      <4> QED
        BY <2>2, <3>1, <4>1, <4>2
    <3>3. CASE x \notin streams
      <4>1. PICK c \in Clients :
              x \in {c} \X ((issued[c] + 1) .. (issued[c] + r[c]))
        BY <2>5, <3>3 DEF QpsStep
      <4>2. /\ x[1] = c /\ x[2] <= issued[c] + r[c] /\ r[c] # 0
        BY <3>1, <4>1
      <4> QED
        BY <2>2, <2>5, <3>1, <4>2
    <3> QED
      BY <3>2, <3>3
  <2> QED
    BY <2>1, <2>2, <2>4, <2>6 DEF Books, BudgetConserved, Opened, Main
<1> QED
  BY <1>1, <1>2, <1>3, <1>4, <1>5 DEF WorkerStep

\* The server closing a connection keeps the books.
LEMMA EnvironmentBooks ==
  ASSUME Balanced, NEW c \in Clients, ServerCloses(c)
  PROVE  Books' /\ Opened'
  BY UnchangedBooks DEF ServerCloses, connVars, sessVars

\* Once the loop has started it is never before its start again.
LEMMA StepFresh ==
  ASSUME Balanced,
         \/ WorkerStep
         \/ \E c \in Clients : ClientStep(c)
         \/ \E c \in Clients : ServerCloses(c)
  PROVE  Fresh'
<1>0. Fresh /\ NoClient \notin Clients
  BY ConfigAssumption DEF Balanced
<1>1. CASE WorkerStep
  BY <1>1 DEF WorkerStep, run, warmup_timeout_cb, duration_timeout_cb,
              update_worker_qpsLeft, LoopReturns, Idle, loopVars, Fresh
<1>2. ASSUME NEW c \in Clients, ClientStep(c)
      PROVE  Fresh'
  <2>1. loop' = loop
    BY <1>2 DEF ClientStep, ConnectDone, ConnectFailed, TlsStart, TlsHandshake,
                writecb, StaleWrite, ReadDrained, ReadEof, conn_timeout_cb,
                WriteSome, WriteFails, try_again_or_fail, loopVars
  <2>2. loop = "running" \/ running = c
    BY <1>2 DEF ClientStep, ConnectDone, ConnectFailed, TlsStart, TlsHandshake,
                writecb, StaleWrite, ReadDrained, ReadEof, conn_timeout_cb,
                Idle, Reading
  <2> QED
    BY <1>0, <2>1, <2>2 DEF Fresh
<1>3. CASE \E c \in Clients : ServerCloses(c)
  BY <1>0, <1>3 DEF ServerCloses, loopVars, sessVars, Fresh
<1> QED
  BY <1>1, <1>2, <1>3

\* The first state.
LEMMA InitBalanced ==
  ASSUME WorkerInit
  PROVE  Balanced
<1>1. WorkerTypeOK
  <2>1. <<>> \in Seq(Nat) /\ <<>> \in Seq(Clients)
    BY EmptySeq
  <2> QED
    BY <2>1, ConfigAssumption DEF WorkerInit, WorkerTypeOK, NoStats, StatsType
<1>2. Books
  <2>1. streams = {} /\ IsFiniteSet(streams) /\ Cardinality(streams) = 0
    BY FS_EmptySet DEF WorkerInit
  <2>2. \A c \in Clients : Of(streams, c) = {}
    BY <2>1 DEF Of
  <2>3. Ledger(stats, req_inflight, streams)
    <3>1. /\ stats = NoStats /\ stats \in StatsType
          /\ \A c \in Clients : req_inflight[c] = 0
          /\ req_inflight \in [Clients -> Nat] /\ streams \subseteq Clients \X Nat
      BY <1>1 DEF WorkerInit, WorkerTypeOK
    <3>2. stats.req_status_success + stats.req_failed + Cardinality(streams)
            <= stats.req_started
      BY <2>1, <3>1 DEF NoStats
    <3>3. \A c \in Clients : req_inflight[c] <= Cardinality(Of(streams, c))
      BY <2>2, <3>1, FS_EmptySet
    <3> QED
      BY <2>1, <3>1, <3>2, <3>3 DEF Ledger
  <2>4. BudgetConserved
    BY ConfigAssumption DEF WorkerInit, BudgetConserved, NoStats
  <2> QED
    BY <2>1, <2>3, <2>4 DEF WorkerInit, Books, Main
<1>3. Opened /\ Fresh
  BY DEF WorkerInit, Opened, Fresh
<1> QED
  BY <1>1, <1>2, <1>3 DEF Balanced
=============================================================================
