--------------------------- MODULE RequestBudget ----------------------------
(***************************************************************************)
(* The budget of requests shared by the worker threads in a run of -n      *)
(* requests: the atomic counters total_req_left and total_req_send, and    *)
(* the accesses that Client::on_stream_close and Client::submit_request    *)
(* make to them, one at a time.  Module Worker is about one thread (-t 1)  *)
(* and takes a callback as one step; OneThreadIsAtomic says why it may.    *)
(***************************************************************************)
EXTENDS Integers, FiniteSets

CONSTANTS
  Threads,    \* the worker threads
  NReqs,      \* -n
  Width,      \* size_t holds 0 .. Width - 1
  MaxCalls    \* bound: calls of submit_request each thread makes

ASSUME BudgetAssumption ==
  /\ IsFiniteSet(Threads) /\ Threads # {}
  /\ Width \in Nat \ {0}
  /\ NReqs \in Nat /\ NReqs < Width
  /\ MaxCalls \in Nat

VARIABLES
  total_req_left, total_req_send,
  pc,      \* "idle", "checked" (on_stream_close's load() was positive),
           \* "loaded" (submit_request's was), "taken" (so was req_left)
  calls,   \* calls each thread has begun
  taken    \* history: decrements of total_req_left

vars == <<total_req_left, total_req_send, pc, calls, taken>>

Init ==
  /\ total_req_left = NReqs /\ total_req_send = 0
  /\ pc = [t \in Threads |-> "idle"]
  /\ calls = [t \in Threads |-> 0]
  /\ taken = 0

\* on_stream_close: if (total_req_left.load() <= 0) { terminate_session(); return; }
Check(t) ==
  /\ pc[t] = "idle" /\ calls[t] < MaxCalls
  /\ pc' = [pc EXCEPT ![t] = IF total_req_left > 0 THEN "checked" ELSE "idle"]
  /\ UNCHANGED <<total_req_left, total_req_send, calls, taken>>

mutant_Load(t) ==
  /\ pc[t] \in {"idle", "checked"} /\ calls[t] < MaxCalls
  /\ calls' = [calls EXCEPT ![t] = @ + 1]
  /\ pc' = [pc EXCEPT ![t] = "loaded"]
  /\ UNCHANGED <<total_req_left, total_req_send, taken>>

\* submit_request, called by connection_made or by on_stream_close after its
\* check: if (total_req_left.load() <= 0) return -1
Load(t) ==
  /\ pc[t] \in {"idle", "checked"} /\ calls[t] < MaxCalls
  /\ calls' = [calls EXCEPT ![t] = @ + 1]
  /\ pc' = [pc EXCEPT ![t] = IF total_req_left > 0 THEN "loaded" ELSE "idle"]
  /\ UNCHANGED <<total_req_left, total_req_send, taken>>

mutant_Decrement_pre(t) ==
  /\ pc[t] = "loaded"
  /\ total_req_left' = (total_req_left - 1) % Width
  /\ taken' = taken + 1
  /\ pc' = [pc EXCEPT ![t] = IF total_req_left > 1 THEN "taken" ELSE "idle"]
  /\ UNCHANGED <<total_req_send, calls>>
\* size_t req_left = total_req_left--; if (req_left <= 0) return -1
Decrement(t) ==
  /\ pc[t] = "loaded"
  /\ total_req_left' = (total_req_left - 1) % Width
  /\ taken' = taken + 1
  /\ pc' = [pc EXCEPT ![t] = IF total_req_left > 0 THEN "taken" ELSE "idle"]
  /\ UNCHANGED <<total_req_send, calls>>

\* total_req_send++
Send(t) ==
  /\ pc[t] = "taken"
  /\ total_req_send' = (total_req_send + 1) % Width
  /\ pc' = [pc EXCEPT ![t] = "idle"]
  /\ UNCHANGED <<total_req_left, calls, taken>>

\* every thread has made its calls
Finished ==
  /\ \A t \in Threads : pc[t] = "idle" /\ calls[t] = MaxCalls
  /\ UNCHANGED vars

Next == (\E t \in Threads : Check(t) \/ Load(t) \/ Decrement(t) \/ Send(t)) \/ Finished

Spec == Init /\ [][Next]_vars
-----------------------------------------------------------------------------
\* the threads between their decrement and their increment
Taken == {t \in Threads : pc[t] = "taken"}

\* the threads between their load and their decrement
Loaded == {t \in Threads : pc[t] = "loaded"}

\* Every variable has its type; the counters stay within size_t.
TypeOK ==
  /\ total_req_left \in 0 .. Width - 1 /\ total_req_send \in 0 .. Width - 1
  /\ pc \in [Threads -> {"idle", "checked", "loaded", "taken"}]
  /\ calls \in [Threads -> 0 .. MaxCalls]
  /\ taken \in Nat

\* Until the counter wraps around, the budget is accounted for to the last
\* request, however the threads' accesses interleave: what was taken from it
\* is sent or about to be sent, and the rest is left.
LedgerIsExact ==
  taken <= NReqs => /\ total_req_left = NReqs - taken
                    /\ total_req_send + Cardinality(Taken) = taken

\* The race on the last requests is bounded: while the counter has not
\* wrapped, the threads that passed the load exceed what is left by less than
\* the number of threads.
RaceWindowBounded ==
  taken <= NReqs =>
    taken + Cardinality(Loaded) <= NReqs + Cardinality(Threads) - 1

\* A thread that runs alone: what the load of on_stream_close or submit_request
\* found is still there at the decrement, the counter never wraps, and between
\* two calls total_req_left and total_req_send add up to -n, as if each call
\* were one step.
OneThreadIsAtomic ==
  Cardinality(Threads) = 1 =>
    /\ (\E t \in Threads : pc[t] \in {"checked", "loaded"}) => total_req_left > 0
    /\ total_req_left + total_req_send + Cardinality(Taken) = NReqs

\* -n is the "Number of requests across all clients": no more are sent.
BudgetNotExceeded == total_req_send <= NReqs
=============================================================================
