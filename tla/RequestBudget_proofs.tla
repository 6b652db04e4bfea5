------------------------ MODULE RequestBudget_proofs ------------------------
(***************************************************************************)
(* Proofs about RequestBudget, for any number of threads and requests.     *)
(***************************************************************************)
EXTENDS RequestBudget, FiniteSetTheorems, TLAPS

\* The three invariants together are inductive.
IInv == TypeOK /\ LedgerIsExact /\ RaceWindowBounded

\* Sets of threads are finite.
LEMMA ThreadSets ==
  ASSUME NEW S, S \subseteq Threads
  PROVE  /\ IsFiniteSet(S)
         /\ Cardinality(S) \in Nat
         /\ Cardinality(S) <= Cardinality(Threads)
  BY BudgetAssumption, FS_Subset, FS_CardinalityType

\* A thread that enters or leaves a set of threads changes its size by one.
LEMMA AddThread ==
  ASSUME NEW S, S \subseteq Threads, NEW t \in Threads, t \notin S
  PROVE  Cardinality(S \cup {t}) = Cardinality(S) + 1
  BY ThreadSets, FS_AddElement

LEMMA RemoveThread ==
  ASSUME NEW S, S \subseteq Threads, NEW t \in S
  PROVE  Cardinality(S \ {t}) = Cardinality(S) - 1
  BY ThreadSets, FS_RemoveElement

LEMMA InitInv == Init => IInv
<1> SUFFICES ASSUME Init PROVE IInv
  OBVIOUS
<1>1. Taken = {} /\ Loaded = {}
  BY DEF Init, Taken, Loaded
<1>2. Cardinality({}) = 0
  BY FS_EmptySet
<1>3. Cardinality(Threads) \in Nat \ {0}
  BY BudgetAssumption, FS_EmptySet, FS_CardinalityType
<1> QED
  BY <1>1, <1>2, <1>3, BudgetAssumption
  DEF Init, IInv, TypeOK, LedgerIsExact, RaceWindowBounded

\* The check of on_stream_close moves no thread into or out of Loaded or Taken.
LEMMA CheckInv ==
  ASSUME IInv, NEW t \in Threads, Check(t)
  PROVE  IInv'
<1> USE BudgetAssumption DEF IInv
<1>1. TypeOK'
  BY DEF TypeOK, Check
<1>2. Taken' = Taken /\ Loaded' = Loaded
  BY DEF TypeOK, Check, Taken, Loaded
<1> QED
  BY <1>1, <1>2 DEF LedgerIsExact, RaceWindowBounded, Check

\* A call that finds the budget empty changes no set of threads; any other
\* finds something left, and the caller joins Loaded.
LEMMA LoadInv ==
  ASSUME IInv, NEW t \in Threads, Load(t)
  PROVE  IInv'
<1> USE BudgetAssumption DEF IInv
<1>1. TypeOK'
  BY DEF TypeOK, Load
<1>2. Taken' = Taken
  BY DEF TypeOK, Load, Taken
<1>3. LedgerIsExact'
  BY <1>2 DEF LedgerIsExact, Load
<1>4. RaceWindowBounded'
  <2>1. CASE total_req_left > 0
    <3>1. Loaded' \subseteq Threads
      BY DEF Loaded
    <3>2. /\ Cardinality(Loaded') \in Nat /\ Cardinality(Threads) \in Nat
          /\ Cardinality(Loaded') <= Cardinality(Threads)
      BY <3>1, ThreadSets
    <3>3. taken' = taken
      BY DEF Load
    <3>4. taken <= NReqs => taken < NReqs
      BY <2>1 DEF LedgerIsExact, TypeOK
    <3> QED
      BY <3>2, <3>3, <3>4 DEF RaceWindowBounded, TypeOK
  <2>2. CASE ~(total_req_left > 0)
    <3>1. Loaded' = Loaded /\ taken' = taken
      BY <2>2 DEF TypeOK, Load, Loaded
    <3> QED
      BY <3>1 DEF RaceWindowBounded
  <2> QED
    BY <2>1, <2>2
<1> QED
  BY <1>1, <1>3, <1>4

\* A decrement moves its thread out of Loaded, and while the counter has not
\* wrapped into Taken.
LEMMA DecrementInv ==
  ASSUME IInv, NEW t \in Threads, Decrement(t)
  PROVE  IInv'
<1> USE BudgetAssumption DEF IInv
<1>1. TypeOK'
  BY DEF TypeOK, Decrement
<1>2. Loaded' = Loaded \ {t} /\ t \in Loaded
  BY DEF TypeOK, Decrement, Loaded
<1>3. /\ Cardinality(Loaded') = Cardinality(Loaded) - 1
      /\ Cardinality(Loaded) \in Nat
  BY <1>2, RemoveThread, ThreadSets DEF Loaded
<1>4. taken' = taken + 1 /\ taken \in Nat
  BY DEF Decrement, TypeOK
<1>5. RaceWindowBounded'
  <2>1. Cardinality(Threads) \in Nat
    BY ThreadSets
  <2> QED
    BY <1>3, <1>4, <2>1 DEF RaceWindowBounded
<1>6. LedgerIsExact'
  <2> SUFFICES ASSUME taken' <= NReqs
               PROVE  /\ total_req_left' = NReqs - taken'
                      /\ total_req_send' + Cardinality(Taken') = taken'
    BY DEF LedgerIsExact
  <2>1. /\ total_req_left = NReqs - taken
        /\ total_req_send + Cardinality(Taken) = taken
        /\ total_req_left > 0
    BY <1>4 DEF LedgerIsExact
  <2>2. total_req_left' = NReqs - taken'
    BY <1>4, <2>1 DEF Decrement
  <2>3. Taken' = Taken \cup {t} /\ t \notin Taken
    BY <2>1 DEF TypeOK, Decrement, Taken
  <2>4. /\ Cardinality(Taken') = Cardinality(Taken) + 1
        /\ Cardinality(Taken) \in Nat /\ Cardinality(Taken') \in Nat
    BY <2>3, AddThread, ThreadSets DEF Taken
  <2>5. total_req_send' = total_req_send /\ total_req_send \in Nat
    BY DEF Decrement, TypeOK
  <2>6. total_req_send' + Cardinality(Taken') = taken'
    BY <1>4, <2>1, <2>4, <2>5
  <2> QED
    BY <2>2, <2>6
<1> QED
  BY <1>1, <1>5, <1>6

\* An increment moves its thread out of Taken; it does not overflow while the
\* ledger is exact.
LEMMA SendInv ==
  ASSUME IInv, NEW t \in Threads, Send(t)
  PROVE  IInv'
<1> USE BudgetAssumption DEF IInv
<1>1. TypeOK'
  BY DEF TypeOK, Send
<1>2. Loaded' = Loaded /\ taken' = taken /\ total_req_left' = total_req_left
  BY DEF TypeOK, Send, Loaded
<1>3. RaceWindowBounded'
  BY <1>2 DEF RaceWindowBounded
<1>4. LedgerIsExact'
  <2> SUFFICES ASSUME taken <= NReqs
               PROVE  total_req_send' + Cardinality(Taken') = taken
    BY <1>2 DEF LedgerIsExact
  <2>1. Taken' = Taken \ {t} /\ t \in Taken
    BY DEF TypeOK, Send, Taken
  <2>2. /\ Cardinality(Taken') = Cardinality(Taken) - 1
        /\ Cardinality(Taken) \in Nat /\ Cardinality(Taken') \in Nat
    BY <2>1, RemoveThread, ThreadSets DEF Taken
  <2>3. total_req_send \in Nat /\ taken \in Nat
    BY DEF TypeOK
  <2>4. total_req_send + 1 < Width
    BY <2>2, <2>3 DEF LedgerIsExact
  <2>5. total_req_send' = total_req_send + 1
    BY <2>3, <2>4 DEF Send
  <2> QED
    BY <2>2, <2>3, <2>5 DEF LedgerIsExact
<1> QED
  BY <1>1, <1>3, <1>4

LEMMA NextInv == IInv /\ [Next]_vars => IInv'
<1> SUFFICES ASSUME IInv, [Next]_vars PROVE IInv'
  OBVIOUS
<1>1. CASE UNCHANGED vars
  BY <1>1 DEF vars, IInv, TypeOK, LedgerIsExact, RaceWindowBounded, Taken, Loaded
<1>2. CASE Finished
  BY <1>1, <1>2 DEF Finished
<1>3. ASSUME NEW t \in Threads, Load(t) PROVE IInv'
  BY <1>3, LoadInv
<1>4. ASSUME NEW t \in Threads, Decrement(t) PROVE IInv'
  BY <1>4, DecrementInv
<1>5. ASSUME NEW t \in Threads, Send(t) PROVE IInv'
  BY <1>5, SendInv
<1>6. ASSUME NEW t \in Threads, Check(t) PROVE IInv'
  BY <1>6, CheckInv
<1> QED
  BY <1>1, <1>2, <1>3, <1>4, <1>5, <1>6 DEF Next

LEMMA Inductive == Spec => []IInv
  BY InitInv, NextInv, PTL DEF Spec

\* Until total_req_left wraps around, the budget is accounted for to the last
\* request, for any number of threads calling submit_request.
THEOREM LedgerCorrect == Spec => []LedgerIsExact
<1>1. IInv => LedgerIsExact
  BY DEF IInv
<1> QED
  BY Inductive, <1>1, PTL

\* The race between the load and the decrement of submit_request exceeds the
\* budget by less than the number of threads before the counter wraps.
THEOREM RaceCorrect == Spec => []RaceWindowBounded
<1>1. IInv => RaceWindowBounded
  BY DEF IInv
<1> QED
  BY Inductive, <1>1, PTL

\* What a single thread has found by a load is still there, and the counter
\* has not wrapped.
Alone ==
  /\ IInv
  /\ taken <= NReqs
  /\ \A t \in Threads : pc[t] \in {"checked", "loaded"} => total_req_left > 0

LEMMA AloneInit == Init => Alone
  BY InitInv, BudgetAssumption DEF Alone, Init

\* No other thread can take the last request between a load and the decrement.
LEMMA AloneNext ==
  ASSUME Alone, Cardinality(Threads) = 1, [Next]_vars
  PROVE  Alone'
<1> USE BudgetAssumption DEF Alone
<1>1. IInv'
  BY NextInv
<1>2. \A t, u \in Threads : t = u
  <2> SUFFICES ASSUME NEW t \in Threads, NEW u \in Threads, t # u PROVE FALSE
    OBVIOUS
  <2>1. Cardinality({t} \cup {u}) = Cardinality({t}) + 1 /\ Cardinality({t}) = 1
    BY AddThread, FS_Singleton
  <2> QED
    BY <2>1, ThreadSets
<1>3. taken \in Nat /\ TypeOK
  BY DEF IInv, TypeOK
<1>4. CASE UNCHANGED vars \/ Finished
  BY <1>1, <1>4 DEF vars, Finished
<1>5. ASSUME NEW t \in Threads, Check(t) PROVE Alone'
  BY <1>1, <1>2, <1>5 DEF Check, IInv, TypeOK
<1>6. ASSUME NEW t \in Threads, Load(t) PROVE Alone'
  BY <1>1, <1>2, <1>6 DEF Load, IInv, TypeOK
<1>7. ASSUME NEW t \in Threads, Decrement(t) PROVE Alone'
  <2>1. total_req_left > 0 /\ total_req_left = NReqs - taken
    BY <1>7 DEF Decrement, IInv, LedgerIsExact
  <2>2. taken' <= NReqs
    BY <1>3, <1>7, <2>1 DEF Decrement
  <2>3. \A u \in Threads : pc'[u] \notin {"checked", "loaded"}
    BY <1>2, <1>3, <1>7 DEF Decrement, TypeOK
  <2> QED
    BY <1>1, <2>2, <2>3
<1>8. ASSUME NEW t \in Threads, Send(t) PROVE Alone'
  BY <1>1, <1>2, <1>3, <1>8 DEF Send, TypeOK
<1> QED
  BY <1>4, <1>5, <1>6, <1>7, <1>8 DEF Next

\* With -t 1 the accesses of on_stream_close and submit_request to the budget
\* behave as one step: what a load found is there at the decrement and no
\* request is sent beyond -n.
THEOREM OneThreadCorrect == Spec => []OneThreadIsAtomic
<1>1. CASE Cardinality(Threads) = 1
  <2>1. Alone => OneThreadIsAtomic
    <3> SUFFICES ASSUME Alone
                 PROVE  total_req_left + total_req_send + Cardinality(Taken) = NReqs
      BY DEF Alone, OneThreadIsAtomic
    <3>1. Cardinality(Taken) \in Nat
      BY ThreadSets DEF Taken
    <3> QED
      BY <3>1, BudgetAssumption DEF Alone, IInv, TypeOK, LedgerIsExact
  <2>2. Alone /\ [Next]_vars => Alone'
    BY <1>1, AloneNext
  <2> QED
    BY <2>1, <2>2, AloneInit, PTL DEF Spec
<1>2. CASE Cardinality(Threads) # 1
  <2>1. OneThreadIsAtomic
    BY <1>2 DEF OneThreadIsAtomic
  <2> QED
    BY <2>1, PTL
<1> QED
  BY <1>1, <1>2
=============================================================================
