----------------------- MODULE HarnessBarrierProofs -----------------------
(***************************************************************************)
(* The barrier separates its rounds for every number of threads, as far as *)
(* wakeups without a broadcast let it.  The invariant compares how often   *)
(* each thread has been counted with the number gen of broadcasts: a       *)
(* thread is ahead of gen by one for each such wakeup at most, and behind  *)
(* it by one for each of them before the last broadcast at most, since a   *)
(* broadcast that does without a thread counts a stray one twice.          *)
(***************************************************************************)
EXTENDS HarnessBarrier, FiniteSetTheorems, TLAPS

(* How often thread t has been counted. *)
Counted(t) == IF pc[t] \in {"lock", "count"} THEN entered[t] - 1 ELSE entered[t]

Waits(t) == IF t \in _cond THEN 1 ELSE 0

Place(t) ==
    /\ left[t] = IF pc[t] = "out" THEN entered[t] ELSE entered[t] - 1
    /\ t \in _cond => pc[t] = "wait"
    /\ Counted(t) <= gen + spurious + Waits(t)
    /\ gen + stray + Waits(t) <= Counted(t) + spurious

Places == \A t \in Threads : Place(t)

IInv == TypeOK /\ MutualExclusion /\ CountsWaiters /\ Places

-----------------------------------------------------------------------------

(* There are N threads, and nobody is not one of them. *)
LEMMA ThreadsFinite ==
    /\ IsFiniteSet(Threads)
    /\ Cardinality(Threads) = N
    /\ FREE \notin Threads
<1>1. N \in Nat \ {0}
  BY BarrierAssumption
<1>2. IsFiniteSet(1 .. N) /\ Cardinality(1 .. N) = N
  BY <1>1, FS_Interval
<1> QED
  BY <1>1, <1>2 DEF Threads, FREE

(* A set of threads has at most N members. *)
LEMMA SubsetsFinite ==
    ASSUME NEW S \in SUBSET Threads
    PROVE  IsFiniteSet(S) /\ Cardinality(S) \in Nat /\ Cardinality(S) <= N
BY ThreadsFinite, FS_Subset, FS_CardinalityType

(* A set of threads that leaves two of them out.                           *)
LEMMA TwoLeftOut ==
    ASSUME NEW S \in SUBSET Threads, NEW t \in Threads \ S, NEW u \in Threads \ S, t # u
    PROVE  Cardinality(S) + 1 < N
<1> DEFINE R == S \cup {t}
           Q == R \cup {u}
<1>1. IsFiniteSet(S) /\ Cardinality(S) \in Nat
  BY SubsetsFinite
<1>2. IsFiniteSet(R) /\ Cardinality(R) = Cardinality(S) + 1 /\ u \notin R
  BY <1>1, FS_AddElement
<1>3. Cardinality(Q) = Cardinality(R) + 1
  BY <1>2, FS_AddElement
<1>4. Cardinality(Q) <= N
  BY SubsetsFinite
<1> QED
  BY <1>1, <1>2, <1>3, <1>4, BarrierAssumption

(* When the last thread counts itself, a thread that neither waits nor is  *)
(* the last one is stray, or a stray one has been counted for it.          *)
LEMMA StrayForMissing ==
    ASSUME IInv, NEW t \in Threads, Broadcast(t), NEW u \in Threads, u # t, u \notin _cond
    PROVE  stray > 0
<1>1. t \notin _cond
  BY DEF IInv, Places, Place, Broadcast
<1>2. Cardinality(_cond) + 1 < N /\ Cardinality(_cond) \in Nat
  BY <1>1, TwoLeftOut, SubsetsFinite DEF IInv, TypeOK
<1> QED
  BY <1>2, BarrierAssumption DEF IInv, TypeOK, CountsWaiters, Broadcast

(* The invariant holds initially.                                          *)
LEMMA InitInv == Init => IInv
<1> SUFFICES ASSUME Init PROVE IInv
  OBVIOUS
<1>1. TypeOK
  BY BarrierAssumption DEF Init, TypeOK
<1>2. MutualExclusion /\ Places
  BY DEF Init, MutualExclusion, Places, Place, Counted, Waits
<1>3. CountsWaiters
  BY FS_EmptySet DEF Init, CountsWaiters
<1> QED
  BY <1>1, <1>2, <1>3 DEF IInv

(* A step that neither counts a thread nor wakes one.                      *)
LEMMA CalmPlaces ==
    ASSUME Places, UNCHANGED <<_cond, gen, spurious, stray>>, NEW t \in Threads,
           \A u \in Threads \ {t} :
               pc'[u] = pc[u] /\ entered'[u] = entered[u] /\ left'[u] = left[u],
           Counted(t)' = Counted(t),
           left'[t] = (IF pc'[t] = "out" THEN entered'[t] ELSE entered'[t] - 1),
           t \in _cond => pc'[t] = "wait"
    PROVE  Places'
<1> SUFFICES ASSUME NEW u \in Threads PROVE Place(u)'
  BY DEF Places
<1>1. CASE u # t
  BY <1>1 DEF Places, Place, Counted, Waits
<1>2. CASE u = t
  BY <1>2 DEF Places, Place, Waits
<1> QED
  BY <1>1, <1>2

(* Every step of Join preserves it.                                        *)
LEMMA JoinInv == ASSUME IInv, NEW t \in Threads, Join(t) PROVE IInv'
<1> USE BarrierAssumption, ThreadsFinite DEF IInv, TypeOK
<1>1. CASE Call(t)
  <2>1. TypeOK'
    BY <1>1 DEF Call
  <2>2. MutualExclusion' /\ CountsWaiters'
    BY <1>1 DEF Call, MutualExclusion, CountsWaiters
  <2>3. Places'
    BY <1>1, CalmPlaces DEF Call, Places, Place, Counted
  <2> QED
    BY <2>1, <2>2, <2>3
<1>2. CASE Lock(t)
  <2>1. TypeOK'
    BY <1>2 DEF Lock
  <2>2. MutualExclusion' /\ CountsWaiters'
    BY <1>2 DEF Lock, MutualExclusion, CountsWaiters
  <2>3. Places'
    BY <1>2, CalmPlaces DEF Lock, Places, Place, Counted
  <2> QED
    BY <2>1, <2>2, <2>3
<1>3. CASE Broadcast(t)
  <2>1. TypeOK'
    BY <1>3 DEF Broadcast
  <2>2. MutualExclusion'
    BY <1>3 DEF Broadcast, MutualExclusion
  <2>3. CountsWaiters'
    BY <1>3, FS_EmptySet DEF Broadcast, CountsWaiters
  <2>4. Places'
    <3> SUFFICES ASSUME NEW u \in Threads PROVE Place(u)'
      BY DEF Places
    <3>1. /\ gen' = gen + 1 /\ stray' = 0 /\ _cond' = {} /\ pc' = [pc EXCEPT ![t] = "unlock"]
          /\ UNCHANGED <<entered, left, spurious>> /\ pc[t] = "count"
      BY <1>3 DEF Broadcast
    <3>2. Waits(u)' = 0
      BY <3>1 DEF Waits
    <3>3. CASE u = t
      <4>1. Counted(u)' = Counted(u) + 1 /\ Waits(u) = 0 /\ Counted(u) \in Int
        BY <3>1, <3>3 DEF Counted, Waits, Places, Place
      <4> QED
        BY <3>1, <3>2, <3>3, <4>1 DEF Places, Place
    <3>4. CASE u # t
      <4>1. Counted(u)' = Counted(u) /\ Counted(u) \in Int
        BY <3>1, <3>4 DEF Counted
      <4>2. Waits(u) = 1 \/ (Waits(u) = 0 /\ stray > 0)
        BY <1>3, <3>4, StrayForMissing DEF Waits
      <4> QED
        BY <3>1, <3>2, <3>4, <4>1, <4>2 DEF Places, Place
    <3> QED
      BY <3>3, <3>4
  <2> QED
    BY <2>1, <2>2, <2>3, <2>4
<1>4. CASE CondWait(t)
  <2>1. TypeOK'
    BY <1>4, SubsetsFinite DEF CondWait, CountsWaiters
  <2>2. MutualExclusion'
    BY <1>4 DEF CondWait, MutualExclusion
  <2>3. CountsWaiters'
    <3>1. t \notin _cond
      BY <1>4 DEF CondWait, Places, Place
    <3>2. IsFiniteSet(_cond) /\ Cardinality(_cond) \in Nat
      BY SubsetsFinite
    <3>3. Cardinality(_cond \cup {t}) = Cardinality(_cond) + 1
      BY <3>1, <3>2, FS_AddElement
    <3> QED
      BY <1>4, <3>2, <3>3 DEF CondWait, CountsWaiters
  <2>4. Places'
    <3> SUFFICES ASSUME NEW u \in Threads PROVE Place(u)'
      BY DEF Places
    <3>1. /\ _cond' = _cond \cup {t} /\ pc' = [pc EXCEPT ![t] = "wait"] /\ pc[t] = "count"
          /\ UNCHANGED <<entered, left, gen, spurious, stray>>
      BY <1>4 DEF CondWait
    <3>2. CASE u = t
      <4>1. Counted(u)' = Counted(u) + 1 /\ Waits(u) = 0 /\ Waits(u)' = 1 /\ Counted(u) \in Int
        BY <3>1, <3>2 DEF Counted, Waits, Places, Place
      <4> QED
        BY <3>1, <3>2, <4>1 DEF Places, Place
    <3>3. CASE u # t
      BY <3>1, <3>3 DEF Places, Place, Counted, Waits
    <3> QED
      BY <3>2, <3>3
  <2> QED
    BY <2>1, <2>2, <2>3, <2>4
<1>5. CASE Wake(t)
  <2>1. TypeOK'
    BY <1>5 DEF Wake
  <2>2. MutualExclusion' /\ CountsWaiters'
    BY <1>5 DEF Wake, MutualExclusion, CountsWaiters
  <2>3. Places'
    BY <1>5, CalmPlaces DEF Wake, Places, Place, Counted
  <2> QED
    BY <2>1, <2>2, <2>3
<1>6. CASE Unlock(t)
  <2>1. TypeOK'
    BY <1>6 DEF Unlock
  <2>2. MutualExclusion' /\ CountsWaiters'
    BY <1>6 DEF Unlock, MutualExclusion, CountsWaiters
  <2>3. Places'
    BY <1>6, CalmPlaces DEF Unlock, Places, Place, Counted
  <2> QED
    BY <2>1, <2>2, <2>3
<1> QED
  BY <1>1, <1>2, <1>3, <1>4, <1>5, <1>6 DEF Join

(* And so does a wakeup without a broadcast: the count keeps the thread.   *)
LEMMA SpuriousInv == ASSUME IInv, NEW t \in Threads, SpuriousWakeup(t) PROVE IInv'
<1> USE BarrierAssumption, ThreadsFinite DEF IInv, TypeOK
<1>0. /\ t \in _cond /\ _cond' = _cond \ {t} /\ spurious' = spurious + 1 /\ stray' = stray + 1
      /\ UNCHANGED <<_joined, _lock, pc, entered, left, gen>>
  BY DEF SpuriousWakeup
<1>1. TypeOK' /\ MutualExclusion'
  BY <1>0 DEF MutualExclusion
<1>2. CountsWaiters'
  <2>1. IsFiniteSet(_cond) /\ Cardinality(_cond) \in Nat
    BY SubsetsFinite
  <2>2. Cardinality(_cond \ {t}) = Cardinality(_cond) - 1
    BY <1>0, <2>1, FS_RemoveElement
  <2> QED
    BY <1>0, <2>1, <2>2 DEF CountsWaiters
<1>3. Places'
  <2> SUFFICES ASSUME NEW u \in Threads PROVE Place(u)'
    BY DEF Places
  <2>1. Counted(u)' = Counted(u) /\ Counted(u) \in Int
    BY <1>0 DEF Counted
  <2>2. Waits(u) \in 0 .. 1 /\ Waits(u)' = (IF u = t THEN Waits(u) - 1 ELSE Waits(u))
    BY <1>0 DEF Waits
  <2> QED
    BY <1>0, <2>1, <2>2 DEF Places, Place
<1> QED
  BY <1>1, <1>2, <1>3

(* IInv is an invariant of the barrier.                                    *)
THEOREM Invariance == Spec => []IInv
<1>1. IInv /\ [Next]_vars => IInv'
  <2>1. CASE Done \/ UNCHANGED vars
    BY <2>1 DEF Done, vars, IInv, TypeOK, MutualExclusion, CountsWaiters, Places, Place,
                Counted, Waits
  <2> QED
    BY <2>1, JoinInv, SpuriousInv DEF Next
<1> QED
  BY InitInv, <1>1, PTL DEF Spec

-----------------------------------------------------------------------------

(* Every variable always has its type; in particular the count never       *)
(* reaches the number of threads, so that the barrier never misses the     *)
(* last one, spurious wakeups or not.                                      *)
THEOREM TypeCorrect == Spec => []TypeOK
BY Invariance, PTL DEF IInv

(* The count is always that of the threads that wait, and of the stray     *)
(* ones of the round.                                                      *)
THEOREM CountCorrect == Spec => []CountsWaiters
BY Invariance, PTL DEF IInv

(* A thread that is about to leave, or has left, is ahead of no other by   *)
(* more than two rounds for each spurious wakeup.                          *)
LEMMA Ahead ==
    ASSUME IInv, NEW t \in Threads, NEW u \in Threads
    PROVE  /\ left[t] <= entered[u] + 2 * spurious
           /\ pc[t] = "unlock" => entered[t] <= entered[u] + 2 * spurious
<1>1. /\ Counted(u) <= entered[u] /\ Counted(u) \in Int /\ Counted(t) \in Int
      /\ Waits(t) \in 0 .. 1 /\ Waits(u) \in 0 .. 1
  BY DEF IInv, TypeOK, Counted, Waits
<1>2. left[t] <= Counted(t) - Waits(t)
  BY DEF IInv, TypeOK, Places, Place, Counted, Waits
<1>3. pc[t] = "unlock" => entered[t] <= Counted(t) - Waits(t)
  BY DEF IInv, TypeOK, Places, Place, Counted, Waits
<1>4. Counted(t) <= gen + spurious + Waits(t) /\ gen + stray + Waits(u) <= Counted(u) + spurious
  BY DEF IInv, Places, Place
<1> QED
  BY <1>1, <1>2, <1>3, <1>4 DEF IInv, TypeOK

(* Nobody leaves a round of the barrier before all have come to it, but    *)
(* for two rounds after each spurious wakeup.                              *)
THEOREM Separates == Spec => []Separation
<1>1. IInv => Separation
  BY Ahead DEF Separation
<1> QED
  BY Invariance, <1>1, PTL

(* The barrier implements the promise of a barrier, as far as the wakeups  *)
(* let it.                                                                 *)
THEOREM Refinement == Spec => ImplementsPhases
<1>1. Init => Phases!PInit
  BY DEF Init, Phases!PInit
<1>2. IInv /\ [Next]_vars => [Phases!PNext]_(Phases!pvars)
  <2> SUFFICES ASSUME IInv, [Next]_vars PROVE [Phases!PNext]_(Phases!pvars)
    OBVIOUS
  <2>1. ASSUME NEW t \in Threads, Call(t) PROVE Phases!PNext
    BY <2>1 DEF Call, IInv, TypeOK, Places, Place, Phases!PNext, Phases!Enter
  <2>2. ASSUME NEW t \in Threads, Unlock(t) PROVE Phases!PNext
    <3>1. left[t] < entered[t]
      BY <2>2 DEF Unlock, IInv, TypeOK, Places, Place
    <3>2. \A u \in Threads : entered[t] <= entered[u] + 2 * spurious
      BY <2>2, Ahead DEF Unlock
    <3> QED
      BY <2>2, <3>1, <3>2 DEF Unlock, Phases!PNext, Phases!Leave
  <2>3. ASSUME NEW t \in Threads, SpuriousWakeup(t) PROVE Phases!PNext
    <3>1. left[t] < entered[t]
      BY <2>3 DEF SpuriousWakeup, IInv, TypeOK, Places, Place
    <3> QED
      BY <2>3, <3>1 DEF SpuriousWakeup, Phases!PNext, Phases!WakeEarly
  <2>4. ASSUME NEW t \in Threads, Lock(t) \/ Broadcast(t) \/ CondWait(t) \/ Wake(t)
        PROVE  UNCHANGED Phases!pvars
    BY <2>4 DEF Lock, Broadcast, CondWait, Wake, Phases!pvars
  <2>5. CASE Done \/ UNCHANGED vars
    BY <2>5 DEF Done, vars, Phases!pvars
  <2> QED
    BY <2>1, <2>2, <2>3, <2>4, <2>5 DEF Next, Join
<1> QED
  BY Invariance, <1>1, <1>2, PTL DEF Spec, ImplementsPhases, Phases!PSpec
============================================================================
