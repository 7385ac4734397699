-------------------------- MODULE HarnessBarrier --------------------------
(***************************************************************************)
(* harness::Barrier of Util/HarnessBarrier.hpp as it is built with         *)
(* NO_BARRIERS: Join counts the threads that have come under a mutex, and  *)
(* all but the last wait on a condition variable.  The wait is not in a    *)
(* loop, so that a wakeup without a broadcast, which POSIX permits, lets a *)
(* thread leave early, while _joined goes on counting it.                  *)
(***************************************************************************)
EXTENDS Integers, FiniteSets

CONSTANTS
    N,          \* _numThreads
    JOINS,      \* bound: how often each thread calls Join
    MaxSpurious \* bound: wakeups without a broadcast

ASSUME BarrierAssumption == N \in Nat \ {0} /\ {JOINS, MaxSpurious} \subseteq Nat

Threads == 1 .. N
FREE == 0

VARIABLES
    _joined,
    _lock,      \* the thread that holds the mutex, or FREE
    _cond,      \* the threads that wait on the condition variable
    pc,
    entered,    \* history: calls of Join by each thread,
    left,       \* returns from Join,
    gen,        \* how often the last thread has come,
    spurious,   \* wakeups without a broadcast,
    stray       \* and those of them since the last broadcast

vars == <<_joined, _lock, _cond, pc, entered, left, gen, spurious, stray>>

TypeOK ==
    /\ _joined \in 0 .. N - 1
    /\ _lock \in Threads \cup {FREE}
    /\ _cond \in SUBSET Threads
    /\ pc \in [Threads -> {"out", "lock", "count", "wait", "unlock"}]
    /\ entered \in [Threads -> Nat]
    /\ left \in [Threads -> Nat]
    /\ gen \in Nat
    /\ spurious \in Nat
    /\ stray \in Nat

Init ==
    /\ _joined = 0
    /\ _lock = FREE
    /\ _cond = {}
    /\ pc = [t \in Threads |-> "out"]
    /\ entered = [t \in Threads |-> 0]
    /\ left = [t \in Threads |-> 0]
    /\ gen = 0
    /\ spurious = 0
    /\ stray = 0

Call(t) ==
    /\ pc[t] = "out"
    /\ entered[t] < JOINS
    /\ entered' = [entered EXCEPT ![t] = @ + 1]
    /\ pc' = [pc EXCEPT ![t] = "lock"]
    /\ UNCHANGED <<_joined, _lock, _cond, left, gen, spurious, stray>>

Lock(t) ==
    /\ pc[t] = "lock"
    /\ _lock = FREE
    /\ _lock' = t
    /\ pc' = [pc EXCEPT ![t] = "count"]
    /\ UNCHANGED <<_joined, _cond, entered, left, gen, spurious, stray>>

(* Mutants: the count is not reset, *)
BroadcastWithoutReset(t) ==
    /\ pc[t] = "count"
    /\ _joined + 1 = N
    /\ _joined' = N
    /\ _cond' = {}
    /\ gen' = gen + 1
    /\ stray' = 0
    /\ pc' = [pc EXCEPT ![t] = "unlock"]
    /\ UNCHANGED <<_lock, entered, left, spurious>>

(* the last thread but one already wakes the others, *)
BroadcastEarly(t) ==
    /\ pc[t] = "count"
    /\ _joined + 1 >= N - 1
    /\ _joined' = 0
    /\ _cond' = {}
    /\ gen' = gen + 1
    /\ stray' = 0
    /\ pc' = [pc EXCEPT ![t] = "unlock"]
    /\ UNCHANGED <<_lock, entered, left, spurious>>

(* and one thread only is woken. *)
SignalOne(t) ==
    /\ pc[t] = "count"
    /\ _joined + 1 = N
    /\ _joined' = 0
    /\ _cond' = _cond \ {CHOOSE u \in Threads : _cond = {} \/ u \in _cond}
    /\ gen' = gen + 1
    /\ stray' = 0
    /\ pc' = [pc EXCEPT ![t] = "unlock"]
    /\ UNCHANGED <<_lock, entered, left, spurious>>

(* The last thread resets the count and wakes the others, *)
Broadcast(t) ==
    /\ pc[t] = "count"
    /\ _joined + 1 = N
    /\ _joined' = 0
    /\ _cond' = {}
    /\ gen' = gen + 1
    /\ stray' = 0
    /\ pc' = [pc EXCEPT ![t] = "unlock"]
    /\ UNCHANGED <<_lock, entered, left, spurious>>

(* every other thread releases the mutex and waits, *)
CondWait(t) ==
    /\ pc[t] = "count"
    /\ _joined + 1 # N
    /\ _joined' = _joined + 1
    /\ _cond' = _cond \cup {t}
    /\ _lock' = FREE
    /\ pc' = [pc EXCEPT ![t] = "wait"]
    /\ UNCHANGED <<entered, left, gen, spurious, stray>>

(* and may wake without a broadcast.  In either case it takes the mutex    *)
(* again when it is awake.                                                 *)
SpuriousWakeup(t) ==
    /\ t \in _cond
    /\ spurious < MaxSpurious
    /\ _cond' = _cond \ {t}
    /\ spurious' = spurious + 1
    /\ stray' = stray + 1
    /\ UNCHANGED <<_joined, _lock, pc, entered, left, gen>>

Wake(t) ==
    /\ pc[t] = "wait"
    /\ t \notin _cond
    /\ _lock = FREE
    /\ _lock' = t
    /\ pc' = [pc EXCEPT ![t] = "unlock"]
    /\ UNCHANGED <<_joined, _cond, entered, left, gen, spurious, stray>>

Unlock(t) ==
    /\ pc[t] = "unlock"
    /\ _lock' = FREE
    /\ left' = [left EXCEPT ![t] = @ + 1]
    /\ pc' = [pc EXCEPT ![t] = "out"]
    /\ UNCHANGED <<_joined, _cond, entered, gen, spurious, stray>>

Join(t) == Call(t) \/ Lock(t) \/ Broadcast(t) \/ CondWait(t) \/ Wake(t) \/ Unlock(t)

(* Every thread has left the barrier for the last time, or is stranded in  *)
(* it for good.                                                            *)
Done ==
    /\ \A t \in Threads : left[t] = JOINS \/ (t \in _cond /\ spurious > 0)
    /\ UNCHANGED vars

Next == (\E t \in Threads : Join(t) \/ SpuriousWakeup(t)) \/ Done

Spec == Init /\ [][Next]_vars

(* A thread that can run does run in the end; the mutex need not be fair,  *)
(* since a thread that is kept out keeps the others waiting for it.  No    *)
(* wakeup without a broadcast need ever come.                              *)
FairSpec == Spec /\ \A t \in Threads : WF_vars(Join(t))

-----------------------------------------------------------------------------

(* The mutex protects the count: one thread at a time is between the       *)
(* lock and the unlock, also after a wait (HarnessBarrier.hpp:22-30).      *)
MutualExclusion ==
    \A t \in Threads : pc[t] \in {"count", "unlock"} => _lock = t

(* Nobody has left a round of the barrier that somebody has not come to,   *)
(* although the count is reset for the next round while the threads of     *)
(* this one are still waking; and a wakeup without a broadcast, after      *)
(* which a thread is counted again in the same round, breaks no more than  *)
(* that round and one for the count it has stolen                          *)
(* (HarnessBarrier.hpp:23-29).                                             *)
Separation == \A t, u \in Threads : left[t] <= entered[u] + 2 * spurious

(* A thread that is early for the next round is not taken for one of this: *)
(* the count is that of the threads that wait for the next broadcast, and  *)
(* of those that no longer wait for it since they woke without one         *)
(* (HarnessBarrier.hpp:23-28).                                             *)
CountsWaiters == _joined = Cardinality(_cond) + stray

(* The barrier implements the promise of a barrier, as far as the wakeups  *)
(* let it.                                                                 *)
Phases == INSTANCE PhaseBarrier WITH early <- spurious

ImplementsPhases == Phases!PSpec

(* When every thread keeps coming, every thread gets through; after a      *)
(* spurious wakeup others may be stranded, but never all: someone does get *)
(* through (HarnessBarrier.hpp:24-28).                                     *)
AllPass ==
    <>(/\ \E t \in Threads : left[t] = JOINS
       /\ spurious = 0 => \A t \in Threads : left[t] = JOINS)
============================================================================
