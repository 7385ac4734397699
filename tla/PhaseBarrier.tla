--------------------------- MODULE PhaseBarrier ---------------------------
(***************************************************************************)
(* What a barrier promises: nobody leaves it for the k-th time before      *)
(* everybody has come to it for the k-th time.  Where threads may wake too *)
(* early, each such wakeup puts a thread ahead by two rounds at most.      *)
(***************************************************************************)
EXTENDS Naturals

CONSTANT Threads

VARIABLES
    entered,    \* how often each thread has come to the barrier,
    left,       \* how often it has left it,
    early       \* and wakeups that come too early

pvars == <<entered, left, early>>

PInit ==
    /\ entered = [t \in Threads |-> 0]
    /\ left = [t \in Threads |-> 0]
    /\ early = 0

Enter(t) ==
    /\ entered[t] = left[t]
    /\ entered' = [entered EXCEPT ![t] = @ + 1]
    /\ UNCHANGED <<left, early>>

Leave(t) ==
    /\ left[t] < entered[t]
    /\ \A u \in Threads : entered[t] <= entered[u] + 2 * early
    /\ left' = [left EXCEPT ![t] = @ + 1]
    /\ UNCHANGED <<entered, early>>

(* Only a thread inside the barrier can wake. *)
WakeEarly ==
    /\ \E t \in Threads : left[t] < entered[t]
    /\ early' = early + 1
    /\ UNCHANGED <<entered, left>>

PNext == (\E t \in Threads : Enter(t) \/ Leave(t)) \/ WakeEarly

PSpec == PInit /\ [][PNext]_pvars
============================================================================
