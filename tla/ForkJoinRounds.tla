-------------------------- MODULE ForkJoinRounds --------------------------
(***************************************************************************)
(* What the benchmark drivers need from their thread handshake: in every   *)
(* round each thread does its share exactly once, and the next round       *)
(* begins only when all shares of this one are done, so that the time      *)
(* between the two is the time of whole rounds of work.  The rounds that   *)
(* are not in ends do not end.                                             *)
(***************************************************************************)
EXTENDS Naturals

CONSTANTS Threads, ROUNDS

VARIABLES rnd, done, ends

avars == <<rnd, done, ends>>

AInit == rnd = 1 /\ done = {} /\ ends \subseteq 1 .. ROUNDS

(* Thread t does its share of the current round. *)
Work(t) ==
    /\ rnd <= ROUNDS
    /\ t \notin done
    /\ done' = done \cup {t}
    /\ UNCHANGED <<rnd, ends>>

(* The round is over once every thread has done its share. *)
Advance ==
    /\ rnd \in ends
    /\ done = Threads
    /\ rnd' = rnd + 1
    /\ done' = {}
    /\ ends' = ends

ANext == Advance \/ \E t \in Threads : Work(t)

ASpec == AInit /\ [][ANext]_avars

AFairSpec == ASpec /\ WF_avars(ANext)
============================================================================
