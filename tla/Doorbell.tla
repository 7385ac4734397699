----------------------------- MODULE Doorbell -----------------------------
(***************************************************************************)
(* The doorbell handshake of pthread_test.c, pthread_test_noposix.c,       *)
(* pthread_counter.c and pthread_test_create.c.  main rings doorbell[t]    *)
(* (START) for every thread and spins until every doorbell shows FINISHED; *)
(* thread t spins until its own doorbell shows START, transfers its share  *)
(* and answers FINISHED in the same cell.  The drivers with several        *)
(* transfer sizes repeat this once for every size (ROUNDS sizes), the      *)
(* others have a single round.                                             *)
(*                                                                         *)
(* Each access to a doorbell is one step: the cells are volatile 64-bit    *)
(* words, which the x86 build reads and writes whole and in order.         *)
(*                                                                         *)
(* Behind each round the drivers with several sizes divide the time by the *)
(* number of reads of a thread.  That number is 0 when the file is smaller *)
(* than one piece for each thread, and the division kills the process.     *)
(***************************************************************************)
EXTENDS Integers

CONSTANTS
    N,              \* num_threads
    ROUNDS,         \* how many sizes lie between start_size and END_SIZE
    START_SIZE,     \* start_size
    FileSizes       \* what FILE_SIZE may be: at least END_SIZE

ASSUME NAssumption == N \in Nat \ {0}
ASSUME RoundsAssumption == ROUNDS \in Nat \ {0}
ASSUME SizeAssumption == START_SIZE \in Nat \ {0} /\ FileSizes \subseteq Nat \ {0}

VARIABLES
    doorbell,   \* the cell doorbell[t * 8] of each thread t
    mpc,        \* where main is
    mi,         \* main's loop index i
    mround,     \* main's size, counted from 1
    pc,         \* where each thread is
    round,      \* each thread's own size, counted from 1
    timed       \* the rounds whose count is not 0, which FILE_SIZE decides

vars == <<doorbell, mpc, mi, mround, pc, round, timed>>

Threads == 0 .. N - 1

QUIET == 0
START == 1
FINISHED == 2

(* size <<= 1 *)
Size(r) ==
    LET size[k \in 1 .. r] == IF k = 1 THEN START_SIZE ELSE 2 * size[k - 1]
    IN  size[r]

(* The rounds whose time main can divide by the count.                     *)
Timed(file_size) == {r \in 1 .. ROUNDS : file_size \div (N * Size(r)) > 0}

TypeOK ==
    /\ doorbell \in [Threads -> {QUIET, START, FINISHED}]
    /\ mpc \in {"create", "prepare", "ring", "poll", "join", "done", "killed"}
    /\ mi \in Threads
    /\ mround \in 1 .. ROUNDS + 1
    /\ pc \in [Threads -> {"unborn", "loop", "spin", "transfer", "exited", "killed"}]
    /\ round \in [Threads -> 1 .. ROUNDS + 1]
    /\ timed \in SUBSET (1 .. ROUNDS)

Init ==
    /\ doorbell = [t \in Threads |-> QUIET]
    /\ mpc = "create"
    /\ mi = 0
    /\ mround = 1
    /\ pc = [t \in Threads |-> "unborn"]
    /\ round = [t \in Threads |-> 1]
    /\ timed \in {Timed(file_size) : file_size \in FileSizes}

-----------------------------------------------------------------------------
(* main *)

(* A step of one of main's loops "for (i = 0; i < num_threads; i++)": the  *)
(* index advances, and after the last thread main goes on at next.         *)
ForEach(here, next) ==
    /\ mpc = here
    /\ mi' = IF mi + 1 = N THEN 0 ELSE mi + 1
    /\ mpc' = IF mi + 1 = N THEN next ELSE here

CreateThread ==
    /\ ForEach("create", "prepare")
    /\ pc' = [pc EXCEPT ![mi] = "loop"]
    /\ UNCHANGED <<doorbell, mround, round, timed>>

(* main rewinds the file (and refills the buffer) of thread i. *)
PrepareFile ==
    /\ ForEach("prepare", "ring")
    /\ UNCHANGED <<doorbell, mround, pc, round, timed>>

(* Mutant: rings a doorbell only if it is quiet, as if threads reset theirs. *)
RingQuiet ==
    /\ ForEach("ring", "poll")
    /\ doorbell' = [doorbell EXCEPT ![mi] = IF @ = QUIET THEN START ELSE @]
    /\ UNCHANGED <<mround, pc, round, timed>>

(* start_all_pthreads *)
Ring ==
    /\ ForEach("ring", "poll")
    /\ doorbell' = [doorbell EXCEPT ![mi] = START]
    /\ UNCHANGED <<mround, pc, round, timed>>

(* all_pthreads_finished: one look at one doorbell.  A thread that is not  *)
(* finished sends main back to the first one, and after the last one the   *)
(* round is over.                                                          *)
PollUnfinished ==
    /\ mpc = "poll"
    /\ doorbell[mi] # FINISHED
    /\ mi' = 0
    /\ UNCHANGED <<doorbell, mpc, mround, pc, round, timed>>

(* Mutant: the first thread that is finished ends the round. *)
PollAnyFinished ==
    /\ mpc = "poll"
    /\ doorbell[mi] = FINISHED
    /\ mi' = 0
    /\ mpc' = IF mround < ROUNDS THEN "prepare" ELSE "join"
    /\ mround' = mround + 1
    /\ UNCHANGED <<doorbell, pc, round, timed>>

PollFinished ==
    /\ doorbell[mi] = FINISHED
    /\ mi + 1 = N => mround \in timed
    /\ ForEach("poll", IF mround < ROUNDS THEN "prepare" ELSE "join")
    /\ mround' = IF mi + 1 = N THEN mround + 1 ELSE mround
    /\ UNCHANGED <<doorbell, pc, round, timed>>

(* time / count, where count is 0: SIGFPE ends main and the threads.       *)
DivideByZero ==
    /\ mpc = "poll" /\ mi + 1 = N
    /\ doorbell[mi] = FINISHED
    /\ mround \notin timed
    /\ mpc' = "killed"
    /\ pc' = [t \in Threads |-> "killed"]
    /\ UNCHANGED <<doorbell, mi, mround, round, timed>>

Join ==
    /\ pc[mi] = "exited"
    /\ ForEach("join", "done")
    /\ UNCHANGED <<doorbell, mround, pc, round, timed>>

Main ==
    \/ CreateThread \/ PrepareFile \/ Ring \/ PollUnfinished \/ PollFinished
    \/ DivideByZero \/ Join

-----------------------------------------------------------------------------
(* pthread_transfer *)

(* Mutant: one size more than main has. *)
LoopTestInclusive(t) ==
    /\ pc[t] = "loop"
    /\ pc' = [pc EXCEPT ![t] = IF round[t] <= ROUNDS + 1 THEN "spin" ELSE "exited"]
    /\ UNCHANGED <<doorbell, mpc, mi, mround, round, timed>>

(* while (size <= END_SIZE) *)
LoopTest(t) ==
    /\ pc[t] = "loop"
    /\ pc' = [pc EXCEPT ![t] = IF round[t] <= ROUNDS THEN "spin" ELSE "exited"]
    /\ UNCHANGED <<doorbell, mpc, mi, mround, round, timed>>

(* Mutant: any value but QUIET starts the transfer. *)
BeginUnlessQuiet(t) ==
    /\ pc[t] = "spin"
    /\ doorbell[t] # QUIET
    /\ pc' = [pc EXCEPT ![t] = "transfer"]
    /\ UNCHANGED <<doorbell, mpc, mi, mround, round, timed>>

(* pthread_can_start *)
Begin(t) ==
    /\ pc[t] = "spin"
    /\ doorbell[t] = START
    /\ pc' = [pc EXCEPT ![t] = "transfer"]
    /\ UNCHANGED <<doorbell, mpc, mi, mround, round, timed>>

(* signal_pthread_finished; size <<= 1 *)
Signal(t) ==
    /\ pc[t] = "transfer"
    /\ doorbell' = [doorbell EXCEPT ![t] = FINISHED]
    /\ round' = [round EXCEPT ![t] = @ + 1]
    /\ pc' = [pc EXCEPT ![t] = "loop"]
    /\ UNCHANGED <<mpc, mi, mround, timed>>

Transfer(t) == LoopTest(t) \/ Begin(t) \/ Signal(t)

-----------------------------------------------------------------------------

Done == mpc \in {"done", "killed"} /\ UNCHANGED vars

Next == Main \/ (\E t \in Threads : Transfer(t)) \/ Done

Spec == Init /\ [][Next]_vars

(* main and every thread are runnable all the time (they spin, they never  *)
(* block before the final join), so the scheduler gives each its turn.     *)
FairSpec ==
    /\ Spec
    /\ WF_vars(Main)
    /\ \A t \in Threads : WF_vars(Transfer(t))

-----------------------------------------------------------------------------
(* While main rewinds the files and refills the buffers for the next       *)
(* round, no thread is inside a transfer that uses them: one cell per      *)
(* thread, used in both directions, is all that keeps the two apart        *)
(* (pthread_test.c:225-229 against 79-93).                                 *)
MainPreparesAlone ==
    mpc \in {"create", "prepare"} => \A t \in Threads : pc[t] # "transfer"

(* A thread transfers with the size main is timing, although each computes *)
(* its own size; the line main prints for a size is about that size        *)
(* (pthread_test.c:70,96 against 223,242).                                 *)
SameSize ==
    \A t \in Threads : pc[t] = "transfer" => mpc \in {"ring", "poll"} /\ round[t] = mround

(* A FINISHED that main believes belongs to this round, never to the one   *)
(* before: a thread that main has looked at and passed over is past this   *)
(* round's transfer (pthread_test.c:44-53).                                *)
NoStaleFinish ==
    mpc = "poll" => \A t \in 0 .. mi - 1 : round[t] = mround + 1

(* main makes the step that rings for thread t.                            *)
RingsFor(t) == mpc = "ring" /\ mi = t /\ <<mpc, mi>>' # <<mpc, mi>>

(* A ring is answered: main rings only for a thread that is done with its  *)
(* last ring, and never writes START over a START that the thread has not  *)
(* taken; nobody else rings; and START is answered by FINISHED, behind the *)
(* thread's transfer, and by nothing else                                  *)
(* (pthread_test.c:34-42,60-63,79,95).                                     *)
RingAnswered ==
    [][\A t \in Threads :
          /\ RingsFor(t) => doorbell[t] # START /\ pc[t] \in {"loop", "spin"}
          /\ doorbell'[t] # doorbell[t] =>
                \/ RingsFor(t) /\ doorbell'[t] = START
                \/ doorbell[t] = START /\ doorbell'[t] = FINISHED /\ pc[t] = "transfer"]_vars

(* The handshake implements rounds of fork and join. *)
RoundsDone == {t \in Threads : round[t] > mround}

ForkJoin == INSTANCE ForkJoinRounds WITH rnd <- mround, done <- RoundsDone, ends <- timed

ImplementsForkJoin == ForkJoin!ASpec

(* and under fair scheduling every round does end, up to the first one     *)
(* whose time cannot be divided (pthread_test.c:218-244).                  *)
ImplementsFairForkJoin == ForkJoin!AFairSpec

============================================================================
