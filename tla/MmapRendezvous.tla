-------------------------- MODULE MmapRendezvous --------------------------
(***************************************************************************)
(* pthread_test_mmap.c: main has num_threads threads copy a mapped file    *)
(* piece by piece, with pieces of one size after another.  For each        *)
(* transfer it sets a bit for every thread in waiting_threads, clears      *)
(* finished_threads, and waits until every thread has set its bit there.   *)
(* Both words are sets of threads here.                                    *)
(*                                                                         *)
(* What happens between a lock and its unlock is one step, and             *)
(* pthread_cond_wait is a test, a sleep and, after a wakeup, a new test.   *)
(* What the code reads outside the lock (size, data1, and finished_threads *)
(* at line 101) is read in steps of its own.                               *)
(***************************************************************************)
EXTENDS MemCopy

CONSTANTS
    N,              \* num_threads
    START_SIZE,     \* start_size
    END_SIZE,
    FILE_SIZE

ASSUME ThreadsAssumption == N \in Nat \ {0}
(* main makes a smaller FILE_SIZE as large as END_SIZE.                    *)
ASSUME SizesAssumption ==
    /\ START_SIZE \in Nat \ {0} /\ END_SIZE \in Nat \ {0} /\ FILE_SIZE \in Nat
    /\ END_SIZE <= FILE_SIZE

VARIABLES
    size,
    data1,              \* as an offset into the file
    waiting_threads,
    finished_threads,
    mpc, mi,            \* where main is, and its loop index i
    pc,                 \* where each thread is,
    unit, offset,       \* its unit and offset,
    data_begin,         \* and where in the file it copies
    transfer,           \* history: which transfer main is in,
    last,               \* which one each thread has copied for last,
    early               \* and who has begun anew with its bit still set

main == <<size, data1, mpc, mi, transfer>>
locals == <<unit, offset, data_begin, last, early>>
vars == <<main, waiting_threads, finished_threads, pc, locals>>

Threads == 0 .. N - 1

Init ==
    /\ size = 0
    /\ data1 = 0
    /\ waiting_threads = {}
    /\ finished_threads = {}
    /\ mpc = "create" /\ mi = 0
    /\ pc = [t \in Threads |-> "unborn"]
    /\ unit = [t \in Threads |-> 0]
    /\ offset = [t \in Threads |-> 0]
    /\ data_begin = [t \in Threads |-> 0]
    /\ transfer = 0
    /\ last = [t \in Threads |-> 0]
    /\ early = {}

-----------------------------------------------------------------------------
(* main *)

CreateThread ==
    /\ mpc = "create"
    /\ pc' = [pc EXCEPT ![mi] = "start"]
    /\ mi' = IF mi + 1 = N THEN 0 ELSE mi + 1
    /\ mpc' = IF mi + 1 = N THEN "size" ELSE mpc
    /\ UNCHANGED <<size, data1, transfer, waiting_threads, finished_threads, locals>>

(* for (size = start_size; size <= END_SIZE; size <<= 1): main's outer     *)
(* loop ends in the joins, which wait for threads that never exit.         *)
NextSize ==
    /\ mpc = "size"
    /\ size' = IF size = 0 THEN START_SIZE ELSE 2 * size
    /\ mpc' = IF size' <= END_SIZE THEN "rewind" ELSE "join"
    /\ UNCHANGED <<data1, mi, transfer, waiting_threads, finished_threads, pc, locals>>

Rewind ==
    /\ mpc = "rewind"
    /\ data1' = 0
    /\ mpc' = "set"
    /\ UNCHANGED <<size, mi, transfer, waiting_threads, finished_threads, pc, locals>>

(* Mutant: finished_threads keeps the bits of the last transfer. *)
SetWaitingOnly ==
    /\ mpc = "set"
    /\ waiting_threads' = Threads
    /\ transfer' = transfer + 1
    /\ mpc' = "broadcast"
    /\ UNCHANGED <<size, data1, mi, finished_threads, pc, locals>>

SetThreads ==
    /\ mpc = "set"
    /\ waiting_threads' = Threads
    /\ finished_threads' = {}
    /\ transfer' = transfer + 1
    /\ mpc' = "broadcast"
    /\ UNCHANGED <<size, data1, mi, pc, locals>>

(* Mutant: pthread_cond_signal. *)
BroadcastOne ==
    /\ mpc = "broadcast"
    /\ pc' = [t \in Threads |->
                 IF pc[t] = "ready" /\ \A u \in Threads : pc[u] = "ready" => t <= u
                 THEN "take" ELSE pc[t]]
    /\ mpc' = "test"
    /\ UNCHANGED <<size, data1, mi, transfer, waiting_threads, finished_threads, locals>>

Broadcast ==
    /\ mpc = "broadcast"
    /\ pc' = [t \in Threads |-> IF pc[t] = "ready" THEN "take" ELSE pc[t]]
    /\ mpc' = "test"
    /\ UNCHANGED <<size, data1, mi, transfer, waiting_threads, finished_threads, locals>>

TestFinished ==
    /\ mpc = "test"
    /\ mpc' = IF finished_threads = Threads THEN "advance" ELSE "finish"
    /\ UNCHANGED <<size, data1, mi, transfer, waiting_threads, finished_threads, pc, locals>>

Advance ==
    /\ mpc = "advance"
    /\ data1' = data1 + size
    /\ mi' = IF mi + 1 >= FILE_SIZE \div size THEN 0 ELSE mi + 1
    /\ mpc' = IF mi + 1 >= FILE_SIZE \div size THEN "size" ELSE "set"
    /\ UNCHANGED <<size, transfer, waiting_threads, finished_threads, pc, locals>>

Main ==
    CreateThread \/ NextSize \/ Rewind \/ SetThreads \/ Broadcast \/ TestFinished \/ Advance

-----------------------------------------------------------------------------
(* pthread_transfer *)

Goto(t, here, there) == pc[t] = here /\ pc' = [pc EXCEPT ![t] = there]

(* Mutant: the offset of a share as large as the piece. *)
StartWhole(t) ==
    /\ Goto(t, "start", "unit")
    /\ offset' = [offset EXCEPT ![t] = size * t]
    /\ UNCHANGED <<main, waiting_threads, finished_threads, unit, data_begin, last, early>>

(* size may still be 0 here, and is not looked at again for offset. *)
Start(t) ==
    /\ Goto(t, "start", "unit")
    /\ offset' = [offset EXCEPT ![t] = (size \div N) * t]
    /\ UNCHANGED <<main, waiting_threads, finished_threads, unit, data_begin, last, early>>

ReadUnit(t) ==
    /\ Goto(t, "unit", "take")
    /\ unit' = [unit EXCEPT ![t] = size \div N]
    /\ UNCHANGED <<main, waiting_threads, finished_threads, offset, data_begin, last, early>>

(* Mutant: clears the bits of all threads. *)
TakeAll(t) ==
    /\ waiting_threads # {} /\ Goto(t, "take", "begin")
    /\ waiting_threads' = {}
    /\ early' = IF t \in finished_threads THEN early \cup {t} ELSE early \ {t}
    /\ UNCHANGED <<main, finished_threads, unit, offset, data_begin, last>>

(* Any bit lets a thread begin, not only its own. *)
Take(t) ==
    /\ waiting_threads # {} /\ Goto(t, "take", "begin")
    /\ waiting_threads' = waiting_threads \ {t}
    /\ early' = IF t \in finished_threads THEN early \cup {t} ELSE early \ {t}
    /\ UNCHANGED <<main, finished_threads, unit, offset, data_begin, last>>

AwaitReady(t) ==
    /\ waiting_threads = {} /\ Goto(t, "take", "ready")
    /\ UNCHANGED <<main, waiting_threads, finished_threads, locals>>

ReadData1(t) ==
    /\ Goto(t, "begin", "copy")
    /\ data_begin' = [data_begin EXCEPT ![t] = data1 + offset[t]]
    /\ last' = [last EXCEPT ![t] = transfer]
    /\ UNCHANGED <<main, waiting_threads, finished_threads, unit, offset, early>>

(* What is copied does not come back to the rendezvous (SharesStoredWhole  *)
(* says what it is), and behind the mapping or behind buf may be memory.   *)
Copy(t) ==
    /\ Goto(t, "copy", "finished")
    /\ UNCHANGED <<main, waiting_threads, finished_threads, locals>>

Outside(t) ==
    /\ unit[t] > 0
    /\ \/ data_begin[t] + unit[t] > FILE_SIZE
       \/ offset[t] + unit[t] > END_SIZE

(* Or there may be none: SIGSEGV ends the process.                         *)
Fault(t) ==
    /\ pc[t] = "copy" /\ Outside(t)
    /\ pc' = [u \in Threads |-> IF u = t THEN "faulted" ELSE "dead"]
    /\ mpc' = "killed"
    /\ UNCHANGED <<size, data1, mi, transfer, waiting_threads, finished_threads, locals>>

(* Mutant: = for |=. *)
AssignFinished(t) ==
    /\ Goto(t, "finished", "check")
    /\ finished_threads' = {t}
    /\ UNCHANGED <<main, waiting_threads, locals>>

SetFinished(t) ==
    /\ Goto(t, "finished", "check")
    /\ finished_threads' = finished_threads \cup {t}
    /\ UNCHANGED <<main, waiting_threads, locals>>

CheckFinished(t) ==
    /\ Goto(t, "check", IF finished_threads = Threads THEN "signal" ELSE "unit")
    /\ UNCHANGED <<main, waiting_threads, finished_threads, locals>>

(* main is the only thread that waits for finish. *)
Signal(t) ==
    /\ Goto(t, "signal", "unit")
    /\ mpc' = IF mpc = "finish" THEN "test" ELSE mpc
    /\ UNCHANGED <<size, data1, mi, transfer, waiting_threads, finished_threads, locals>>

Transfer(t) ==
    \/ Start(t) \/ ReadUnit(t) \/ Take(t) \/ AwaitReady(t) \/ ReadData1(t)
    \/ Copy(t) \/ Fault(t) \/ SetFinished(t) \/ CheckFinished(t) \/ Signal(t)

-----------------------------------------------------------------------------
(* Both condition variables may wake their waiters for no reason. *)

SpuriousReady(t) ==
    /\ Goto(t, "ready", "take")
    /\ UNCHANGED <<main, waiting_threads, finished_threads, locals>>

SpuriousFinish ==
    /\ mpc = "finish"
    /\ mpc' = "test"
    /\ UNCHANGED <<size, data1, mi, transfer, waiting_threads, finished_threads, pc, locals>>

Next ==
    \/ Main
    \/ \E t \in Threads : Transfer(t) \/ SpuriousReady(t)
    \/ SpuriousFinish
    \/ mpc = "killed" /\ UNCHANGED vars

Spec == Init /\ [][Next]_vars

(* Threads that can run are scheduled; nobody may count on a wakeup that   *)
(* nobody sends.                                                           *)
FairSpec ==
    /\ Spec
    /\ WF_vars(Main)
    /\ \A t \in Threads : WF_vars(Transfer(t))

-----------------------------------------------------------------------------

Positions == {"unborn", "start", "unit", "take", "ready", "begin", "copy",
              "finished", "check", "signal", "faulted", "dead"}

TypeOK ==
    /\ size \in Nat /\ data1 \in Nat
    /\ waiting_threads \in SUBSET Threads
    /\ finished_threads \in SUBSET Threads
    /\ mpc \in {"create", "size", "rewind", "set", "broadcast", "test", "finish",
                "advance", "join", "killed"}
    /\ mi \in Nat
    /\ pc \in [Threads -> Positions]
    /\ unit \in [Threads -> Nat]
    /\ offset \in [Threads -> Nat]
    /\ data_begin \in [Threads -> Nat]
    /\ transfer \in Nat
    /\ last \in [Threads -> Nat]
    /\ early \in SUBSET Threads

(* A share whose bit has been cleared is under way or done: while main     *)
(* waits, a thread without a bit in waiting_threads has its bit in         *)
(* finished_threads, or is between clearing the one and setting the other  *)
(* (pthread_test_mmap.c:86-98,213-214).                                    *)
NoLostShare ==
    mpc \in {"broadcast", "test", "finish"} =>
        \A t \in Threads \ (waiting_threads \cup finished_threads) :
            pc[t] \in {"begin", "copy", "finished"}

(* No wakeup is lost: when all bits of finished_threads are set and main   *)
(* sleeps, some thread is about to look at them and signal, although it    *)
(* looks without the lock; and a thread that sleeps although there are     *)
(* shares to take has a broadcast coming                                   *)
(* (pthread_test_mmap.c:84-85,100-102,215-222).                            *)
NoLostWakeup ==
    /\ mpc = "finish" /\ finished_threads = Threads =>
           \E t \in Threads : pc[t] \in {"check", "signal"}
    /\ waiting_threads # {} /\ (\E t \in Threads : pc[t] = "ready") => mpc = "broadcast"

(* A thread falls behind main by one transfer at most: however the bits of *)
(* two transfers mix, when main goes on every thread has copied in this    *)
(* transfer or the one before (pthread_test_mmap.c:84-98,220-226).         *)
OneBehindAtMost ==
    mpc = "advance" => \A t \in Threads : last[t] >= transfer - 1

(* A thread that has its first share of a transfer under way, while main   *)
(* waits for it, copies inside the piece of that transfer and inside the   *)
(* file, although its unit and its offset may stem from smaller sizes; a   *)
(* thread that comes back early may copy behind the file                   *)
(* (pthread_test_mmap.c:74-75,81,89-94,203-227).                           *)
ShareInsidePiece ==
    mpc \in {"broadcast", "test", "finish"} =>
        \A t \in Threads \ finished_threads : pc[t] = "copy" /\ last[t] = transfer =>
            /\ data1 <= data_begin[t] /\ data_begin[t] + unit[t] <= data1 + size
            /\ data1 + size <= FILE_SIZE

(* mmx2_memcpy stores every share whole, wherever the sizes have left its  *)
(* destination, if the threads divide start_size into multiples of eight   *)
(* bytes (pthread_test_mmap.c:74-75,89-94, memcpy.h:40-87).                *)
SharesStoredWhole ==
    START_SIZE % (MMREG_SIZE * N) = 0 =>
        \A t \in Threads : pc[t] = "copy" =>
            CopiedBytes(data_begin[t], unit[t]) = 0 .. unit[t] - 1

(* A copy that kills the process is one of a thread that has begun anew    *)
(* while its bit was still set in finished_threads; a thread that takes    *)
(* each transfer once stays inside the mapping and inside buf, in the last *)
(* piece of the file and in the last size, too                             *)
(* (pthread_test_mmap.c:84-94,171-172,181,203-227).                        *)
KilledOnlyEarly == \A t \in Threads : pc[t] = "faulted" => t \in early

(* main gets through all its transfers, unless a copy of a thread that is  *)
(* early ends the process before: nobody waits for ever, and no copy that  *)
(* is on time kills (pthread_test_mmap.c:84-85,91-94,203-234).             *)
AllTransfersEnd == <>(mpc = "join" \/ \E t \in early : pc[t] = "faulted")

(* Every thread has copied its share of this transfer when main goes on    *)
(* (pthread_test_mmap.c:220-226,232).                                      *)
NobodySkipped == mpc = "advance" => \A t \in Threads : last[t] = transfer
============================================================================
