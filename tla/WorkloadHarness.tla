-------------------------- MODULE WorkloadHarness -------------------------
(***************************************************************************)
(* Util/NVTMWorkloadHarness.hpp: a program calls Init, perhaps             *)
(* SuspendTiming while it sets its data up, RunOps, and PrintResults.      *)
(* RunOps runs an operation on _threadCount threads, either for            *)
(* _runTimeSeconds, which a SIGALRM ends, or _operationCount times.        *)
(*                                                                         *)
(* Time is left out but for the order of events: an alarm that is set may  *)
(* go off at any moment.  The three Joins of a thread, of _startBarrier    *)
(* and twice of _runBarrier, are three rounds of PhaseBarrier, the promise *)
(* that HarnessBarrier implements.                                         *)
(***************************************************************************)
EXTENDS Integers, FiniteSetsExt

CONSTANTS
    TC,         \* _threadCount, and the count that RunOps is called with
    Word,       \* 2^32: an unsigned int counts modulo this
    Options,    \* what the command line may say
    MaxLoop     \* bound: operations of a thread before the time is up

ASSUME HarnessAssumption ==
    /\ {TC, Word} \subseteq Nat \ {0}
    /\ Options \subseteq [max : Nat, maxSet : BOOLEAN, rt : Nat]
    /\ \A o \in Options : o.max > 0 => o.maxSet /\ o.rt = 0     \* Init refuses both

Threads == 0 .. TC - 1

VARIABLES
    opt,        \* max is _operationCount, maxSet _opCountSet, rt _runTimeSeconds
    _finished, _timingIsSuspended, _operationsCompleted,
    _stopTime,  \* "unset" (0), or whether it is "before" or "after" _startTime
    timing,     \* where the one call of StartTiming in progress is, or "idle"
    handler,    \* the action for SIGALRM: "default" or "StopSignal"
    alarm,      \* whether an alarm is set
    killed,     \* SIGALRM has terminated the process
    mpc, pc,    \* where the main thread and the threads are
    executed,   \* operations each thread has executed: j, or threadOps
    entered, left,          \* the barriers, as in PhaseBarrier
    late,       \* history: operations of a thread begun after _finished,
    raced       \* and whether SIGALRM came between sigaction and alarm

harness == <<_finished, _timingIsSuspended, _operationsCompleted, _stopTime>>
signals == <<timing, handler, alarm, killed, raced>>
barriers == <<entered, left>>
threads == <<pc, executed, late, barriers>>
vars == <<opt, harness, signals, mpc, threads>>

Barrier == INSTANCE PhaseBarrier WITH early <- 0

Init ==
    /\ opt \in Options
    /\ _finished = FALSE
    /\ _timingIsSuspended = FALSE
    /\ _operationsCompleted = 0
    /\ _stopTime = "unset"
    /\ timing = "idle"
    /\ handler = "default"
    /\ alarm = FALSE
    /\ killed = FALSE
    /\ mpc = "Init"
    /\ pc = [t \in Threads |-> "unborn"]
    /\ executed = [t \in Threads |-> 0]
    /\ Barrier!PInit
    /\ late = [t \in Threads |-> 0]
    /\ raced = FALSE

-----------------------------------------------------------------------------
(* StartTiming, on whichever thread, and SIGALRM *)

SetStartTime ==
    /\ timing = "_startTime"
    /\ _stopTime' = IF _stopTime = "after" THEN "before" ELSE _stopTime
    /\ timing' = "sigaction"
    /\ UNCHANGED <<_finished, _timingIsSuspended, _operationsCompleted,
                   handler, alarm, killed, raced>>

(* Mutant: the handler is installed once and for all by Init. *)
InstallHandlerOnce ==
    /\ timing = "sigaction"
    /\ handler' = IF mpc = "setup" THEN "StopSignal" ELSE handler
    /\ timing' = "resume"
    /\ UNCHANGED <<harness, alarm, killed, raced>>

InstallHandler ==
    /\ timing = "sigaction"
    /\ handler' = "StopSignal"
    /\ timing' = "resume"
    /\ UNCHANGED <<harness, alarm, killed, raced>>

Resume ==
    /\ timing = "resume"
    /\ _timingIsSuspended' = FALSE
    /\ timing' = "alarm"
    /\ UNCHANGED <<_finished, _operationsCompleted, _stopTime, handler, alarm, killed, raced>>

(* alarm(0) cancels an alarm that is set. *)
SetAlarm ==
    /\ timing = "alarm"
    /\ alarm' = (opt.rt > 0)
    /\ timing' = "idle"
    /\ UNCHANGED <<harness, handler, killed, raced>>

StartTiming ==
    /\ SetStartTime \/ InstallHandler \/ Resume \/ SetAlarm
    /\ UNCHANGED <<opt, mpc, threads>>

(* SA_RESETHAND: the handler serves one signal, the next one kills. *)
StopSignal ==
    /\ alarm /\ handler = "StopSignal"
    /\ alarm' = FALSE
    /\ handler' = "default"
    /\ IF _timingIsSuspended THEN UNCHANGED <<_finished, _stopTime>>
       ELSE _finished' = TRUE /\ _stopTime' = "after"
    /\ raced' = (raced \/ timing \in {"resume", "alarm"})
    /\ UNCHANGED <<opt, _timingIsSuspended, _operationsCompleted, timing, killed, mpc, threads>>

DefaultAction ==
    /\ alarm /\ handler = "default"
    /\ alarm' = FALSE
    /\ killed' = TRUE
    /\ UNCHANGED <<opt, harness, timing, handler, raced, mpc, threads>>

-----------------------------------------------------------------------------
(* The main thread *)

CallInit ==
    /\ mpc = "Init"
    /\ timing' = "_startTime"
    /\ mpc' = "setup"
    /\ UNCHANGED <<opt, harness, handler, alarm, killed, raced, threads>>

(* The program may or may not want its set-up to be timed. *)
SetUp ==
    /\ mpc = "setup" /\ timing = "idle"
    /\ _timingIsSuspended' \in {_timingIsSuspended, TRUE}
    /\ mpc' = "RunOps"
    /\ UNCHANGED <<opt, _finished, _operationsCompleted, _stopTime, signals, threads>>

StartThread(t) ==
    /\ mpc = "RunOps"
    /\ pc[t] = "unborn" /\ \A u \in Threads : u < t => pc[u] # "unborn"
    /\ pc' = [pc EXCEPT ![t] = "born"]
    /\ mpc' = IF t = TC - 1 THEN "WaitForThreads" ELSE mpc
    /\ UNCHANGED <<opt, harness, signals, executed, late, barriers>>

WaitForThreads ==
    /\ mpc = "WaitForThreads"
    /\ \A t \in Threads : pc[t] = "returned"
    /\ mpc' = "PrintResults"
    /\ UNCHANGED <<opt, harness, signals, threads>>

PrintResults ==
    /\ mpc = "PrintResults"
    /\ _stopTime' = IF _stopTime = "unset" THEN "after" ELSE _stopTime
    /\ mpc' = "done"
    /\ UNCHANGED <<opt, _finished, _timingIsSuspended, _operationsCompleted, signals, threads>>

Main == CallInit \/ SetUp \/ (\E t \in Threads : StartThread(t)) \/ WaitForThreads \/ PrintResults

-----------------------------------------------------------------------------
(* GenericThread *)

_operationsPerThread == opt.max \div TC

(* The share is counted in 64 bits, and in 32 by the thread that gets it. *)
threadOps == _operationsPerThread % Word

(* Mutant: forgets that the time may be up. *)
isDoneByCount == opt.maxSet /\ _operationsCompleted % Word >= opt.max

isDone ==
    IF opt.max = 0 THEN opt.maxSet \/ _finished
    ELSE _operationsCompleted % Word >= opt.max

Goto(t, here, there) == pc[t] = here /\ pc' = [pc EXCEPT ![t] = there]

Comes(t, here, there) ==
    Goto(t, here, there) /\ Barrier!Enter(t)
        /\ UNCHANGED <<opt, harness, signals, mpc, executed, late>>

Passes(t, here, there) ==
    Goto(t, here, there) /\ Barrier!Leave(t)
        /\ UNCHANGED <<opt, harness, signals, mpc, executed, late>>

StartBarrier(t) ==
    \/ Comes(t, "born", "starting")
    \/ Passes(t, "starting", IF t = 0 THEN "StartTiming" ELSE "timed")

(* Thread 0 starts the time before it joins the others again. *)
CallStartTiming(t) ==
    /\ Goto(t, "StartTiming", "timing")
    /\ timing' = "_startTime"
    /\ UNCHANGED <<opt, harness, handler, alarm, killed, raced, mpc, executed, late, barriers>>

StartTimingReturns(t) ==
    /\ timing = "idle"
    /\ Goto(t, "timing", "timed")
    /\ UNCHANGED <<opt, harness, signals, mpc, executed, late, barriers>>

(* Mutant: the second barrier is missing. *)
RunAtOnce(t) ==
    /\ Goto(t, "timed", "test")
    /\ UNCHANGED <<opt, harness, signals, mpc, executed, late, barriers>>

RunBarrier(t) == Comes(t, "timed", "running") \/ Passes(t, "running", "test")

(* Mutant: do ... while. *)
ContinuesAtLeastOnce(t) ==
    \/ executed[t] = 0
    \/ IF threadOps = 0 THEN ~isDone ELSE executed[t] < threadOps

(* The test of the loop that counts to threadOps, or of that on isDone. *)
Continues(t) ==
    IF threadOps = 0 THEN ~isDone ELSE executed[t] < threadOps

LoopTest(t) ==
    /\ Continues(t) /\ threadOps = 0 => executed[t] < MaxLoop
    /\ Goto(t, "test", IF Continues(t) THEN "op" ELSE "counting")
    /\ UNCHANGED <<opt, harness, signals, mpc, executed, late, barriers>>

Operation(t) ==
    /\ Goto(t, "op", "test")
    /\ executed' = [executed EXCEPT ![t] = @ + 1]
    /\ late' = [late EXCEPT ![t] = IF _finished THEN @ + 1 ELSE @]
    /\ UNCHANGED <<opt, harness, signals, mpc, barriers>>

(* Mutant: the overload for int is taken. *)
atomic_exchange_and_add32(dv) == _operationsCompleted' = (_operationsCompleted + dv) % Word

(* lock xaddq: one step, in 64 bits, which no run of the program overflows. *)
atomic_exchange_and_add(dv) == _operationsCompleted' = _operationsCompleted + dv

(* The loop on isDone counts in threadOps itself, which may wrap. *)
CompletedOperations(t) ==
    /\ Goto(t, "counting", "ending")
    /\ atomic_exchange_and_add(IF threadOps = 0 THEN executed[t] % Word ELSE threadOps)
    /\ UNCHANGED <<opt, _finished, _timingIsSuspended, _stopTime, signals, mpc,
                   executed, late, barriers>>

EndBarrier(t) == Comes(t, "ending", "waiting") \/ Passes(t, "waiting", "returned")

GenericThread(t) ==
    \/ StartBarrier(t) \/ CallStartTiming(t) \/ StartTimingReturns(t) \/ RunBarrier(t)
    \/ LoopTest(t) \/ Operation(t) \/ CompletedOperations(t) \/ EndBarrier(t)

Next ==
    \/ /\ ~killed
       /\ \/ Main
          \/ StartTiming
          \/ StopSignal
          \/ DefaultAction
          \/ \E t \in Threads : GenericThread(t)
    \/ (killed \/ mpc = "done") /\ UNCHANGED vars

Spec == Init /\ [][Next]_vars

(* Threads are scheduled, and an alarm goes off when its time has come. *)
FairSpec ==
    /\ Spec
    /\ WF_vars(~killed /\ Main)
    /\ WF_vars(~killed /\ StartTiming)
    /\ WF_vars(~killed /\ (StopSignal \/ DefaultAction))
    /\ \A t \in Threads : WF_vars(~killed /\ GenericThread(t))

-----------------------------------------------------------------------------

TotalExecuted == FoldSet(LAMBDA t, sum : executed[t] + sum, 0, Threads)

(* Unless a thread has executed 2^32 operations or more, the results that  *)
(* are printed count exactly the operations the threads have executed,     *)
(* however many those are together; with -max they are never more than     *)
(* were asked for, and just the equal shares when a share fits in 32 bits  *)
(* (NVTMWorkloadHarness.hpp:168-170,187,295,305-316).                      *)
ResultsCountOperations ==
    mpc = "done" /\ (\A t \in Threads : executed[t] < Word) =>
        /\ _operationsCompleted = TotalExecuted
        /\ opt.maxSet => _operationsCompleted <= opt.max
        /\ _operationsPerThread \in 1 .. Word - 1 =>
               _operationsCompleted = TC * _operationsPerThread

(* No operation begins before thread 0 has started the time, and no thread *)
(* has returned while another still executes operations: the two joins of  *)
(* _runBarrier enclose the timed part (NVTMWorkloadHarness.hpp:299-317).   *)
OperationsAreTimed ==
    \A t \in Threads : pc[t] \in {"test", "op", "counting"} =>
        \A u \in Threads : pc[u] \notin {"unborn", "born", "starting", "StartTiming", "timing", "returned"}

(* A thread begins at most one operation when the time is already up: the  *)
(* one it decided on before (NVTMWorkloadHarness.hpp:248-249,306-309).     *)
StopsPromptly == \A t \in Threads : late[t] <= 1

(* SIGALRM terminates the process only when it came inside StartTiming,    *)
(* between sigaction and alarm, and used up the handler that was meant for *)
(* the new alarm (NVTMWorkloadHarness.hpp:210-218).                        *)
KilledOnlyByRace == killed => raced

(* A run time that is printed negative, because the alarm of Init went off *)
(* before thread 0 set _startTime again, comes with no operations: nothing *)
(* clears _finished (NVTMWorkloadHarness.hpp:186-187,195-210,248-249).     *)
NegativeTimeMeansNoOperations ==
    mpc = "done" /\ _stopTime = "before" => _operationsCompleted = 0

(* The program ends: it prints its results or is killed.                   *)
Ends == <>(mpc = "done" \/ killed)

(* "Check if the program should terminate: either 1) it has executed       *)
(* enough operationns": with -max the threads together stop at or about    *)
(* the operations asked for, give or take one that each has begun          *)
(* (NVTMWorkloadHarness.hpp:239-242).                                      *)
EnoughOperations == opt.maxSet => TotalExecuted <= opt.max + TC
============================================================================
