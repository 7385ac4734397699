----------------------- MODULE WorkloadHarnessProofs -----------------------
(***************************************************************************)
(* The harness for any number of threads, any command line that Init       *)
(* accepts, and words of any width.  The invariant ties the place of each  *)
(* thread to the barriers it has been through (PhaseInv) and to what it    *)
(* has executed (WorkInv); _operationsCompleted is the sum of what the     *)
(* threads have counted (CountInv).  TotalExecuted is a fold, that is, a   *)
(* recursive function on the subsets of Threads: its properties are proved *)
(* by induction on the size of the subset, as the absence of a least       *)
(* counterexample.                                                         *)
(***************************************************************************)
EXTENDS WorkloadHarness, FiniteSetTheorems, WellFoundedInduction, TLAPS

(* The sum of f[t] for all threads t. *)
Total(f) == FoldSet(LAMBDA t, sum : f[t] + sum, 0, Threads)

(* The threads that have counted their operations, and what they counted.  *)
Counted(t) == pc[t] \in {"ending", "waiting", "returned"}

Share(t) == IF threadOps = 0 THEN executed[t] % Word ELSE threadOps

Shares == [t \in Threads |-> IF Counted(t) THEN Share(t) ELSE 0]

TypeInv ==
    /\ opt \in Options
    /\ _finished \in BOOLEAN /\ _timingIsSuspended \in BOOLEAN
    /\ _operationsCompleted \in Nat
    /\ _stopTime \in {"unset", "before", "after"}
    /\ timing \in {"idle", "_startTime", "sigaction", "resume", "alarm"}
    /\ handler \in {"default", "StopSignal"}
    /\ alarm \in BOOLEAN /\ killed \in BOOLEAN /\ raced \in BOOLEAN
    /\ mpc \in {"Init", "setup", "RunOps", "WaitForThreads", "PrintResults", "done"}
    /\ pc \in [Threads -> {"unborn", "born", "starting", "StartTiming", "timing", "timed",
                           "running", "test", "op", "counting", "ending", "waiting",
                           "returned"}]
    /\ executed \in [Threads -> Nat] /\ late \in [Threads -> Nat]
    /\ entered \in [Threads -> Nat] /\ left \in [Threads -> Nat]

(* How often a thread has come to a barrier, and left it, is where it is;  *)
(* nobody is ahead of a barrier that another has not come to.              *)
EnteredAt(place) ==
    CASE place \in {"unborn", "born"} -> 0
      [] place \in {"starting", "StartTiming", "timing", "timed"} -> 1
      [] place \in {"running", "test", "op", "counting", "ending"} -> 2
      [] place \in {"waiting", "returned"} -> 3

LeftAt(place) ==
    CASE place \in {"unborn", "born", "starting"} -> 0
      [] place \in {"StartTiming", "timing", "timed", "running"} -> 1
      [] place \in {"test", "op", "counting", "ending", "waiting"} -> 2
      [] place = "returned" -> 3

PhaseInv ==
    /\ \A t \in Threads : entered[t] = EnteredAt(pc[t]) /\ left[t] = LeftAt(pc[t])
    /\ \A t, u \in Threads : left[t] <= entered[u]

(* Who is in StartTiming: main before it has made the threads, or thread 0 *)
(* between the barriers.                                                   *)
StageInv ==
    /\ mpc \in {"Init", "setup"} => \A t \in Threads : pc[t] = "unborn"
    /\ mpc \in {"PrintResults", "done"} => \A t \in Threads : pc[t] = "returned"
    /\ timing # "idle" => mpc = "setup" \/ pc[0] = "timing"
    /\ \A t \in Threads : pc[t] \in {"StartTiming", "timing"} => t = 0

(* An alarm that is set finds its handler, unless the handler was used up  *)
(* inside StartTiming.                                                     *)
SignalInv ==
    /\ alarm \/ timing \in {"resume", "alarm"} => handler = "StopSignal" \/ raced
    /\ killed => raced
    /\ opt.rt = 0 => ~alarm /\ ~_finished

(* What the threads have executed and counted at each place.               *)
WorkInv ==
    /\ \A t \in Threads :
           /\ LeftAt(pc[t]) < 2 => executed[t] = 0
           /\ threadOps # 0 =>
                  /\ executed[t] <= threadOps
                  /\ pc[t] = "op" => executed[t] < threadOps
                  /\ pc[t] = "counting" \/ Counted(t) => executed[t] = threadOps
           /\ threadOps = 0 /\ opt.max > 0 => pc[t] # "counting" /\ ~Counted(t)
           /\ opt.max = 0 /\ opt.maxSet => executed[t] = 0 /\ pc[t] # "op"
           /\ late[t] > 0 => late[t] = 1 /\ _finished /\ pc[t] # "op"
    /\ (\A t \in Threads : ~Counted(t)) => _operationsCompleted = 0

(* When _stopTime is set, and when it is set and _startTime set again.     *)
StopInv ==
    /\ _stopTime # "unset" /\ mpc # "done" => _finished
    /\ _stopTime = "before" =>
           /\ _finished
           /\ _operationsCompleted = 0
           /\ \A t \in Threads : executed[t] = 0 /\ pc[t] # "op"

CountInv == _operationsCompleted = Total(Shares)

IInv == TypeInv /\ PhaseInv /\ StageInv /\ SignalInv /\ WorkInv /\ StopInv /\ CountInv

-----------------------------------------------------------------------------
(* Sums *)

(* The ordering of the natural numbers, as a relation. *)
Less == {ss \in Nat \X Nat : ss[1] < ss[2]}

(* Every set of numbers that is not empty has a least one. *)
LEMMA LessWellFounded == IsWellFoundedOn(Less, Nat)
BY NatLessThanWellFounded DEF OpToRel, Less

(* Induction over the natural numbers, for a set. *)
LEMMA Induction ==
    ASSUME NEW T \in SUBSET Nat, 0 \in T, \A n \in T : n + 1 \in T
    PROVE  T = Nat
<1> SUFFICES ASSUME Nat \ T # {} PROVE FALSE
  OBVIOUS
<1>1. PICK n \in Nat \ T : \A m \in Nat \ T : <<m, n>> \notin Less
  BY LessWellFounded, WFMin
<1>2. n - 1 \in Nat /\ <<n - 1, n>> \in Less
  BY <1>1 DEF Less
<1>3. n - 1 \in T
  BY <1>1, <1>2
<1> QED
  BY <1>1, <1>3

(* The threads are the numbers from 0 to TC - 1. *)
LEMMA ThreadsFinite ==
    /\ IsFiniteSet(Threads) /\ Cardinality(Threads) = TC
    /\ 0 \in Threads /\ TC - 1 \in Threads
    /\ Threads \subseteq Nat
<1>1. TC \in Nat /\ TC > 0
  BY HarnessAssumption
<1>2. IsFiniteSet(Threads) /\ Cardinality(Threads) = TC
  BY <1>1, FS_Interval DEF Threads
<1> QED
  BY <1>1, <1>2 DEF Threads

(* The element that the fold takes from s first. *)
First(s) == CHOOSE x \in s : TRUE

(* The fold as a function of the subset that is summed over. *)
Sums(f) ==
    CHOOSE iter : iter = [s \in SUBSET Threads |->
        IF s = {} THEN 0 ELSE f[First(s)] + iter[s \ {First(s)}]]

(* What the fold over the threads takes first is a thread of the set. *)
LEMMA FirstLeaves ==
    ASSUME NEW s \in SUBSET Threads, s # {}
    PROVE  /\ First(s) \in s
           /\ s \ {First(s)} \in SUBSET Threads
           /\ Cardinality(s) \in Nat /\ Cardinality(s \ {First(s)}) = Cardinality(s) - 1
<1>1. First(s) \in s
  BY DEF First
<1>2. IsFiniteSet(s)
  BY ThreadsFinite, FS_Subset
<1> QED
  BY <1>1, <1>2, FS_RemoveElement, FS_CardinalityType

(* A set of threads has a size, which is 0 for no threads only. *)
LEMMA Empty == \A s \in SUBSET Threads : Cardinality(s) \in Nat /\ (Cardinality(s) = 0 <=> s = {})
BY ThreadsFinite, FS_Subset, FS_EmptySet, FS_CardinalityType

(* The fold is well defined. *)
LEMMA SumsDef ==
    ASSUME NEW f \in [Threads -> Nat]
    PROVE  /\ Sums(f) \in [SUBSET Threads -> Nat]
           /\ \A s \in SUBSET Threads :
                  Sums(f)[s] = IF s = {} THEN 0 ELSE f[First(s)] + Sums(f)[s \ {First(s)}]
<1> DEFINE Value(iter, s) == IF s = {} THEN 0 ELSE f[First(s)] + iter[s \ {First(s)}]
           Good(n, iter) ==
               /\ iter \in [SUBSET Threads -> Nat]
               /\ \A s \in SUBSET Threads : Cardinality(s) <= n => iter[s] = Value(iter, s)
           T == {n \in Nat : \E iter : Good(n, iter)}
<1>1. 0 \in T
  <2>1. Good(0, [s \in SUBSET Threads |-> 0])
    BY Empty
  <2> QED
    BY <2>1
<1>2. ASSUME NEW n \in T PROVE n + 1 \in T
  <2>1. PICK g : Good(n, g)
    OBVIOUS
  <2> DEFINE h == [s \in SUBSET Threads |->
                     IF Cardinality(s) = n + 1 THEN Value(g, s) ELSE g[s]]
  <2>2. ASSUME NEW s \in SUBSET Threads PROVE Value(g, s) \in Nat
    <3>1. CASE s # {}
      <4>1. f[First(s)] \in Nat
        BY <3>1, FirstLeaves
      <4>2. g[s \ {First(s)}] \in Nat
        BY <2>1, <3>1, FirstLeaves
      <4> QED
        BY <3>1, <4>1, <4>2
    <3> QED
      BY <3>1
  <2>3. h \in [SUBSET Threads -> Nat]
    BY <2>1, <2>2
  <2>4. ASSUME NEW s \in SUBSET Threads, Cardinality(s) <= n + 1
        PROVE  h[s] = Value(g, s) /\ Value(h, s) = Value(g, s)
    <3>1. h[s] = Value(g, s)
      BY <2>1, <2>4, Empty
    <3>2. s # {} => h[s \ {First(s)}] = g[s \ {First(s)}]
      BY <2>4, FirstLeaves
    <3> QED
      BY <3>1, <3>2
  <2>5. Good(n + 1, h)
    <3> HIDE DEF h, Value
    <3> QED
      BY <2>3, <2>4
  <2> HIDE DEF Good, h
  <2> QED
    BY <2>5
<1>3. T = Nat
  <2>1. T \in SUBSET Nat
    OBVIOUS
  <2> HIDE DEF T
  <2> QED
    BY <1>1, <1>2, <2>1, Induction
<1>4. PICK g : Good(TC, g)
  BY <1>3, HarnessAssumption
<1>5. \A s \in SUBSET Threads : Cardinality(s) <= TC
  BY ThreadsFinite, FS_Subset
<1>6. g = [s \in SUBSET Threads |-> Value(g, s)]
  BY <1>4, <1>5
<1>7. Sums(f) = [s \in SUBSET Threads |-> Value(Sums(f), s)]
  BY <1>6 DEF Sums
<1> DEFINE U == {n \in Nat : \A s \in SUBSET Threads :
                     Cardinality(s) <= n => Sums(f)[s] \in Nat}
<1>8. U = Nat
  <2>1. 0 \in U
    BY <1>7, Empty
  <2>2. ASSUME NEW n \in U PROVE n + 1 \in U
    <3>1. ASSUME NEW s \in SUBSET Threads, Cardinality(s) <= n + 1, s # {}
          PROVE  Sums(f)[s] \in Nat
      <4>1. Sums(f)[s \ {First(s)}] \in Nat
        BY <3>1, FirstLeaves
      <4>2. f[First(s)] \in Nat
        BY <3>1, FirstLeaves
      <4>3. Sums(f)[s] = f[First(s)] + Sums(f)[s \ {First(s)}]
        BY <1>7, <3>1
      <4> QED
        BY <4>1, <4>2, <4>3
    <3>2. Sums(f)[{}] \in Nat
      BY <1>7
    <3>3. \A s \in SUBSET Threads : Cardinality(s) <= n + 1 => Sums(f)[s] \in Nat
      BY <3>1, <3>2
    <3> QED
      BY <3>3
  <2>3. U \in SUBSET Nat
    OBVIOUS
  <2> HIDE DEF U
  <2> QED
    BY <2>1, <2>2, <2>3, Induction
<1>9. Sums(f) \in [SUBSET Threads -> Nat]
  <2>1. TC \in U
    BY <1>8, HarnessAssumption
  <2>2. \A s \in SUBSET Threads : Sums(f)[s] \in Nat
    BY <1>5, <2>1
  <2>3. DOMAIN Sums(f) = SUBSET Threads
    BY <1>7
  <2> HIDE DEF U
  <2> QED
    BY <1>7, <2>2, <2>3
<1> QED
  BY <1>7, <1>9

(* Total is the fold's function at the set of all threads. *)
LEMMA TotalIsSums == ASSUME NEW f PROVE Total(f) = Sums(f)[Threads]
BY DEF Total, FoldSet, MapThenFoldSet, Sums, First

(* Adding d to one of the numbers adds d to their sum. *)
LEMMA TotalAdd ==
    ASSUME NEW f \in [Threads -> Nat], NEW t \in Threads, NEW d \in Nat
    PROVE  Total([f EXCEPT ![t] = @ + d]) = Total(f) + d
<1> DEFINE g == [f EXCEPT ![t] = @ + d]
           Extra(s) == IF t \in s THEN d ELSE 0
           U == {n \in Nat : \A s \in SUBSET Threads :
                     Cardinality(s) <= n => Sums(g)[s] = Sums(f)[s] + Extra(s)}
<1>1. g \in [Threads -> Nat]
  OBVIOUS
<1>0. Sums(g)[{}] = Sums(f)[{}] + Extra({})
  <2>1. Sums(g)[{}] = 0 /\ Sums(f)[{}] = 0
    <3> HIDE DEF g
    <3> QED
      BY <1>1, SumsDef
  <2> QED
    BY <2>1
<1>2. 0 \in U
  <2> HIDE DEF g, Extra
  <2> QED
    BY <1>0, Empty
<1>3. ASSUME NEW n \in U PROVE n + 1 \in U
  <2>1. ASSUME NEW s \in SUBSET Threads, Cardinality(s) <= n + 1, s # {}
        PROVE  Sums(g)[s] = Sums(f)[s] + Extra(s)
    <3> DEFINE r == s \ {First(s)}
    <3>1. r \in SUBSET Threads /\ Cardinality(r) <= n /\ First(s) \in Threads
      BY <2>1, FirstLeaves
    <3>2. Sums(g)[r] = Sums(f)[r] + Extra(r)
      BY <3>1
    <3>3. Sums(f)[s] = f[First(s)] + Sums(f)[r] /\ Sums(f)[r] \in Nat
      BY <2>1, <3>1, SumsDef
    <3>4. Sums(g)[s] = g[First(s)] + Sums(g)[r]
      BY <1>1, <2>1, SumsDef
    <3>5. f[First(s)] \in Nat
      BY <3>1
    <3>6. CASE First(s) = t
      <4>1. g[First(s)] = f[First(s)] + d /\ Extra(r) = 0 /\ Extra(s) = d
        BY <2>1, <3>1, <3>6, FirstLeaves
      <4> HIDE DEF g, r, Extra
      <4> QED
        BY <3>2, <3>3, <3>4, <3>5, <4>1
    <3>7. CASE First(s) # t
      <4>1. g[First(s)] = f[First(s)] /\ Extra(r) = Extra(s) /\ Extra(s) \in Nat
        BY <2>1, <3>1, <3>7, FirstLeaves
      <4> HIDE DEF g, r, Extra
      <4> QED
        BY <3>2, <3>3, <3>4, <3>5, <4>1
    <3> QED
      BY <3>6, <3>7
  <2>2. \A s \in SUBSET Threads : Cardinality(s) <= n + 1 => Sums(g)[s] = Sums(f)[s] + Extra(s)
    BY <2>1, <1>0
  <2> HIDE DEF g, Extra
  <2> QED
    BY <2>2
<1>4. TC \in U
  <2>1. U \in SUBSET Nat
    OBVIOUS
  <2> HIDE DEF U
  <2> QED
    BY <1>2, <1>3, <2>1, Induction, HarnessAssumption
<1>5. Sums(g)[Threads] = Sums(f)[Threads] + d
  <2>1. Extra(Threads) = d
    OBVIOUS
  <2> HIDE DEF g, Extra
  <2> QED
    BY <1>4, <2>1, ThreadsFinite, HarnessAssumption
<1> QED
  BY <1>5, TotalIsSums

(* TC equal numbers have a sum of TC times as much. *)
LEMMA TotalConst ==
    ASSUME NEW c \in Nat
    PROVE  Total([t \in Threads |-> c]) = TC * c
<1> DEFINE f == [t \in Threads |-> c]
           U == {n \in Nat : \A s \in SUBSET Threads :
                     Cardinality(s) <= n => Sums(f)[s] = Cardinality(s) * c}
<1>1. f \in [Threads -> Nat]
  OBVIOUS
<1>0. Sums(f)[{}] = Cardinality({}) * c
  <2>1. Sums(f)[{}] = 0
    <3> HIDE DEF f
    <3> QED
      BY <1>1, SumsDef
  <2>2. Cardinality({}) * c = 0
    BY FS_EmptySet
  <2> QED
    BY <2>1, <2>2
<1>2. 0 \in U
  <2> HIDE DEF f
  <2> QED
    BY <1>0, Empty
<1>3. ASSUME NEW n \in U PROVE n + 1 \in U
  <2>1. ASSUME NEW s \in SUBSET Threads, Cardinality(s) <= n + 1, s # {}
        PROVE  Sums(f)[s] = Cardinality(s) * c
    <3> DEFINE r == s \ {First(s)}
    <3>1. /\ r \in SUBSET Threads /\ Cardinality(r) <= n /\ First(s) \in Threads
          /\ Cardinality(s) \in Nat /\ Cardinality(r) = Cardinality(s) - 1
      <4>1. r \in SUBSET Threads /\ First(s) \in s
        BY <2>1, FirstLeaves
      <4>2. Cardinality(s) \in Nat /\ Cardinality(r) = Cardinality(s) - 1
        BY <2>1, FirstLeaves
      <4> QED
        BY <2>1, <4>1, <4>2
    <3>2. Sums(f)[r] = (Cardinality(s) - 1) * c
      BY <3>1
    <3>3. Sums(f)[s] = f[First(s)] + Sums(f)[r]
      BY <1>1, <2>1, SumsDef
    <3>4. f[First(s)] = c
      BY <3>1
    <3> HIDE DEF f, r
    <3>5. (Cardinality(s) - 1) * c = Cardinality(s) * c - c
      BY <3>1
    <3> QED
      BY <3>1, <3>2, <3>3, <3>4, <3>5
  <2>2. \A s \in SUBSET Threads : Cardinality(s) <= n + 1 => Sums(f)[s] = Cardinality(s) * c
    BY <2>1, <1>0
  <2> HIDE DEF f
  <2> QED
    BY <2>2
<1>4. TC \in U
  <2>1. U \in SUBSET Nat
    OBVIOUS
  <2> HIDE DEF U
  <2> QED
    BY <1>2, <1>3, <2>1, Induction, HarnessAssumption
<1>5. Sums(f)[Threads] = TC * c
  <2> HIDE DEF f
  <2> QED
    BY <1>4, ThreadsFinite, HarnessAssumption
<1> QED
  BY <1>5, TotalIsSums

-----------------------------------------------------------------------------
(* The invariant *)

(* What the counters are compared with are numbers. *)
LEMMA Numbers ==
    ASSUME TypeInv
    PROVE  /\ TC \in Nat /\ TC > 0 /\ Word \in Nat /\ Word > 0
           /\ opt.max \in Nat /\ opt.maxSet \in BOOLEAN /\ opt.rt \in Nat
           /\ opt.max > 0 => opt.maxSet /\ opt.rt = 0
           /\ _operationsPerThread \in Nat /\ threadOps \in Nat
           /\ opt.max = 0 => threadOps = 0
           /\ \A n \in Nat : n % Word \in Nat
           /\ 0 % Word = 0
<1>1. /\ TC \in Nat /\ TC > 0 /\ Word \in Nat /\ Word > 0
      /\ opt \in [max : Nat, maxSet : BOOLEAN, rt : Nat]
      /\ opt.max > 0 => opt.maxSet /\ opt.rt = 0
  BY HarnessAssumption DEF TypeInv
<1>2. opt.max \in Nat /\ opt.maxSet \in BOOLEAN /\ opt.rt \in Nat
  BY <1>1
<1>3. _operationsPerThread \in Nat /\ (opt.max = 0 => _operationsPerThread = 0)
  BY <1>1, <1>2 DEF _operationsPerThread
<1>4. \A n \in Nat : n % Word \in Nat
  BY <1>1
<1>5. 0 % Word = 0
  BY <1>1
<1> QED
  BY <1>1, <1>2, <1>3, <1>4, <1>5 DEF threadOps

(* The command line does not change. *)
LEMMA SameOpt == [Next]_vars => opt' = opt /\ threadOps' = threadOps
<1>1. [Next]_vars => opt' = opt
  BY DEF Next, vars, Main, CallInit, SetUp, StartThread, WaitForThreads, PrintResults,
         StartTiming, StopSignal, DefaultAction, GenericThread, StartBarrier, RunBarrier,
         EndBarrier, Comes, Passes, CallStartTiming, StartTimingReturns, LoopTest,
         Operation, CompletedOperations
<1> QED
  BY <1>1 DEF threadOps, _operationsPerThread

(* The invariant holds initially. *)
LEMMA InitInv == Init => IInv
<1> SUFFICES ASSUME Init PROVE IInv
  OBVIOUS
<1>1. TypeInv
  BY DEF Init, TypeInv, Barrier!PInit
<1>2. PhaseInv /\ StageInv /\ SignalInv /\ WorkInv /\ StopInv
  BY <1>1, Numbers DEF Init, PhaseInv, EnteredAt, LeftAt, StageInv, SignalInv, WorkInv,
         StopInv, Counted, Barrier!PInit
<1>3. CountInv
  <2>1. Shares = [t \in Threads |-> 0]
    BY DEF Init, Shares, Counted
  <2>2. Total(Shares) = TC * 0
    BY <2>1, TotalConst
  <2> QED
    BY <2>2, HarnessAssumption DEF Init, CountInv
<1> QED
  BY <1>1, <1>2, <1>3 DEF IInv

(* Every step keeps the types. *)
LEMMA TypeStep == ASSUME TypeInv, [Next]_vars PROVE TypeInv'
<1> USE DEF TypeInv
<1>1. CASE Main
  <2>1. CASE CallInit
    BY <2>1 DEF CallInit, harness, threads, barriers
  <2>2. CASE SetUp
    BY <2>2 DEF SetUp, signals, threads, barriers
  <2>3. ASSUME NEW t \in Threads, StartThread(t) PROVE TypeInv'
    BY <2>3 DEF StartThread, harness, signals, barriers
  <2>4. CASE WaitForThreads \/ PrintResults
    BY <2>4 DEF WaitForThreads, PrintResults, harness, signals, threads, barriers
  <2> QED
    BY <1>1, <2>1, <2>2, <2>3, <2>4 DEF Main
<1>2. CASE StartTiming
  <2>1. CASE SetStartTime
    BY <1>2, <2>1 DEF StartTiming, SetStartTime, threads, barriers
  <2>2. CASE InstallHandler \/ Resume
    <3>1. UNCHANGED <<opt, mpc, pc, executed, late, entered, left>>
      BY <1>2 DEF StartTiming, threads, barriers
    <3>2. CASE InstallHandler
      BY <3>1, <3>2 DEF InstallHandler, harness
    <3>3. CASE Resume
      BY <3>1, <3>3 DEF Resume
    <3> QED
      BY <2>2, <3>2, <3>3
  <2>3. CASE SetAlarm
    <3>1. alarm' \in BOOLEAN
      BY <2>3 DEF SetAlarm
    <3> QED
      BY <1>2, <2>3, <3>1 DEF StartTiming, SetAlarm, harness, threads, barriers
  <2> QED
    BY <1>2, <2>1, <2>2, <2>3 DEF StartTiming
<1>3. CASE StopSignal \/ DefaultAction
  <2>1. CASE StopSignal
    <3>1. raced' \in BOOLEAN
      BY <2>1 DEF StopSignal
    <3>2. _finished' \in BOOLEAN /\ _stopTime' \in {"unset", "before", "after"}
      BY <2>1 DEF StopSignal
    <3> QED
      BY <2>1, <3>1, <3>2 DEF StopSignal, threads, barriers
  <2>2. CASE DefaultAction
    BY <2>2 DEF DefaultAction, harness, threads, barriers
  <2> QED
    BY <1>3, <2>1, <2>2
<1>4. ASSUME NEW t \in Threads, GenericThread(t) PROVE TypeInv'
  <2> USE DEF Goto, harness, signals, barriers
  <2>1. CASE StartBarrier(t) \/ RunBarrier(t) \/ EndBarrier(t)
    BY <2>1 DEF StartBarrier, RunBarrier, EndBarrier, Comes, Passes,
                Barrier!Enter, Barrier!Leave
  <2>2. CASE CallStartTiming(t) \/ StartTimingReturns(t)
    BY <2>2 DEF CallStartTiming, StartTimingReturns
  <2>3. CASE LoopTest(t)
    BY <2>3 DEF LoopTest
  <2>4. CASE Operation(t)
    BY <2>4 DEF Operation
  <2>5. CASE CompletedOperations(t)
    <3> DEFINE dv == IF threadOps = 0 THEN executed[t] % Word ELSE threadOps
    <3>1. dv \in Nat
      BY Numbers
    <3>2. _operationsCompleted' = _operationsCompleted + dv
      BY <2>5 DEF CompletedOperations, atomic_exchange_and_add
    <3> HIDE DEF dv
    <3> QED
      BY <2>5, <3>1, <3>2 DEF CompletedOperations
  <2> QED
    BY <1>4, <2>1, <2>2, <2>3, <2>4, <2>5 DEF GenericThread
<1>5. CASE UNCHANGED vars
  BY <1>5 DEF vars, harness, signals, threads, barriers
<1> QED
  BY <1>1, <1>2, <1>3, <1>4, <1>5 DEF Next

(* How the numbers change at the barriers. *)
LEMMA Places ==
    /\ EnteredAt("unborn") = 0 /\ EnteredAt("born") = 0
    /\ \A p \in {"starting", "StartTiming", "timing", "timed"} : EnteredAt(p) = 1
    /\ \A p \in {"running", "test", "op", "counting", "ending"} : EnteredAt(p) = 2
    /\ EnteredAt("waiting") = 3 /\ EnteredAt("returned") = 3
    /\ \A p \in {"unborn", "born", "starting"} : LeftAt(p) = 0
    /\ \A p \in {"StartTiming", "timing", "timed", "running"} : LeftAt(p) = 1
    /\ \A p \in {"test", "op", "counting", "ending", "waiting"} : LeftAt(p) = 2
    /\ LeftAt("returned") = 3
BY DEF EnteredAt, LeftAt

(* Every step keeps the threads in phase. *)
LEMMA PhaseStep == ASSUME TypeInv, PhaseInv, [Next]_vars PROVE PhaseInv'
<1> USE DEF TypeInv, PhaseInv
<1>1. ASSUME NEW t \in Threads, NEW here, NEW there, Goto(t, here, there), UNCHANGED barriers,
             EnteredAt(there) = EnteredAt(here), LeftAt(there) = LeftAt(here)
      PROVE  PhaseInv'
  BY <1>1 DEF Goto, barriers
<1>2. ASSUME NEW t \in Threads, NEW here, NEW there, Comes(t, here, there),
             EnteredAt(there) = EnteredAt(here) + 1, LeftAt(there) = LeftAt(here)
      PROVE  PhaseInv'
  <2>1. /\ pc' = [pc EXCEPT ![t] = there] /\ left' = left /\ pc[t] = here
        /\ entered' = [entered EXCEPT ![t] = @ + 1]
    BY <1>2 DEF Comes, Goto, Barrier!Enter
  <2>2. \A u \in Threads : entered'[u] = EnteredAt(pc'[u]) /\ left'[u] = LeftAt(pc'[u])
    BY <1>2, <2>1
  <2>3. \A u \in Threads : entered'[u] >= entered[u]
    BY <2>1
  <2> QED
    BY <2>1, <2>2, <2>3
<1>3. ASSUME NEW t \in Threads, NEW here, NEW there, Passes(t, here, there),
             EnteredAt(there) = EnteredAt(here), LeftAt(there) = LeftAt(here) + 1
      PROVE  PhaseInv'
  <2>1. /\ pc' = [pc EXCEPT ![t] = there] /\ entered' = entered /\ pc[t] = here
        /\ left' = [left EXCEPT ![t] = @ + 1]
        /\ left[t] < entered[t] /\ \A u \in Threads : entered[t] <= entered[u]
    BY <1>3 DEF Passes, Goto, Barrier!Leave
  <2>2. \A u \in Threads : entered'[u] = EnteredAt(pc'[u]) /\ left'[u] = LeftAt(pc'[u])
    BY <1>3, <2>1
  <2> QED
    BY <2>1, <2>2
<1>0. ASSUME NEW t \in Threads, StartThread(t) PROVE PhaseInv'
  <2>1. Goto(t, "unborn", "born") /\ UNCHANGED barriers
    BY <1>0 DEF StartThread, Goto
  <2> QED
    BY <1>1, <2>1, Places
<1>4. ASSUME NEW t \in Threads, GenericThread(t) PROVE PhaseInv'
  <2>1. CASE StartBarrier(t)
    <3>1. CASE Comes(t, "born", "starting")
      BY <3>1, <1>2, Places
    <3>2. CASE Passes(t, "starting", "StartTiming") \/ Passes(t, "starting", "timed")
      BY <3>2, <1>3, Places
    <3> QED
      BY <2>1, <3>1, <3>2 DEF StartBarrier
  <2>2. CASE RunBarrier(t)
    BY <2>2, <1>2, <1>3, Places DEF RunBarrier
  <2>3. CASE EndBarrier(t)
    BY <2>3, <1>2, <1>3, Places DEF EndBarrier
  <2>4. CASE CallStartTiming(t) \/ StartTimingReturns(t)
    BY <2>4, <1>1, Places DEF CallStartTiming, StartTimingReturns
  <2>5. CASE LoopTest(t) \/ Operation(t) \/ CompletedOperations(t)
    BY <2>5, <1>1, Places DEF LoopTest, Operation, CompletedOperations
  <2> QED
    BY <1>4, <2>1, <2>2, <2>3, <2>4, <2>5 DEF GenericThread
<1>5. CASE CallInit \/ SetUp \/ WaitForThreads \/ PrintResults
           \/ StartTiming \/ StopSignal \/ DefaultAction \/ UNCHANGED vars
  BY <1>5 DEF CallInit, SetUp, WaitForThreads, PrintResults, StartTiming, StopSignal,
              DefaultAction, vars, threads, barriers
<1> QED
  BY <1>0, <1>4, <1>5 DEF Next, Main

(* Every step keeps StartTiming to main or to thread 0. *)
LEMMA StageStep == ASSUME TypeInv, StageInv, [Next]_vars PROVE StageInv'
<1> USE ThreadsFinite DEF TypeInv, StageInv
<1>1. CASE CallInit \/ SetUp \/ WaitForThreads \/ PrintResults
  BY <1>1 DEF CallInit, SetUp, WaitForThreads, PrintResults, signals, threads
<1>2. ASSUME NEW t \in Threads, StartThread(t) PROVE StageInv'
  BY <1>2 DEF StartThread, signals
<1>3. CASE StartTiming
  BY <1>3 DEF StartTiming, SetStartTime, InstallHandler, Resume, SetAlarm, threads
<1>4. CASE StopSignal \/ DefaultAction \/ UNCHANGED vars
  BY <1>4 DEF StopSignal, DefaultAction, vars, signals, threads
<1>5. ASSUME NEW t \in Threads, GenericThread(t) PROVE StageInv'
  <2> USE DEF Goto, signals
  <2>1. CASE StartBarrier(t) \/ RunBarrier(t) \/ EndBarrier(t)
    BY <2>1 DEF StartBarrier, RunBarrier, EndBarrier, Comes, Passes
  <2>2. CASE CallStartTiming(t) \/ StartTimingReturns(t)
    BY <2>2 DEF CallStartTiming, StartTimingReturns
  <2>3. CASE LoopTest(t) \/ Operation(t) \/ CompletedOperations(t)
    BY <2>3 DEF LoopTest, Operation, CompletedOperations
  <2> QED
    BY <1>5, <2>1, <2>2, <2>3 DEF GenericThread
<1> QED
  BY <1>1, <1>2, <1>3, <1>4, <1>5 DEF Next, Main

(* Every step keeps an alarm with its handler, or StartTiming raced. *)
LEMMA SignalStep == ASSUME TypeInv, SignalInv, [Next]_vars PROVE SignalInv'
<1> USE SameOpt, Numbers DEF TypeInv, SignalInv
<1>1. CASE Main
  <2>1. /\ UNCHANGED <<handler, alarm, killed, raced, _finished>>
        /\ timing' \in {timing, "_startTime"}
    BY <1>1 DEF Main, CallInit, SetUp, StartThread, WaitForThreads, PrintResults,
                harness, signals
  <2> QED
    BY <2>1
<1>2. CASE StartTiming
  BY <1>2 DEF StartTiming, SetStartTime, InstallHandler, Resume, SetAlarm, harness
<1>3. CASE StopSignal \/ DefaultAction \/ UNCHANGED vars
  BY <1>3 DEF StopSignal, DefaultAction, vars, harness, signals
<1>4. ASSUME NEW t \in Threads, GenericThread(t) PROVE SignalInv'
  BY <1>4 DEF GenericThread, StartBarrier, RunBarrier, EndBarrier, Comes, Passes,
              CallStartTiming, StartTimingReturns, LoopTest, Operation,
              CompletedOperations, harness, signals
<1> QED
  BY <1>1, <1>2, <1>3, <1>4 DEF Next

(* Every step keeps what the threads have executed. *)
LEMMA WorkStep ==
    ASSUME TypeInv, PhaseInv, SignalInv, WorkInv, [Next]_vars
    PROVE  WorkInv'
<1> DEFINE Work(t) ==
           /\ LeftAt(pc[t]) < 2 => executed[t] = 0
           /\ threadOps # 0 =>
                  /\ executed[t] <= threadOps
                  /\ pc[t] = "op" => executed[t] < threadOps
                  /\ pc[t] = "counting" \/ Counted(t) => executed[t] = threadOps
           /\ threadOps = 0 /\ opt.max > 0 => pc[t] # "counting" /\ ~Counted(t)
           /\ opt.max = 0 /\ opt.maxSet => executed[t] = 0 /\ pc[t] # "op"
           /\ late[t] > 0 => late[t] = 1 /\ _finished /\ pc[t] # "op"
           NoneCounted == (\A t \in Threads : ~Counted(t)) => _operationsCompleted = 0
<1> USE SameOpt, Numbers DEF TypeInv, Counted
<1>0. \A t \in Threads : Work(t)
  BY DEF WorkInv
<1>1. SUFFICES (\A t \in Threads : Work(t)') /\ NoneCounted'
  BY DEF WorkInv
<1>2. ASSUME UNCHANGED <<executed, late>>, _finished => _finished', UNCHANGED pc
      PROVE  \A t \in Threads : Work(t)'
  BY <1>0, <1>2
<1>3. CASE CallInit \/ SetUp \/ WaitForThreads \/ PrintResults \/ StartTiming
           \/ StopSignal \/ DefaultAction \/ UNCHANGED vars
  <2>1. UNCHANGED <<executed, late, pc, _operationsCompleted>> /\ (_finished => _finished')
    BY <1>3 DEF CallInit, SetUp, WaitForThreads, PrintResults, StartTiming, SetStartTime,
                InstallHandler, Resume, SetAlarm, StopSignal, DefaultAction, vars, harness,
                threads
  <2> QED
    BY <1>2, <2>1 DEF WorkInv
<1>4. ASSUME NEW t \in Threads, NEW here, NEW there, Goto(t, here, there),
             UNCHANGED <<executed, late, _finished, _operationsCompleted>>,
             here \notin {"op", "counting"}, there \notin {"op", "counting"},
             LeftAt(there) < 2 => LeftAt(here) < 2,
             there \in {"ending", "waiting", "returned"} <=>
                 here \in {"ending", "waiting", "returned"}
      PROVE  (\A u \in Threads : Work(u)') /\ NoneCounted'
  <2>1. \A u \in Threads : Work(u)'
    BY <1>0, <1>4 DEF Goto
  <2>2. \A u \in Threads : Counted(u) => Counted(u)'
    BY <1>4 DEF Goto
  <2> QED
    BY <1>4, <2>1, <2>2 DEF WorkInv
<1>5. ASSUME NEW t \in Threads, StartThread(t)
      PROVE  (\A u \in Threads : Work(u)') /\ NoneCounted'
  <2>1. /\ Goto(t, "unborn", "born")
        /\ UNCHANGED <<executed, late, _finished, _operationsCompleted>>
    BY <1>5 DEF StartThread, Goto, harness
  <2> QED
    BY <1>4, <2>1, Places
<1>6. ASSUME NEW t \in Threads, StartBarrier(t) \/ RunBarrier(t) \/ EndBarrier(t)
      PROVE  (\A u \in Threads : Work(u)') /\ NoneCounted'
  <2>1. ASSUME NEW here, NEW there, Comes(t, here, there) \/ Passes(t, here, there)
        PROVE  Goto(t, here, there) /\ UNCHANGED <<executed, late, _finished, _operationsCompleted>>
    BY <2>1 DEF Comes, Passes, harness
  <2>2. CASE StartBarrier(t)
    BY <2>1, <2>2, <1>4, Places DEF StartBarrier
  <2>3. CASE RunBarrier(t)
    BY <2>1, <2>3, <1>4, Places DEF RunBarrier
  <2>4. CASE EndBarrier(t)
    BY <2>1, <2>4, <1>4, Places DEF EndBarrier
  <2> QED
    BY <1>6, <2>2, <2>3, <2>4
<1>7. ASSUME NEW t \in Threads, CallStartTiming(t) \/ StartTimingReturns(t)
      PROVE  (\A u \in Threads : Work(u)') /\ NoneCounted'
  BY <1>7, <1>4, Places DEF CallStartTiming, StartTimingReturns, harness
<1>8. ASSUME NEW t \in Threads, LoopTest(t)
      PROVE  (\A u \in Threads : Work(u)') /\ NoneCounted'
  <2>1. UNCHANGED <<executed, late, _finished, _operationsCompleted>> /\ pc[t] = "test"
        /\ pc' = [pc EXCEPT ![t] = IF Continues(t) THEN "op" ELSE "counting"]
    BY <1>8 DEF LoopTest, Goto, harness
  <2>2. late[t] > 0 => ~Continues(t)
    BY <1>0 DEF SignalInv, Continues, isDone
  <2>3. opt.max = 0 /\ opt.maxSet => ~Continues(t)
    BY DEF Continues, isDone
  <2>4. threadOps = 0 /\ opt.max > 0 => Continues(t)
    <3>1. threadOps = 0 /\ opt.max > 0 => _operationsCompleted = 0
      BY <1>0 DEF WorkInv
    <3> QED
      BY <3>1 DEF Continues, isDone
  <2>5. threadOps # 0 => (Continues(t) <=> executed[t] < threadOps)
    BY DEF Continues
  <2>6. ASSUME NEW u \in Threads PROVE Work(u)'
    BY <1>0, <2>1, <2>2, <2>3, <2>4, <2>5, Places
  <2>7. NoneCounted'
    BY <2>1 DEF WorkInv
  <2> QED
    BY <2>6, <2>7
<1>9. ASSUME NEW t \in Threads, Operation(t)
      PROVE  (\A u \in Threads : Work(u)') /\ NoneCounted'
  <2>1. UNCHANGED <<_finished, _operationsCompleted>> /\ pc[t] = "op"
        /\ pc' = [pc EXCEPT ![t] = "test"]
        /\ executed' = [executed EXCEPT ![t] = @ + 1]
        /\ late' = [late EXCEPT ![t] = IF _finished THEN @ + 1 ELSE @]
    BY <1>9 DEF Operation, Goto, harness
  <2>2. ASSUME NEW u \in Threads PROVE Work(u)'
    BY <1>0, <2>1, Places
  <2>3. NoneCounted'
    BY <2>1 DEF WorkInv
  <2> QED
    BY <2>2, <2>3
<1>10. ASSUME NEW t \in Threads, CompletedOperations(t)
       PROVE  (\A u \in Threads : Work(u)') /\ NoneCounted'
  <2>1. UNCHANGED <<executed, late, _finished>> /\ pc[t] = "counting"
        /\ pc' = [pc EXCEPT ![t] = "ending"]
    BY <1>10 DEF CompletedOperations, Goto
  <2>2. ASSUME NEW u \in Threads PROVE Work(u)'
    BY <1>0, <2>1, Places
  <2>3. Counted(t)'
    BY <2>1
  <2> QED
    BY <2>2, <2>3
<1> QED
  BY <1>3, <1>5, <1>6, <1>7, <1>8, <1>9, <1>10 DEF Next, Main, GenericThread

(* Every step keeps what is known of _stopTime. *)
LEMMA StopStep ==
    ASSUME TypeInv, PhaseInv, StageInv, SignalInv, WorkInv, StopInv, [Next]_vars
    PROVE  StopInv'
<1> USE SameOpt, Numbers DEF TypeInv
<1> DEFINE Nothing == \A t \in Threads : executed[t] = 0 /\ pc[t] # "op"
<1>1. CASE SetStartTime /\ StartTiming
  <2>1. /\ UNCHANGED <<_finished, _operationsCompleted, pc, executed, mpc>>
        /\ _stopTime' = IF _stopTime = "after" THEN "before" ELSE _stopTime
        /\ timing # "idle"
    BY <1>1 DEF StartTiming, SetStartTime, threads
  <2>2. \A t \in Threads : left[t] <= 1
    <3>1. \/ mpc = "setup" /\ \A t \in Threads : pc[t] = "unborn"
          \/ pc[0] = "timing"
      BY <2>1 DEF StageInv
    <3>2. ASSUME pc[0] = "timing" PROVE entered[0] = 1
      BY <3>2, Places, ThreadsFinite DEF PhaseInv
    <3> QED
      BY <3>1, <3>2, Places, ThreadsFinite DEF PhaseInv
  <2>3. \A t \in Threads : LeftAt(pc[t]) < 2
    BY <2>2 DEF PhaseInv
  <2>4. Nothing /\ \A t \in Threads : ~Counted(t)
    BY <2>3, Places DEF WorkInv, Counted
  <2>5. _operationsCompleted = 0
    BY <2>4 DEF WorkInv
  <2>6. mpc # "done"
    BY <2>1, ThreadsFinite DEF StageInv
  <2>7. _stopTime # "unset" => _finished
    BY <2>6 DEF StopInv
  <2> QED
    BY <2>1, <2>4, <2>5, <2>7 DEF StopInv
<1>2. ASSUME _stopTime' = _stopTime \/ (_finished' /\ _stopTime' = "after"),
             _finished => _finished',
             mpc # "done" \/ mpc' = mpc,
             _stopTime = "before" =>
                 _operationsCompleted' = 0 /\ \A t \in Threads : executed'[t] = 0 /\ pc'[t] # "op"
      PROVE  StopInv'
  BY <1>2 DEF StopInv
<1>3. CASE CallInit \/ SetUp \/ WaitForThreads \/ StopSignal \/ DefaultAction \/ UNCHANGED vars
           \/ (StartTiming /\ (InstallHandler \/ Resume \/ SetAlarm))
  <2>1. /\ UNCHANGED <<_operationsCompleted, pc, executed>>
        /\ _stopTime' = _stopTime \/ (_finished' /\ _stopTime' = "after")
        /\ _finished => _finished'
        /\ mpc # "done" \/ mpc' = mpc
    BY <1>3 DEF CallInit, SetUp, WaitForThreads, StopSignal, DefaultAction, StartTiming,
                InstallHandler, Resume, SetAlarm, vars, harness, threads
  <2> QED
    BY <1>2, <2>1 DEF StopInv
<1>4. CASE PrintResults
  BY <1>4 DEF PrintResults, StopInv, threads
<1>5. ASSUME NEW t \in Threads, StartThread(t) \/ GenericThread(t)
      PROVE  StopInv'
  <2>1. UNCHANGED <<_stopTime, _finished>> /\ (mpc # "done" \/ mpc' = mpc)
    BY <1>5 DEF StartThread, GenericThread, StartBarrier, RunBarrier, EndBarrier, Comes,
                Passes, CallStartTiming, StartTimingReturns, LoopTest, Operation,
                CompletedOperations, harness
  <2>2. ASSUME _stopTime = "before"
        PROVE  _operationsCompleted' = 0 /\ \A u \in Threads : executed'[u] = 0 /\ pc'[u] # "op"
    <3>1. _finished /\ _operationsCompleted = 0 /\ Nothing
      BY <2>2 DEF StopInv
    <3>2. opt.max = 0 /\ threadOps = 0
      BY <3>1 DEF SignalInv
    <3>3. CASE LoopTest(t)
      <4>1. ~Continues(t)
        BY <3>1, <3>2 DEF Continues, isDone
      <4> QED
        BY <3>1, <3>3, <4>1 DEF LoopTest, Goto, harness
    <3>4. CASE CompletedOperations(t)
      <4>1. _operationsCompleted' = _operationsCompleted + (executed[t] % Word)
        BY <3>2, <3>4 DEF CompletedOperations, atomic_exchange_and_add
      <4> QED
        BY <3>1, <3>4, <4>1 DEF CompletedOperations, Goto
    <3>5. ~Operation(t)
      BY <3>1 DEF Operation, Goto
    <3>6. CASE StartThread(t) \/ StartBarrier(t) \/ RunBarrier(t) \/ EndBarrier(t)
               \/ CallStartTiming(t) \/ StartTimingReturns(t)
      BY <3>1, <3>6 DEF StartThread, StartBarrier, RunBarrier, EndBarrier, Comes, Passes,
                        CallStartTiming, StartTimingReturns, Goto, harness
    <3> QED
      BY <1>5, <3>3, <3>4, <3>5, <3>6 DEF GenericThread
  <2> QED
    BY <1>2, <2>1, <2>2
<1>6. StartTiming => SetStartTime \/ InstallHandler \/ Resume \/ SetAlarm
  BY DEF StartTiming
<1> QED
  BY <1>1, <1>3, <1>4, <1>5, <1>6 DEF Next, Main

(* A thread that counts adds its share, and nobody else changes a share.   *)
LEMMA CountStep ==
    ASSUME TypeInv, WorkInv, CountInv, [Next]_vars
    PROVE  CountInv'
<1> USE SameOpt, Numbers DEF TypeInv
<1>0. Shares \in [Threads -> Nat]
  BY DEF Shares, Share
<1>1. ASSUME Shares' = Shares, UNCHANGED _operationsCompleted
      PROVE  CountInv'
  <2>1. Total(Shares)' = Total(Shares')
    OBVIOUS
  <2> QED
    BY <1>1, <2>1 DEF CountInv
<1>2. ASSUME UNCHANGED <<executed, _operationsCompleted>>,
             \A t \in Threads : Counted(t)' <=> Counted(t)
      PROVE  CountInv'
  <2>1. Shares' = Shares
    BY <1>2 DEF Shares, Share
  <2> QED
    BY <1>1, <1>2, <2>1
<1>3. CASE CallInit \/ SetUp \/ WaitForThreads \/ PrintResults \/ StartTiming
           \/ StopSignal \/ DefaultAction \/ UNCHANGED vars
  <2>1. UNCHANGED <<executed, pc, _operationsCompleted>>
    BY <1>3 DEF CallInit, SetUp, WaitForThreads, PrintResults, StartTiming, SetStartTime,
                InstallHandler, Resume, SetAlarm, StopSignal, DefaultAction, vars, harness,
                threads
  <2> QED
    BY <1>2, <2>1 DEF Counted
<1>4. ASSUME NEW t \in Threads, StartThread(t) \/ StartBarrier(t) \/ RunBarrier(t)
             \/ EndBarrier(t) \/ CallStartTiming(t) \/ StartTimingReturns(t) \/ LoopTest(t)
      PROVE  CountInv'
  <2>1. UNCHANGED <<executed, _operationsCompleted>>
    BY <1>4 DEF StartThread, StartBarrier, RunBarrier, EndBarrier, Comes, Passes,
                CallStartTiming, StartTimingReturns, LoopTest, harness
  <2>2. \A u \in Threads : Counted(u)' <=> Counted(u)
    BY <1>4 DEF Counted, StartThread, StartBarrier, RunBarrier, EndBarrier, Comes, Passes,
                CallStartTiming, StartTimingReturns, LoopTest, Goto
  <2> QED
    BY <1>2, <2>1, <2>2
<1>5. ASSUME NEW t \in Threads, Operation(t) PROVE CountInv'
  <2>1. UNCHANGED _operationsCompleted /\ ~Counted(t) /\ ~Counted(t)'
        /\ \A u \in Threads \ {t} : executed'[u] = executed[u] /\ pc'[u] = pc[u]
    BY <1>5 DEF Operation, Goto, Counted, harness
  <2>2. Shares' = Shares
    BY <2>1 DEF Shares, Share, Counted
  <2> QED
    BY <1>1, <2>1, <2>2
<1>6. ASSUME NEW t \in Threads, CompletedOperations(t) PROVE CountInv'
  <2>1. /\ ~Counted(t) /\ Counted(t)' /\ UNCHANGED executed
        /\ \A u \in Threads \ {t} : pc'[u] = pc[u]
        /\ _operationsCompleted' = _operationsCompleted + Share(t)
    BY <1>6 DEF CompletedOperations, atomic_exchange_and_add, Goto, Counted, Share
  <2>2. Share(t) \in Nat
    BY DEF Share
  <2>3. Shares' = [Shares EXCEPT ![t] = @ + Share(t)]
    <3>1. \A u \in Threads : Share(u)' = Share(u)
      BY <2>1 DEF Share
    <3>2. \A u \in Threads \ {t} : Counted(u)' <=> Counted(u)
      BY <2>1 DEF Counted
    <3>3. \A u \in Threads \ {t} : Shares'[u] = Shares[u]
      BY <3>1, <3>2 DEF Shares
    <3>4. Shares[t] = 0 /\ Shares'[t] = Share(t)
      BY <2>1, <3>1 DEF Shares
    <3>5. Shares'[t] = Shares[t] + Share(t)
      BY <2>2, <3>4
    <3>6. Shares' \in [Threads -> Nat]
      BY <1>0, <2>2, <3>3, <3>4 DEF Shares
    <3> QED
      BY <1>0, <3>3, <3>5, <3>6
  <2>4. Total([Shares EXCEPT ![t] = @ + Share(t)]) = Total(Shares) + Share(t)
    BY <1>0, <2>2, TotalAdd
  <2>5. Total(Shares)' = Total(Shares')
    OBVIOUS
  <2> QED
    BY <2>1, <2>3, <2>4, <2>5 DEF CountInv
<1> QED
  BY <1>3, <1>4, <1>5, <1>6 DEF Next, Main, GenericThread

(* IInv is an invariant of the harness. *)
THEOREM Invariance == Spec => []IInv
<1>1. IInv /\ [Next]_vars => IInv'
  BY TypeStep, PhaseStep, StageStep, SignalStep, WorkStep, StopStep, CountStep DEF IInv
<1> QED
  BY InitInv, <1>1, PTL DEF Spec

-----------------------------------------------------------------------------

(* No operation begins before thread 0 has started the time, and no thread *)
(* has returned while another executes operations, for any number of       *)
(* threads (NVTMWorkloadHarness.hpp:299-317).                              *)
THEOREM AlwaysTimed == Spec => []OperationsAreTimed
<1>1. IInv => OperationsAreTimed
  <2> SUFFICES ASSUME IInv, NEW t \in Threads, pc[t] \in {"test", "op", "counting"},
                      NEW u \in Threads
               PROVE  pc[u] \notin {"unborn", "born", "starting", "StartTiming", "timing",
                                    "returned"}
    BY DEF OperationsAreTimed
  <2>1. entered[t] = 2 /\ left[t] = 2 /\ left[t] <= entered[u] /\ left[u] <= entered[t]
    BY Places DEF IInv, PhaseInv
  <2>2. EnteredAt(pc[u]) >= 2 /\ LeftAt(pc[u]) <= 2
    BY <2>1 DEF IInv, PhaseInv
  <2> QED
    BY <2>2, Places
<1> QED
  BY Invariance, <1>1, PTL

(* A thread begins at most one operation when the time is already up       *)
(* (NVTMWorkloadHarness.hpp:248-249,306-309).                              *)
THEOREM AlwaysPrompt == Spec => []StopsPromptly
<1>1. IInv => StopsPromptly
  BY DEF IInv, TypeInv, WorkInv, StopsPromptly
<1> QED
  BY Invariance, <1>1, PTL

(* SIGALRM terminates the process only when it came inside StartTiming     *)
(* (NVTMWorkloadHarness.hpp:210-218).                                      *)
THEOREM KilledByRaceOnly == Spec => []KilledOnlyByRace
<1>1. IInv => KilledOnlyByRace
  BY DEF IInv, SignalInv, KilledOnlyByRace
<1> QED
  BY Invariance, <1>1, PTL

(* A negative run time is printed with no operations                       *)
(* (NVTMWorkloadHarness.hpp:186-187,195-210,248-249).                      *)
THEOREM NegativeTimeIsEmpty == Spec => []NegativeTimeMeansNoOperations
<1>1. IInv => NegativeTimeMeansNoOperations
  BY DEF IInv, StopInv, NegativeTimeMeansNoOperations
<1> QED
  BY Invariance, <1>1, PTL

(* The quotient times the divisor is not above the dividend. *)
LEMMA EqualShares == ASSUME NEW n \in Nat PROVE TC * (n \div TC) <= n
BY HarnessAssumption

(* A number that fits a word is its own remainder. *)
LEMMA BelowWord == \A n \in Nat : n < Word => n % Word = n
BY HarnessAssumption

(* What is left of a number in a word is no more than the number. *)
LEMMA AtMostWord == \A n \in Nat : n % Word <= n
BY HarnessAssumption

(* More operations per thread are more operations in all. *)
LEMMA TimesMonotone ==
    ASSUME NEW m \in Nat, NEW n \in Nat, m <= n
    PROVE  TC * m <= TC * n
<1>1. n - m \in Nat /\ TC * (n - m) \in Nat
  BY HarnessAssumption
<1>2. TC * n = TC * m + TC * (n - m)
  BY HarnessAssumption
<1> QED
  BY <1>1, <1>2, HarnessAssumption

(* The results count exactly the operations the threads have executed, as  *)
(* long as none of them has executed Word or more; with -max not more than *)
(* were asked for, and the equal shares when those fit in a word           *)
(* (NVTMWorkloadHarness.hpp:168-170,187,295,305-316).                      *)
THEOREM ResultsAreCounts == Spec => []ResultsCountOperations
<1>1. IInv => ResultsCountOperations
  <2> SUFFICES ASSUME IInv, mpc = "done", \A t \in Threads : executed[t] < Word
               PROVE  /\ _operationsCompleted = TotalExecuted
                      /\ opt.maxSet => _operationsCompleted <= opt.max
                      /\ _operationsPerThread \in 1 .. Word - 1 =>
                             _operationsCompleted = TC * _operationsPerThread
    BY DEF ResultsCountOperations
  <2> USE Numbers DEF IInv, TypeInv
  <2>1. \A t \in Threads : Counted(t)
    BY DEF StageInv, Counted
  <2>2. ASSUME NEW t \in Threads PROVE Share(t) = executed[t]
    <3>1. executed[t] \in Nat /\ executed[t] < Word
      OBVIOUS
    <3>2. executed[t] % Word = executed[t]
      BY <3>1, BelowWord
    <3> QED
      BY <2>1, <3>2 DEF Share, WorkInv
  <2>3. Shares = executed
    BY <2>1, <2>2 DEF Shares
  <2>4. _operationsCompleted = Total(executed)
    BY <2>3 DEF CountInv
  <2>5. _operationsCompleted = TotalExecuted
    BY <2>4 DEF Total, TotalExecuted
  <2>6. ASSUME threadOps # 0 PROVE _operationsCompleted = TC * threadOps
    <3>1. executed = [t \in Threads |-> threadOps]
      BY <2>1, <2>6 DEF WorkInv
    <3> QED
      BY <2>4, <3>1, TotalConst
  <2>7. ASSUME opt.maxSet PROVE _operationsCompleted <= opt.max
    <3>1. CASE opt.max = 0
      <4>1. executed = [t \in Threads |-> 0]
        BY <2>7, <3>1 DEF WorkInv
      <4>2. Total(executed) = TC * 0
        BY <4>1, TotalConst
      <4> QED
        BY <2>4, <3>1, <4>2
    <3>2. CASE opt.max > 0
      <4>1. threadOps # 0
        BY <2>1, <3>2, ThreadsFinite DEF WorkInv
      <4>2. threadOps <= _operationsPerThread
        BY AtMostWord DEF threadOps
      <4>3. TC * threadOps <= TC * _operationsPerThread
        BY <4>2, TimesMonotone
      <4>4. TC * _operationsPerThread <= opt.max
        BY EqualShares DEF _operationsPerThread
      <4>5. TC * threadOps \in Nat /\ TC * _operationsPerThread \in Nat
        OBVIOUS
      <4> QED
        BY <2>6, <4>1, <4>3, <4>4, <4>5
    <3> QED
      BY <3>1, <3>2
  <2>8. ASSUME _operationsPerThread \in 1 .. Word - 1
        PROVE  _operationsCompleted = TC * _operationsPerThread
    <3>1. threadOps = _operationsPerThread
      <4> DEFINE n == _operationsPerThread
      <4>1. n \in Nat /\ n < Word
        BY <2>8
      <4> HIDE DEF n
      <4>2. n % Word = n
        BY <4>1, BelowWord
      <4> QED
        BY <4>2 DEF n, threadOps
    <3> QED
      BY <2>6, <2>8, <3>1
  <2> QED
    BY <2>5, <2>7, <2>8
<1> QED
  BY Invariance, <1>1, PTL
============================================================================
