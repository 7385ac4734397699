------------------------- MODULE NoposixBenchProofs -------------------------
(***************************************************************************)
(* The doorbell handshake and the noposix driver for any number of threads *)
(* and sizes.                                                              *)
(*                                                                         *)
(* First the handshake alone, which all doorbell drivers have: the         *)
(* inductive invariant says, for each place main can be at, which of three *)
(* stations every thread is at with respect to the current round: waiting  *)
(* for its ring, rung, or served.  What it guarantees carries over to the  *)
(* noposix driver, because the warm-up ends in the handshake's initial     *)
(* state; the shares and the trees build on that.                          *)
(***************************************************************************)
EXTENDS NoposixBench, MmapTreeProofs

-----------------------------------------------------------------------------
(* The handshake *)

(* Thread t has finished every earlier round and has not been rung.        *)
Waiting(t) ==
    /\ round[t] = mround
    /\ doorbell[t] # START
    /\ pc[t] \in {"loop", "spin"}

(* Thread t has been rung for this round and has not answered.             *)
Rung(t) ==
    /\ round[t] = mround
    /\ doorbell[t] = START
    /\ pc[t] \in {"loop", "spin", "transfer"}

(* Thread t has answered this round's ring.                                *)
Served(t) ==
    /\ round[t] = mround + 1
    /\ doorbell[t] = FINISHED
    /\ \/ pc[t] = "loop"
       \/ pc[t] = "spin" /\ mround < ROUNDS
       \/ pc[t] = "exited" /\ mround = ROUNDS

(* After the last round every thread is on its way out.                    *)
Leaving(t) == round[t] = ROUNDS + 1 /\ pc[t] \in {"loop", "exited"}

Unborn(t) == round[t] = mround /\ doorbell[t] # START /\ pc[t] = "unborn"

Stations ==
    \A t \in Threads :
        /\ mpc = "create"  => mround = 1 /\ IF t < mi THEN Waiting(t) ELSE Unborn(t)
        /\ mpc = "prepare" => Waiting(t)
        /\ mpc = "ring"    => IF t < mi THEN Rung(t) \/ Served(t) ELSE Waiting(t)
        /\ mpc = "poll"    => IF t < mi THEN Served(t) ELSE Rung(t) \/ Served(t)
        /\ mpc = "join"    => Leaving(t) /\ (t < mi => pc[t] = "exited")
        /\ mpc = "done"    => Leaving(t) /\ pc[t] = "exited"
        /\ mpc = "killed"  => round[t] = mround + 1 /\ pc[t] = "killed"

RoundInRange ==
    IF mpc \in {"join", "done"} THEN mround = ROUNDS + 1 ELSE mround <= ROUNDS

IInv == TypeOK /\ RoundInRange /\ Stations

-----------------------------------------------------------------------------

(* main's index over the doorbells runs through the threads and no further. *)
LEMMA ThreadsFacts ==
    /\ 0 \in Threads
    /\ \A i \in Threads : i \in Int /\ 0 <= i /\ i < N /\ i + 1 # 0
    /\ \A i \in Threads : i + 1 # N => i + 1 \in Threads
    /\ \A i, t \in Threads : t < i + 1 <=> t < i \/ t = i
    /\ \A i, t \in Threads : i + 1 = N => t < i \/ t = i
BY NAssumption DEF Threads

(* The invariant holds initially. *)
LEMMA InitInv == Init => IInv
<1> SUFFICES ASSUME Init PROVE IInv
  OBVIOUS
<1>1. timed \in SUBSET (1 .. ROUNDS)
  <2>1. \A file_size \in FileSizes : Timed(file_size) \subseteq 1 .. ROUNDS
    BY DEF Timed
  <2> QED
    BY <2>1 DEF Init
<1>2. TypeOK
  BY <1>1, NAssumption, RoundsAssumption, ThreadsFacts DEF Init, TypeOK
<1>3. RoundInRange /\ Stations
  BY RoundsAssumption, ThreadsFacts
     DEF Init, RoundInRange, Stations, Unborn, Waiting, QUIET, START
<1> QED
  BY <1>2, <1>3 DEF IInv

(* Every step keeps every variable in its type. *)
LEMMA TypeStep == IInv /\ [Next]_vars => TypeOK'
<1> SUFFICES ASSUME IInv, [Next]_vars PROVE TypeOK'
  OBVIOUS
<1> USE NAssumption, RoundsAssumption, ThreadsFacts DEF IInv, TypeOK, QUIET, START, FINISHED
<1>1. CASE CreateThread
  BY <1>1 DEF CreateThread, ForEach
<1>2. CASE PrepareFile
  BY <1>2 DEF PrepareFile, ForEach
<1>3. CASE Ring
  BY <1>3 DEF Ring, ForEach
<1>4. CASE PollUnfinished
  BY <1>4 DEF PollUnfinished
<1>5. CASE PollFinished
  BY <1>5 DEF PollFinished, ForEach, RoundInRange
<1>6. CASE Join
  BY <1>6 DEF Join, ForEach
<1>9. CASE DivideByZero
  BY <1>9 DEF DivideByZero
<1>7. ASSUME NEW t \in Threads, Transfer(t) PROVE TypeOK'
  <2>1. CASE LoopTest(t)
    BY <2>1 DEF LoopTest
  <2>2. CASE Begin(t)
    BY <2>2 DEF Begin
  <2>3. CASE Signal(t)
    <3>1. round[t] <= ROUNDS
      BY <2>3 DEF Signal, Stations, Waiting, Rung, Served, Leaving, Unborn, RoundInRange
    <3> QED
      BY <2>3, <3>1 DEF Signal
  <2> QED
    BY <1>7, <2>1, <2>2, <2>3 DEF Transfer
<1>8. CASE Done \/ UNCHANGED vars
  BY <1>8 DEF Done, vars
<1> QED
  BY <1>1, <1>2, <1>3, <1>4, <1>5, <1>6, <1>7, <1>8, <1>9 DEF Next, Main

(* Every step takes each thread from one station to another.               *)
LEMMA StationsStep == IInv /\ [Next]_vars => (RoundInRange /\ Stations)'
<1> SUFFICES ASSUME IInv, [Next]_vars PROVE (RoundInRange /\ Stations)'
  OBVIOUS
<1> USE NAssumption, RoundsAssumption, ThreadsFacts
    DEF IInv, TypeOK, RoundInRange, QUIET, START, FINISHED
<1>1. CASE CreateThread
  <2>1. (RoundInRange)'
    BY <1>1 DEF CreateThread, ForEach
  <2>2. ASSUME NEW t \in Threads PROVE (Stations!(t))'
    BY <1>1, <2>2 DEF CreateThread, ForEach, Stations, Waiting, Unborn
  <2> QED
    BY <2>1, <2>2 DEF Stations
<1>2. CASE PrepareFile
  <2>1. (RoundInRange)'
    BY <1>2 DEF PrepareFile, ForEach
  <2>2. ASSUME NEW t \in Threads PROVE (Stations!(t))'
    BY <1>2, <2>2 DEF PrepareFile, ForEach, Stations, Waiting
  <2> QED
    BY <2>1, <2>2 DEF Stations
<1>3. CASE Ring
  <2>1. (RoundInRange)'
    BY <1>3 DEF Ring, ForEach
  <2>2. ASSUME NEW t \in Threads PROVE (Stations!(t))'
    BY <1>3, <2>2 DEF Ring, ForEach, Stations, Waiting, Rung, Served
  <2> QED
    BY <2>1, <2>2 DEF Stations
<1>4. CASE PollUnfinished
  <2>1. (RoundInRange)'
    BY <1>4 DEF PollUnfinished
  <2>2. ASSUME NEW t \in Threads PROVE (Stations!(t))'
    BY <1>4, <2>2 DEF PollUnfinished, Stations, Rung, Served
  <2> QED
    BY <2>1, <2>2 DEF Stations
<1>5. CASE PollFinished
  <2>1. (RoundInRange)'
    BY <1>5 DEF PollFinished, ForEach
  <2>2. ASSUME NEW t \in Threads PROVE (Stations!(t))'
    <3>1. CASE mi + 1 = N
      BY <1>5, <2>2, <3>1
         DEF PollFinished, ForEach, Stations, Rung, Served, Waiting, Leaving
    <3>2. CASE mi + 1 # N
      BY <1>5, <2>2, <3>2 DEF PollFinished, ForEach, Stations, Rung, Served
    <3> QED
      BY <3>1, <3>2
  <2> QED
    BY <2>1, <2>2 DEF Stations
<1>6. CASE Join
  <2>1. (RoundInRange)'
    BY <1>6 DEF Join, ForEach
  <2>2. ASSUME NEW t \in Threads PROVE (Stations!(t))'
    BY <1>6, <2>2 DEF Join, ForEach, Stations, Leaving
  <2> QED
    BY <2>1, <2>2 DEF Stations
<1>9. CASE DivideByZero
  <2>1. (RoundInRange)'
    BY <1>9 DEF DivideByZero
  <2>2. ASSUME NEW t \in Threads PROVE (Stations!(t))'
    BY <1>9, <2>2 DEF DivideByZero, Stations, Rung, Served
  <2> QED
    BY <2>1, <2>2 DEF Stations
<1>7. ASSUME NEW w \in Threads, Transfer(w) PROVE (RoundInRange /\ Stations)'
  <2>1. (RoundInRange)'
    BY <1>7 DEF Transfer, LoopTest, Begin, Signal
  <2>2. ASSUME NEW t \in Threads PROVE (Stations!(t))'
    <3>1. CASE t # w
      BY <1>7, <2>2, <3>1
         DEF Transfer, LoopTest, Begin, Signal, Stations,
             Waiting, Rung, Served, Leaving, Unborn
    <3>2. CASE t = w
      BY <1>7, <2>2, <3>2
         DEF Transfer, LoopTest, Begin, Signal, Stations,
             Waiting, Rung, Served, Leaving, Unborn
    <3> QED
      BY <3>1, <3>2
  <2> QED
    BY <2>1, <2>2 DEF Stations
<1>8. CASE Done \/ UNCHANGED vars
  BY <1>8 DEF Done, vars, Stations, Waiting, Rung, Served, Leaving, Unborn
<1> QED
  BY <1>1, <1>2, <1>3, <1>4, <1>5, <1>6, <1>7, <1>8, <1>9 DEF Next, Main

(* IInv is an invariant of the handshake.                                  *)
THEOREM Invariance == Spec => []IInv
<1>1. IInv /\ [Next]_vars => IInv'
  BY TypeStep, StationsStep DEF IInv
<1> QED
  BY InitInv, <1>1, PTL DEF Spec

-----------------------------------------------------------------------------

(* Every variable always has its type. *)
THEOREM TypeCorrect == Spec => []TypeOK
BY Invariance, PTL DEF IInv

(* main never prepares the files while a thread transfers.                 *)
THEOREM PreparesAlone == Spec => []MainPreparesAlone
<1>1. IInv => MainPreparesAlone
  BY DEF IInv, Stations, Waiting, Unborn, MainPreparesAlone
<1> QED
  BY Invariance, <1>1, PTL

(* Threads transfer only while main times, and with main's size.           *)
THEOREM SameSizeAlways == Spec => []SameSize
<1>1. IInv => SameSize
  <2> SUFFICES ASSUME IInv, NEW t \in Threads, pc[t] = "transfer"
               PROVE  mpc \in {"ring", "poll"} /\ round[t] = mround
    BY DEF SameSize
  <2> QED
    BY DEF IInv, TypeOK, Stations, Waiting, Rung, Served, Leaving, Unborn
<1> QED
  BY Invariance, <1>1, PTL

(* main never takes the FINISHED of an earlier round for this round's.     *)
THEOREM NoStaleFinishEver == Spec => []NoStaleFinish
<1>1. IInv => NoStaleFinish
  <2> SUFFICES ASSUME IInv, mpc = "poll", NEW t \in 0 .. mi - 1
               PROVE  round[t] = mround + 1
    BY DEF NoStaleFinish
  <2>1. t \in Threads /\ t < mi
    BY NAssumption DEF IInv, TypeOK, Threads
  <2> QED
    BY <2>1 DEF IInv, Stations, Served
<1> QED
  BY Invariance, <1>1, PTL

(* main rings only for a thread that waits for its next ring, never over a *)
(* START that is not taken; and only the thread that has transferred       *)
(* answers.                                                                *)
THEOREM RingsAnswered == Spec => RingAnswered
<1> DEFINE Answered(t) ==
        /\ RingsFor(t) => doorbell[t] # START /\ pc[t] \in {"loop", "spin"}
        /\ doorbell'[t] # doorbell[t] =>
              \/ RingsFor(t) /\ doorbell'[t] = START
              \/ doorbell[t] = START /\ doorbell'[t] = FINISHED /\ pc[t] = "transfer"
<1>1. ASSUME IInv, [Next]_vars, NEW t \in Threads PROVE Answered(t)
  <2> USE <1>1, ThreadsFacts DEF IInv, TypeOK
  <2>1. RingsFor(t) => doorbell[t] # START /\ pc[t] \in {"loop", "spin"}
    BY DEF RingsFor, Stations, Waiting
  <2>2. CASE Ring
    <3>1. mi \in Threads /\ doorbell' = [doorbell EXCEPT ![mi] = START] /\ mpc = "ring"
      BY <2>2 DEF Ring, ForEach
    <3>2. <<mpc, mi>>' # <<mpc, mi>>
      BY <2>2 DEF Ring, ForEach
    <3>3. t = mi => RingsFor(t) /\ doorbell'[t] = START
      BY <3>1, <3>2 DEF RingsFor
    <3>4. t # mi => doorbell'[t] = doorbell[t]
      BY <3>1
    <3> QED
      BY <2>1, <3>3, <3>4
  <2>3. ASSUME NEW w \in Threads, Transfer(w) PROVE Answered(t)
    <3>1. doorbell'[t] # doorbell[t] =>
              doorbell[t] = START /\ doorbell'[t] = FINISHED /\ pc[t] = "transfer"
      BY <2>3 DEF Transfer, LoopTest, Begin, Signal, Stations, Waiting, Rung,
                  Served, Leaving, Unborn
    <3> QED
      BY <2>1, <3>1
  <2>4. CASE Done \/ UNCHANGED vars \/ CreateThread \/ PrepareFile \/ PollUnfinished
             \/ PollFinished \/ DivideByZero \/ Join
    <3>1. doorbell' = doorbell
      BY <2>4 DEF Done, vars, CreateThread, PrepareFile, PollUnfinished, PollFinished,
                  DivideByZero, Join
    <3> QED
      BY <2>1, <3>1
  <2> QED
    BY <2>2, <2>3, <2>4 DEF Next, Main
<1>2. IInv /\ [Next]_vars => [\A t \in Threads : Answered(t)]_vars
  BY <1>1
<1> QED
  BY Invariance, <1>2, PTL DEF Spec, RingAnswered

-----------------------------------------------------------------------------

(* Every step of the handshake is a step of the rounds of fork and join,   *)
(* or no step of theirs at all.                                            *)
LEMMA StepRefines == IInv /\ IInv' /\ [Next]_vars => [ForkJoin!ANext]_(ForkJoin!avars)
<1> SUFFICES ASSUME IInv, IInv', [Next]_vars
             PROVE  [ForkJoin!ANext]_(ForkJoin!avars)
  OBVIOUS
<1> USE ThreadsFacts DEF IInv, TypeOK
<1>1. ASSUME UNCHANGED <<mround, round, timed>> PROVE UNCHANGED ForkJoin!avars
  BY <1>1 DEF ForkJoin!avars, RoundsDone
<1>2. CASE CreateThread \/ PrepareFile \/ Ring \/ PollUnfinished \/ DivideByZero \/ Join
  BY <1>1, <1>2 DEF CreateThread, PrepareFile, Ring, PollUnfinished, DivideByZero, Join
<1>3. CASE PollFinished
  <2>1. CASE mi + 1 # N
    BY <1>1, <1>3, <2>1 DEF PollFinished
  <2>2. CASE mi + 1 = N
    <3>1. /\ mpc = "poll" /\ mround \in timed /\ mround' = mround + 1
          /\ round' = round /\ timed' = timed
      BY <1>3, <2>2 DEF PollFinished, ForEach, RoundInRange
    <3>2. \A t \in Threads : round[t] = mround + 1
      BY <1>3, <2>2, <3>1 DEF PollFinished, Stations, Rung, Served, FINISHED, START
    <3>3. RoundsDone = Threads
      BY <3>2 DEF RoundsDone
    <3>4. RoundsDone' = {}
      BY <3>1, <3>2 DEF RoundsDone
    <3> QED
      BY <3>1, <3>3, <3>4 DEF ForkJoin!ANext, ForkJoin!Advance
  <2> QED
    BY <2>1, <2>2
<1>4. ASSUME NEW t \in Threads, Transfer(t) PROVE [ForkJoin!ANext]_(ForkJoin!avars)
  <2>1. CASE LoopTest(t) \/ Begin(t)
    BY <1>1, <2>1 DEF LoopTest, Begin
  <2>2. CASE Signal(t)
    <3>1. round[t] = mround /\ mpc \in {"ring", "poll"} /\ mround <= ROUNDS
      BY <2>2 DEF Signal, Stations, Waiting, Rung, Served, Leaving, Unborn, RoundInRange
    <3>2. mround' = mround /\ timed' = timed /\ round' = [round EXCEPT ![t] = mround + 1]
      BY <2>2, <3>1 DEF Signal
    <3>3. RoundsDone' = RoundsDone \cup {t} /\ t \notin RoundsDone
      BY <3>1, <3>2 DEF RoundsDone
    <3> QED
      BY <3>1, <3>2, <3>3 DEF ForkJoin!ANext, ForkJoin!Work
  <2> QED
    BY <1>4, <2>1, <2>2 DEF Transfer
<1>5. CASE Done \/ UNCHANGED vars
  BY <1>1, <1>5 DEF Done, vars
<1> QED
  BY <1>2, <1>3, <1>4, <1>5 DEF Next, Main

(* The handshake implements rounds of fork and join.                       *)
THEOREM Refinement == Spec => ImplementsForkJoin
<1>1. Init => ForkJoin!AInit
  <2> SUFFICES ASSUME Init PROVE ForkJoin!AInit
    OBVIOUS
  <2>1. timed \subseteq 1 .. ROUNDS
    BY InitInv DEF IInv, TypeOK
  <2>2. mround = 1 /\ RoundsDone = {}
    BY ThreadsFacts DEF Init, RoundsDone
  <2> QED
    BY <2>1, <2>2 DEF ForkJoin!AInit
<1> QED
  BY Invariance, <1>1, StepRefines, PTL DEF Spec, ImplementsForkJoin, ForkJoin!ASpec

-----------------------------------------------------------------------------
(* Sizes and shares *)

Doubled(n) ==
    CHOOSE size : size = [k \in 1 .. n |-> IF k = 1 THEN START_SIZE ELSE 2 * size[k - 1]]

(* The sizes that main and the threads run through, *)
LEMMA DoubledDef ==
    ASSUME NEW n \in Nat
    PROVE  Doubled(n) = [k \in 1 .. n |-> IF k = 1 THEN START_SIZE ELSE 2 * Doubled(n)[k - 1]]
<1> DEFINE Good(m, f) == f = [k \in 1 .. m |-> IF k = 1 THEN START_SIZE ELSE 2 * f[k - 1]]
           T == {m \in Nat : \E f : Good(m, f)}
<1>1. 0 \in T
  <2>1. Good(0, [k \in 1 .. 0 |-> START_SIZE])
    OBVIOUS
  <2> QED
    BY <2>1
<1>2. ASSUME NEW m \in T PROVE m + 1 \in T
  <2>1. PICK f : Good(m, f)
    OBVIOUS
  <2> DEFINE g == [k \in 1 .. m + 1 |->
                     IF k = m + 1 THEN IF k = 1 THEN START_SIZE ELSE 2 * f[m] ELSE f[k]]
  <2>2. \A k \in 1 .. m + 1 : g[k] = IF k = 1 THEN START_SIZE ELSE 2 * g[k - 1]
    BY <2>1
  <2>3. Good(m + 1, g)
    BY <2>2
  <2> HIDE DEF Good, g
  <2> QED
    BY <2>3
<1>3. T \in SUBSET Nat
  OBVIOUS
<1> HIDE DEF T
<1>4. n \in T
  BY <1>1, <1>2, <1>3, Induction
<1> QED
  BY <1>4 DEF T, Doubled

(* start_size and its doublings, are positive.                             *)
LEMMA SizeFacts ==
    /\ Size(1) = START_SIZE
    /\ \A r \in Nat \ {0} : Size(r) \in Nat \ {0} /\ Size(r + 1) = 2 * Size(r)
<1>1. \A n \in Nat : Size(n) = Doubled(n)[n]
  BY DEF Size, Doubled
<1>2. \A n \in Nat : \A k \in 1 .. n :
          Doubled(n)[k] = IF k = 1 THEN START_SIZE ELSE 2 * Doubled(n)[k - 1]
  BY DoubledDef
<1>3. ASSUME NEW n \in Nat
      PROVE  \A k \in 1 .. n : Doubled(n)[k] = Doubled(n + 1)[k]
  <2> DEFINE T == {k \in Nat : k \in 1 .. n => Doubled(n)[k] = Doubled(n + 1)[k]}
  <2>1. 0 \in T
    OBVIOUS
  <2>2. ASSUME NEW k \in T PROVE k + 1 \in T
    <3>1. CASE k + 1 \in 1 .. n
      <4>1. Doubled(n)[k + 1] = IF k + 1 = 1 THEN START_SIZE ELSE 2 * Doubled(n)[k]
        BY <1>2, <3>1
      <4>2. Doubled(n + 1)[k + 1] = IF k + 1 = 1 THEN START_SIZE ELSE 2 * Doubled(n + 1)[k]
        BY <1>2, <3>1
      <4> QED
        BY <3>1, <4>1, <4>2
    <3> QED
      BY <3>1
  <2>3. T \in SUBSET Nat
    OBVIOUS
  <2> HIDE DEF T
  <2>4. T = Nat
    BY <2>1, <2>2, <2>3, Induction
  <2> QED
    BY <2>4 DEF T
<1>4. Size(1) = START_SIZE
  BY <1>1, <1>2
<1>5. ASSUME NEW r \in Nat \ {0} PROVE Size(r + 1) = 2 * Size(r)
  BY <1>1, <1>2, <1>3
<1> DEFINE T == {r \in Nat : r > 0 => Size(r) \in Nat \ {0}}
<1>6. 0 \in T
  OBVIOUS
<1>7. ASSUME NEW r \in T PROVE r + 1 \in T
  <2>1. CASE r = 0
    BY <1>4, <2>1, SizeAssumption
  <2>2. CASE r # 0
    <3>1. Size(r) \in Nat \ {0} /\ Size(r + 1) = 2 * Size(r)
      BY <1>5, <2>2
    <3> QED
      BY <3>1
  <2> QED
    BY <2>1, <2>2
<1>8. T \in SUBSET Nat
  OBVIOUS
<1> HIDE DEF T
<1>9. T = Nat
  BY <1>6, <1>7, <1>8, Induction
<1> QED
  BY <1>4, <1>5, <1>9 DEF T

Share == FILE_SIZE \div N

(* Each thread's share lies in the file, and as many reads as it makes fit *)
(* into it.                                                                *)
LEMMA ShareFacts ==
    /\ N \in Nat \ {0} /\ FILE_SIZE \in Nat \ {0} /\ Share \in Nat
    /\ \A t \in Threads : /\ StartOffset(t) \in Nat
                          /\ StartOffset(t) = Share * t
                          /\ StartOffset(t) + Share <= FILE_SIZE
    /\ \A size \in Nat \ {0} : Count(size) \in Nat /\ Count(size) = Share \div size
<1>1. N \in Nat \ {0} /\ FILE_SIZE \in Nat \ {0}
  BY NAssumption, SizeAssumption, BenchAssumption
<1>2. Share \in Nat /\ N * Share <= FILE_SIZE
  BY <1>1, Divide DEF Share
<1>3. ASSUME NEW t \in Threads
      PROVE  /\ StartOffset(t) \in Nat /\ StartOffset(t) = Share * t
             /\ StartOffset(t) + Share <= FILE_SIZE
  <2>1. StartOffset(t) = Share * t
    BY DEF StartOffset, Share
  <2>2. t \in Nat /\ t < N
    BY <1>1 DEF Threads
  <2>3. Share * t \in Nat
    BY <1>2, <2>2
  <2>4. N - (t + 1) \in Nat /\ N = t + 1 + (N - (t + 1))
    BY <1>1, <2>2
  <2>5. Share * t + Share <= N * Share
    <3> DEFINE k == N - (t + 1)
    <3>1. k \in Nat /\ N = t + 1 + k
      BY <2>4
    <3> HIDE DEF k
    <3>2. N * Share = Share * t + Share + k * Share /\ k * Share \in Nat
      BY <1>2, <2>2, <3>1
    <3> QED
      BY <1>2, <2>3, <3>2
  <2> QED
    BY <1>1, <1>2, <2>1, <2>3, <2>5
<1>4. ASSUME NEW size \in Nat \ {0} PROVE Count(size) \in Nat /\ Count(size) = Share \div size
  <2>1. Count(size) = Share \div size
    BY <1>1, DivideTwice DEF Count, Share
  <2> QED
    BY <1>2, <2>1, Divide
<1> QED
  BY <1>1, <1>2, <1>3, <1>4

(* The bytes that a thread reads, or tries to, with one size. *)
Taken(size) == Count(size) * size

(* They are its share at most, and all of it if the size divides it.       *)
LEMMA CountFits ==
    ASSUME NEW size \in Nat \ {0}
    PROVE  /\ Taken(size) \in Nat /\ Taken(size) <= Share
           /\ Share % size = 0 => Taken(size) = Share
<1> DEFINE q == Share \div size
           r == Share % size
<1>1. Share \in Nat /\ Count(size) = q
  BY ShareFacts
<1>2. q \in Nat /\ r \in Nat /\ Share = size * q + r
  BY <1>1, Divide
<1> HIDE DEF q, r
<1>3. Taken(size) = size * q /\ size * q \in Nat
  BY <1>1, <1>2 DEF Taken
<1>4. Taken(size) <= Share /\ (r = 0 => Taken(size) = Share)
  BY <1>1, <1>2, <1>3
<1> QED
  BY <1>3, <1>4 DEF r

(* Twice the size never reads more, *)
LEMMA TakenTwice ==
    ASSUME NEW size \in Nat \ {0}
    PROVE  Taken(2 * size) <= Taken(size)
<1> DEFINE a == Share \div size
           b == Share \div (2 * size)
           r == Share % size
           u == Share % (2 * size)
<1>1. Share \in Nat /\ Count(size) = a /\ Count(2 * size) = b
  BY ShareFacts
<1>2. a \in Nat /\ r \in Nat /\ r < size /\ Share = size * a + r
  BY <1>1, Divide
<1>3. b \in Nat /\ u \in Nat /\ Share = (2 * size) * b + u
  BY <1>1, Divide
<1> HIDE DEF a, b, r, u
<1>4. 2 * b <= a
  <2> SUFFICES ASSUME 2 * b > a PROVE FALSE
    BY <1>2, <1>3
  <2> DEFINE d == 2 * b - (a + 1)
  <2>1. d \in Nat /\ 2 * b = a + 1 + d
    BY <1>2, <1>3
  <2> HIDE DEF d
  <2>2. (2 * size) * b = size * a + size + size * d /\ size * d \in Nat
    BY <1>2, <1>3, <2>1
  <2> QED
    BY <1>2, <1>3, <2>2
<1>5. Taken(2 * size) <= Taken(size)
  <2> DEFINE d == a - 2 * b
  <2>1. d \in Nat /\ a = 2 * b + d
    BY <1>2, <1>3, <1>4
  <2> HIDE DEF d
  <2>2. size * a = (2 * size) * b + size * d /\ size * d \in Nat /\ (2 * size) * b \in Nat
    BY <1>3, <2>1
  <2>3. Taken(size) = size * a /\ Taken(2 * size) = (2 * size) * b
    BY <1>1, <1>2, <1>3 DEF Taken
  <2> QED
    BY <2>2, <2>3
<1> QED
  BY <1>5

(* so that no later size reads more than start_size.                       *)
LEMMA TakenLess ==
    \A r \in Nat \ {0} : START_SIZE <= Size(r) /\ Taken(Size(r)) <= Taken(START_SIZE)
<1> DEFINE T == {r \in Nat : r > 0 => START_SIZE <= Size(r)
                                      /\ Taken(Size(r)) <= Taken(START_SIZE)}
<1>1. 0 \in T
  OBVIOUS
<1>2. START_SIZE \in Nat \ {0} /\ Size(1) = START_SIZE /\ Taken(START_SIZE) \in Nat
  BY SizeAssumption, SizeFacts, CountFits
<1>3. ASSUME NEW r \in T PROVE r + 1 \in T
  <2>1. CASE r = 0
    BY <1>2, <2>1
  <2>2. CASE r # 0
    <3>1. Size(r) \in Nat \ {0} /\ Size(r + 1) = 2 * Size(r)
      BY <2>2, SizeFacts
    <3>2. /\ Taken(2 * Size(r)) <= Taken(Size(r))
          /\ Taken(2 * Size(r)) \in Nat /\ Taken(Size(r)) \in Nat
      BY <3>1, TakenTwice, CountFits
    <3>3. START_SIZE <= Size(r) /\ Taken(Size(r)) <= Taken(START_SIZE)
      BY <2>2
    <3>4. START_SIZE <= Size(r + 1) /\ Taken(Size(r + 1)) <= Taken(START_SIZE)
      BY <1>2, <3>1, <3>2, <3>3
    <3> QED
      BY <3>4
  <2> QED
    BY <2>1, <2>2
<1>4. T \in SUBSET Nat
  OBVIOUS
<1> HIDE DEF T
<1>5. T = Nat
  BY <1>1, <1>3, <1>4, Induction
<1> QED
  BY <1>5 DEF T

-----------------------------------------------------------------------------
(* Reads *)

(* What the file has for a read of size bytes at p.                        *)
InFile(p, size) ==
    IF p >= FILE_LENGTH THEN 0 ELSE IF p + size <= FILE_LENGTH THEN size ELSE FILE_LENGTH - p

(* A read gets no more than it asks for, and just what the file has.       *)
LEMMA LengthFacts ==
    ASSUME NEW t, nvf[t].length = FILE_LENGTH, NEW p \in Nat, NEW size \in Nat \ {0}
    PROVE  /\ Lib!ReadLength(t, size, p) \in 0 .. size
           /\ size <= FILE_SIZE => Lib!ReadLength(t, size, p) = InFile(p, size)
<1> DEFINE W == 4 * (FILE_SIZE + FILE_LENGTH)
           length == IF FILE_LENGTH >= (p + size) % W THEN size ELSE FILE_LENGTH - p
           half == 2 * (FILE_SIZE + FILE_LENGTH)
<1>1. FILE_SIZE \in Nat \ {0} /\ FILE_LENGTH \in Nat /\ W \in Nat /\ W > 0 /\ W \div 2 = half
  BY BenchAssumption, SizeAssumption
<1>2. Lib!ReadLength(t, size, p) =
          IF p >= FILE_LENGTH \/ length >= W \div 2 THEN 0 ELSE length
  BY DEF Lib!ReadLength
<1>3. (p + size) % W \in Nat /\ (p + size) % W <= p + size
  <2>1. \A x \in Nat : x % W \in Nat /\ x % W <= x
    <3> SUFFICES ASSUME NEW x \in Nat PROVE x % W \in Nat /\ x % W <= x
      OBVIOUS
    <3>1. x \div W \in Nat /\ x % W \in Nat /\ x = W * (x \div W) + (x % W)
      BY <1>1, Divide
    <3> DEFINE q == x \div W
               r == x % W
    <3>2. q \in Nat /\ r \in Nat /\ x = W * q + r
      BY <3>1
    <3> HIDE DEF q, r
    <3>3. W * q \in Nat
      BY <1>1, <3>2
    <3>4. r <= x
      BY <3>2, <3>3
    <3> QED
      BY <3>2, <3>4 DEF r
  <2> HIDE DEF W
  <2> QED
    BY <2>1
<1>4. p + size < W => (p + size) % W = p + size
  BY <1>1
<1> DEFINE m == (p + size) % W
<1>5. m \in Nat /\ m <= p + size /\ (p + size < W => m = p + size)
  BY <1>3, <1>4
<1>6. length = IF FILE_LENGTH >= m THEN size ELSE FILE_LENGTH - p
  OBVIOUS
<1> HIDE DEF m, length
<1>7. (IF p >= FILE_LENGTH \/ length >= half THEN 0 ELSE length) \in 0 .. size
  BY <1>1, <1>5, <1>6
<1>8. size <= FILE_SIZE =>
          (IF p >= FILE_LENGTH \/ length >= half THEN 0 ELSE length) = InFile(p, size)
  BY <1>1, <1>5, <1>6 DEF InFile
<1> HIDE DEF W, half
<1> QED
  BY <1>1, <1>2, <1>7, <1>8

(* What is left of a chunk behind a multiple of a size that divides it.    *)
LEMMA RestOfChunk ==
    ASSUME NEW c \in Nat \ {0}, NEW size \in Nat \ {0}, c % size = 0,
           NEW p \in Nat, p % size = 0
    PROVE  (p % c) + size <= c
<1> DEFINE b == c \div size
           a == p \div size
<1>1. b \in Nat /\ a \in Nat /\ c = size * b /\ p = size * a
  <2>1. c = size * (c \div size) + (c % size) /\ p = size * (p \div size) + (p % size)
        /\ c \div size \in Nat /\ p \div size \in Nat
    BY Divide
  <2> DEFINE x == size * b
             y == size * a
  <2>2. c = x + 0 /\ p = y + 0
    BY <2>1
  <2>3. x \in Nat /\ y \in Nat
    BY <2>1
  <2> HIDE DEF x, y
  <2>4. c = x /\ p = y
    BY <2>2, <2>3
  <2> QED
    BY <2>1, <2>4 DEF x, y
<1>2. b > 0
  <2>1. b = 0 => size * b = 0
    BY <1>1
  <2> HIDE DEF b, a
  <2> QED
    BY <1>1, <2>1
<1> HIDE DEF b, a
<1> DEFINE q == a \div b
           r == a % b
<1>3. q \in Nat /\ r \in Nat /\ r < b /\ a = b * q + r
  BY <1>1, <1>2, Divide
<1> HIDE DEF q, r
<1> DEFINE s == size * r
<1>4. s \in Nat /\ s + size <= c /\ p = c * q + s
  <2>1. s \in Nat
    BY <1>3
  <2>2. p = c * q + s
    BY <1>1, <1>3
  <2>3. b - (r + 1) \in Nat /\ b = (r + 1) + (b - (r + 1))
    BY <1>1, <1>3
  <2> DEFINE k == b - (r + 1)
  <2>4. k \in Nat /\ b = r + 1 + k
    BY <2>3, <1>3
  <2> HIDE DEF k
  <2>5. c = s + size + size * k /\ size * k \in Nat
    BY <1>1, <1>3, <2>4
  <2> QED
    BY <2>1, <2>2, <2>5
<1> HIDE DEF s
<1>5. p % c = s
  <2>1. c \in Nat /\ c > 0 /\ q \in Nat /\ s \in Nat /\ s < c /\ p = c * q + s
    BY <1>3, <1>4
  <2> QED
    BY <2>1, Quotient
<1> QED
  BY <1>4, <1>5

(* A read never returns more than it asks for. *)
LEMMA BytesCount ==
    ASSUME NEW t, NEW p \in Nat, NEW length \in Nat, NEW mapping
    PROVE  Lib!Bytes(t, p, length, mapping).n \in 0 .. length
<1> DEFINE m == p % CHUNK
<1>1. CHUNK \in Nat \ {0} /\ m \in Nat /\ m < CHUNK
  BY ChunkAssumption, Divide
<1>2. Lib!Bytes(t, p, length, mapping).n = IF CHUNK - m > length THEN length ELSE CHUNK - m
  BY DEF Lib!Bytes
<1> HIDE DEF m
<1> QED
  BY <1>1, <1>2

-----------------------------------------------------------------------------
(* What holds whatever the sizes are *)

Operations == {"read", "pread", "write", "pwrite"}

FileOK(f) ==
    /\ DOMAIN f = {"valid", "canRead", "canWrite", "offset", "length", "root", "height"}
    /\ f.offset \in Nat /\ f.length = FILE_LENGTH

Types ==
    /\ fops \in Operations /\ warm \in BOOLEAN
    /\ DOMAIN nvf = Threads /\ nvf = [t \in Threads |-> nvf[t]] /\ \A t \in Threads : FileOK(nvf[t])
    /\ maps \in Seq([path : {file}, chunk : Nat, prot : SUBSET {"r", "w"}])
    /\ hit_count \in Nat /\ mmap_count \in Nat /\ found \in Nat
    /\ left \in [Threads -> Nat] /\ offset \in [Threads -> Nat] /\ reg \in [Threads -> Nat]
    /\ step \in [Threads -> {CALL, FOUND} \cup Mappings]

(* While main warms up, the handshake has not begun but for main's index,  *)
(* which the warm-up uses too.                                             *)
NotBegun ==
    /\ doorbell = [t \in Threads |-> QUIET]
    /\ mpc = "create"
    /\ mi \in Threads
    /\ mround = 1
    /\ pc = [t \in Threads |-> "unborn"]
    /\ round = [t \in Threads |-> 1]
    /\ timed \in {Timed(file_size) : file_size \in FileSizes}

Phase == IF warm THEN NotBegun ELSE IInv

(* Who is inside a read has it to do. *)
InRead ==
    \A t \in Threads :
        step[t] # CALL => left[t] > 0 /\ IF warm THEN t = mi ELSE pc[t] = "transfer"

(* The reads a thread still makes fit into what its share has left for it. *)
InShare ==
    \A t \in Threads :
        pc[t] = "transfer" =>
            /\ StartOffset(t) <= nvf[t].offset
            /\ nvf[t].offset + left[t] * Size(round[t]) <= StartOffset(t) + Taken(Size(round[t]))

(* Stored, or loaded and still to be stored, hit_count is behind found. *)
HitsFound == hit_count <= found /\ \A t \in Threads : step[t] = FOUND => reg[t] < found

BInv == Types /\ Phase /\ InRead /\ InShare /\ HitsFound

(* Threads transfer after the warm-up, while main rings or polls. *)
LEMMA PhaseFacts ==
    ASSUME warm \in BOOLEAN, Phase
    PROVE  /\ mi \in Threads
           /\ \A t \in Threads :
                  pc[t] = "transfer" =>
                      ~warm /\ mpc \in {"ring", "poll"} /\ round[t] \in 1 .. ROUNDS
<1>1. CASE warm
  BY <1>1 DEF Phase, NotBegun
<1>2. CASE ~warm
  <2>1. IInv
    BY <1>2 DEF Phase
  <2>2. mi \in Threads /\ mpc \in {"create", "prepare", "ring", "poll", "join", "done", "killed"}
    BY <2>1 DEF IInv, TypeOK
  <2>3. ASSUME NEW t \in Threads, pc[t] = "transfer"
        PROVE  mpc \in {"ring", "poll"} /\ round[t] \in 1 .. ROUNDS
    BY <2>1, <2>2, <2>3, RoundsAssumption
       DEF IInv, TypeOK, Stations, Waiting, Rung, Served, Leaving, Unborn, RoundInRange
  <2> QED
    BY <1>2, <2>2, <2>3
<1> QED
  BY <1>1, <1>2

(* The driver's steps are steps of the handshake, but for the warm-up.     *)
LEMMA HandshakeStep ==
    ASSUME warm \in BOOLEAN, Phase, [BNext]_bvars
    PROVE  \/ warm' = warm /\ (warm => UNCHANGED vars) /\ [Next]_vars
           \/ warm /\ left[mi] = 0 /\ warm' = (mi + 1 # N)
              /\ mi' = (IF mi + 1 = N THEN 0 ELSE mi + 1)
              /\ UNCHANGED <<doorbell, mpc, mround, pc, round, timed>>
<1>1. CASE WarmSeek \/ WarmIterate
  BY <1>1 DEF WarmSeek, WarmIterate, vars
<1>2. CASE WarmNext
  BY <1>2 DEF WarmNext
<1>3. CASE BMain /\ ~(WarmSeek \/ WarmIterate \/ WarmNext)
  BY <1>3 DEF BMain, Next, Main
<1>4. ASSUME NEW t \in Threads, BTransfer(t)
      PROVE  warm' = warm /\ (warm => UNCHANGED vars) /\ [Next]_vars
  <2>1. CASE BIterate(t)
    BY <2>1 DEF BIterate, vars
  <2>2. CASE BBegin(t)
    <3>1. warm' = warm /\ Begin(t)
      BY <2>2 DEF BBegin
    <3>2. ~warm
      BY <3>1 DEF Phase, NotBegun, Begin
    <3> QED
      BY <3>1, <3>2 DEF Next, Transfer
  <2>3. CASE (LoopTest(t) \/ (left[t] = 0 /\ Signal(t))) /\ UNCHANGED warm
    <3>1. ~warm
      BY <2>3 DEF Phase, NotBegun, LoopTest, Signal
    <3> QED
      BY <2>3, <3>1 DEF Next, Transfer
  <2> QED
    BY <1>4, <2>1, <2>2, <2>3 DEF BTransfer
<1>5. CASE UNCHANGED bvars
  BY <1>5 DEF bvars, vars
<1> QED
  BY <1>1, <1>2, <1>3, <1>4, <1>5 DEF BNext

(* The warm-up leaves the handshake where it begins, and it goes on from   *)
(* there as it does alone.                                                 *)
LEMMA PhaseStep == warm \in BOOLEAN /\ Phase /\ [BNext]_bvars => Phase'
<1> SUFFICES ASSUME warm \in BOOLEAN, Phase, [BNext]_bvars PROVE Phase'
  OBVIOUS
<1>0. Init' => IInv'
  BY InitInv, PTL
<1>1. CASE warm' = warm /\ (warm => UNCHANGED vars) /\ [Next]_vars
  <2>1. CASE warm
    BY <1>1, <2>1 DEF Phase, NotBegun, vars
  <2>2. CASE ~warm
    <3>1. IInv /\ [Next]_vars
      BY <1>1, <2>2 DEF Phase
    <3>2. IInv'
      BY <3>1, TypeStep, StationsStep DEF IInv
    <3> QED
      BY <1>1, <2>2, <3>2 DEF Phase
  <2> QED
    BY <2>1, <2>2
<1>2. CASE warm /\ warm' = (mi + 1 # N) /\ mi' = (IF mi + 1 = N THEN 0 ELSE mi + 1)
           /\ UNCHANGED <<doorbell, mpc, mround, pc, round, timed>>
  <2>0. NotBegun
    BY <1>2 DEF Phase
  <2>1. CASE mi + 1 = N
    <3>1. Init'
      BY <1>2, <2>0, <2>1 DEF NotBegun, Init, Threads
    <3> QED
      BY <1>0, <1>2, <2>1, <3>1 DEF Phase
  <2>2. CASE mi + 1 # N
    <3>1. mi' \in Threads
      BY <1>2, <2>0, <2>2, ThreadsFacts DEF NotBegun
    <3>2. NotBegun'
      BY <1>2, <2>0, <3>1 DEF NotBegun, Threads
    <3> QED
      BY <1>2, <2>2, <3>2 DEF Phase
  <2> QED
    BY <2>1, <2>2
<1> QED
  BY <1>1, <1>2, HandshakeStep

(* What an iteration does to the files and the loops: it begins a read, or *)
(* it ends one and the descriptor of read1 moves on by no more than size.  *)
LEMMA IterateMoves ==
    ASSUME Types, NEW t \in Threads, NEW op \in Operations, NEW size \in Nat \ {0},
           Iterate(t, op, size)
    PROVE  /\ left[t] > 0
           /\ DOMAIN nvf' = Threads /\ nvf' = [u \in Threads |-> nvf'[u]]
           /\ \A u \in Threads : FileOK(nvf'[u])
           /\ \A u \in Threads \ {t} : nvf'[u] = nvf[u]
           /\ offset' \in [Threads -> Nat]
           /\ \A u \in Threads \ {t} : step'[u] = step[u]
           /\ \/ nvf' = nvf /\ left' = left
              \/ \E n \in 0 .. size :
                    /\ nvf'[t].offset = nvf[t].offset + (IF op = "read" THEN n ELSE 0)
                    /\ left' = [left EXCEPT ![t] = @ - 1]
                    /\ step' = [step EXCEPT ![t] = CALL]
<1>0. left[t] > 0
  BY DEF Iterate
<1>1. CASE NoEffect(t, op, size)
  <2>1. nvf' = nvf /\ left' = [left EXCEPT ![t] = @ - 1] /\ step' = [step EXCEPT ![t] = CALL]
        /\ offset' = [offset EXCEPT ![t] = @ + size]
    BY <1>1 DEF NoEffect, Iterated, lvars
  <2>2. nvf'[t].offset = nvf[t].offset + (IF op = "read" THEN 0 ELSE 0) /\ 0 \in 0 .. size
    BY <2>1 DEF Types, FileOK
  <2>3. /\ DOMAIN nvf' = Threads /\ nvf' = [u \in Threads |-> nvf'[u]]
        /\ \A u \in Threads : FileOK(nvf'[u])
        /\ \A u \in Threads \ {t} : nvf'[u] = nvf[u]
    BY <2>1 DEF Types
  <2>4. offset' \in [Threads -> Nat]
    BY <2>1 DEF Types
  <2> QED
    BY <1>0, <2>1, <2>2, <2>3, <2>4
<1>2. CASE FindChunk(t, op, size)
  BY <1>2 DEF FindChunk, Types, Iterate, lvars
<1>3. CASE MapChunk(t, op, size)
  BY <1>3 DEF MapChunk, Types, Iterate
<1>4. CASE ReturnRead(t, op, size)
  <2> DEFINE isNew == step[t] # FOUND
             mapping == IF isNew THEN step[t] ELSE ChunkAt(t, op)
             tree == WithMapping(heap, nvf[t].root, nvf[t].height, Position(t, op), mapping)
             n == Lib!Bytes(t, Position(t, op), Length(t, op, size), mapping).n
  <2>1. /\ nvf' = [nvf EXCEPT ![t].offset = IF op = "read" THEN @ + n ELSE @,
                              ![t].root = IF isNew THEN tree.root ELSE @,
                              ![t].height = IF isNew THEN tree.height ELSE @]
        /\ left' = [left EXCEPT ![t] = @ - 1] /\ step' = [step EXCEPT ![t] = CALL]
        /\ offset' = [offset EXCEPT ![t] = @ + size]
    BY <1>4 DEF ReturnRead, Iterated
  <2>2. n \in 0 .. size
    <3>1. nvf[t].length = FILE_LENGTH /\ Position(t, op) \in Nat
      BY DEF Types, FileOK, Position
    <3>2. Length(t, op, size) \in 0 .. size
      BY <3>1, LengthFacts DEF Length
    <3>3. n \in 0 .. Length(t, op, size)
      BY <3>1, <3>2, BytesCount
    <3> QED
      BY <3>2, <3>3
  <2> HIDE DEF n, tree
  <2>3. /\ DOMAIN nvf' = Threads /\ nvf' = [u \in Threads |-> nvf'[u]]
        /\ \A u \in Threads \ {t} : nvf'[u] = nvf[u]
    BY <2>1 DEF Types
  <2>4. /\ DOMAIN nvf'[t] = DOMAIN nvf[t] /\ nvf'[t].length = nvf[t].length
        /\ nvf'[t].offset = nvf[t].offset + (IF op = "read" THEN n ELSE 0)
    BY <2>1 DEF Types, FileOK
  <2>5. \A u \in Threads : FileOK(nvf'[u])
    <3>1. nvf[t].offset \in Nat /\ (IF op = "read" THEN n ELSE 0) \in Nat
      BY <2>2 DEF Types, FileOK
    <3>2. FileOK(nvf'[t])
      BY <2>4, <3>1 DEF Types, FileOK
    <3> QED
      BY <2>3, <3>2 DEF Types
  <2>6. offset' \in [Threads -> Nat]
    BY <2>1 DEF Types
  <2> QED
    BY <1>0, <2>1, <2>2, <2>3, <2>4, <2>5, <2>6
<1> QED
  BY <1>1, <1>2, <1>3, <1>4 DEF Iterate

(* and what it does to the counters.                                       *)
LEMMA IterateCounts ==
    ASSUME Types, HitsFound, NEW t \in Threads, NEW op \in Operations, NEW size \in Nat \ {0},
           Iterate(t, op, size)
    PROVE  /\ hit_count' \in Nat /\ mmap_count' \in Nat /\ found' \in Nat
           /\ reg' \in [Threads -> Nat]
           /\ maps' \in Seq([path : {file}, chunk : Nat, prot : SUBSET {"r", "w"}])
           /\ step' \in [Threads -> {CALL, FOUND} \cup Mappings]
           /\ left' \in [Threads -> Nat]
           /\ HitsFound'
<1> DEFINE Maps == [path : {file}, chunk : Nat, prot : SUBSET {"r", "w"}]
<1>0. left[t] \in Nat /\ left[t] > 0 /\ CALL # FOUND /\ FOUND \notin Mappings
  BY DEF Iterate, Types, CALL, FOUND, Mappings, Mapping
<1>1. CASE NoEffect(t, op, size)
  BY <1>0, <1>1 DEF NoEffect, Iterated, lvars, Types, HitsFound
<1>2. CASE FindChunk(t, op, size)
  BY <1>0, <1>2 DEF FindChunk, lvars, Types, HitsFound
<1>3. CASE MapChunk(t, op, size)
  <2>1. Position(t, op) \div CHUNK \in Nat
    <3>1. Position(t, op) \in Nat
      BY DEF Types, FileOK, Position
    <3> QED
      BY <3>1, ChunkAssumption, Divide
  <2>2. maps' \in Seq(Maps)
    <3>1. [path |-> file, chunk |-> Position(t, op) \div CHUNK, prot |-> {"r", "w"}] \in Maps
      BY <2>1
    <3> HIDE DEF Maps
    <3> QED
      BY <1>3, <3>1 DEF MapChunk, Types, Maps
  <2>3. Mapping(Len(maps) + 1) \in Mappings /\ Mapping(Len(maps) + 1) # FOUND
    <3>1. Len(maps) + 1 \in Nat
      BY DEF Types
    <3> QED
      BY <1>0, <3>1 DEF Mappings
  <2>4. /\ UNCHANGED <<hit_count, mmap_count, left, found>>
        /\ step' = [step EXCEPT ![t] = Mapping(Len(maps) + 1)]
        /\ reg' = [reg EXCEPT ![t] = mmap_count]
    BY <1>3 DEF MapChunk
  <2>5. step' \in [Threads -> {CALL, FOUND} \cup Mappings] /\ reg' \in [Threads -> Nat]
        /\ left' \in [Threads -> Nat]
    BY <2>3, <2>4 DEF Types
  <2>6. HitsFound'
    BY <2>3, <2>4 DEF Types, HitsFound
  <2> QED
    BY <2>2, <2>4, <2>5, <2>6 DEF Types
<1>4. CASE ReturnRead(t, op, size)
  <2>1. /\ Counted(t, step[t] # FOUND) /\ UNCHANGED <<maps, found>>
        /\ left' = [left EXCEPT ![t] = @ - 1] /\ step' = [step EXCEPT ![t] = CALL]
        /\ reg' = [reg EXCEPT ![t] = 0]
    BY <1>4 DEF ReturnRead, Iterated
  <2>2. hit_count' = (IF step[t] # FOUND THEN hit_count ELSE reg[t] + 1)
        /\ mmap_count' = (IF step[t] # FOUND THEN reg[t] + 1 ELSE mmap_count)
    BY <2>1 DEF Counted
  <2>3. hit_count' \in Nat /\ mmap_count' \in Nat
    BY <2>2 DEF Types
  <2>4. step' \in [Threads -> {CALL, FOUND} \cup Mappings] /\ reg' \in [Threads -> Nat]
        /\ left' \in [Threads -> Nat]
    BY <1>0, <2>1 DEF Types
  <2>5. HitsFound'
    <3>1. hit_count' <= found'
      BY <2>1, <2>2 DEF Types, HitsFound
    <3>2. \A u \in Threads : step'[u] = FOUND => reg'[u] < found'
      BY <1>0, <2>1 DEF Types, HitsFound
    <3> QED
      BY <3>1, <3>2 DEF HitsFound
  <2> QED
    BY <2>1, <2>3, <2>4, <2>5 DEF Types
<1> QED
  BY <1>1, <1>2, <1>3, <1>4 DEF Iterate

(* An iteration keeps the types and the shares.                            *)
LEMMA IterateStep ==
    ASSUME BInv, Phase', NEW t \in Threads, NEW op \in Operations, NEW size \in Nat \ {0},
           Iterate(t, op, size), UNCHANGED <<vars, fops, warm>>,
           IF warm THEN t = mi ELSE pc[t] = "transfer" /\ size = Size(round[t])
    PROVE  BInv'
<1> USE DEF BInv
<1>1. Types'
  BY IterateMoves, IterateCounts DEF Types
<1>2. HitsFound'
  BY IterateCounts
<1>3. UNCHANGED <<doorbell, mpc, mi, mround, pc, round>>
  BY DEF vars
<1>4. /\ left[t] > 0 /\ \A u \in Threads \ {t} : nvf'[u] = nvf[u] /\ step'[u] = step[u]
      /\ \/ nvf' = nvf /\ left' = left
         \/ \E n \in 0 .. size :
               /\ nvf'[t].offset = nvf[t].offset + (IF op = "read" THEN n ELSE 0)
               /\ left' = [left EXCEPT ![t] = @ - 1]
               /\ step' = [step EXCEPT ![t] = CALL]
  <2>1. Types
    OBVIOUS
  <2> QED
    BY <2>1, IterateMoves
<1>5. InRead'
  <2> SUFFICES ASSUME NEW u \in Threads, step'[u] # CALL
               PROVE  left'[u] > 0 /\ IF warm' THEN u = mi' ELSE pc'[u] = "transfer"
    BY DEF InRead
  <2>1. warm' = warm /\ mi' = mi /\ pc' = pc
    BY <1>3
  <2>2. CASE u # t
    <3>1. step'[u] = step[u] /\ left'[u] = left[u]
      BY <1>4, <2>2 DEF Types
    <3> QED
      BY <2>1, <3>1 DEF InRead
  <2>3. CASE u = t
    <3>1. left' = left
      BY <1>4, <2>3 DEF Types
    <3> QED
      BY <1>4, <2>1, <2>3, <3>1
  <2> QED
    BY <2>2, <2>3
<1>6. InShare'
  <2> SUFFICES ASSUME NEW u \in Threads, pc'[u] = "transfer"
               PROVE  /\ StartOffset(u) <= nvf'[u].offset
                      /\ nvf'[u].offset + left'[u] * Size(round'[u])
                             <= StartOffset(u) + Taken(Size(round'[u]))
    BY DEF InShare
  <2>1. pc[u] = "transfer" /\ round' = round
    BY <1>3
  <2>2. /\ StartOffset(u) <= nvf[u].offset
        /\ nvf[u].offset + left[u] * Size(round[u]) <= StartOffset(u) + Taken(Size(round[u]))
    BY <2>1 DEF InShare
  <2>3. CASE u # t \/ (nvf' = nvf /\ left' = left)
    <3>1. nvf'[u] = nvf[u] /\ left'[u] = left[u]
      BY <1>4, <2>3 DEF Types
    <3> QED
      BY <2>1, <2>2, <3>1
  <2>4. ASSUME u = t, NEW n \in 0 .. size,
               nvf'[t].offset = nvf[t].offset + (IF op = "read" THEN n ELSE 0),
               left' = [left EXCEPT ![t] = @ - 1]
        PROVE  /\ StartOffset(u) <= nvf'[u].offset
               /\ nvf'[u].offset + left'[u] * Size(round'[u])
                             <= StartOffset(u) + Taken(Size(round'[u]))
    <3>1. Size(round[u]) = size
      <4>1. ~warm
        BY <2>1, PhaseFacts DEF Types
      <4> QED
        BY <2>4, <4>1
    <3> DEFINE a == nvf[u].offset
               k == left[u]
               b == StartOffset(u) + Taken(size)
               m == IF op = "read" THEN n ELSE 0
    <3>2. a \in Nat /\ k \in Nat /\ k > 0 /\ m \in 0 .. size
        /\ StartOffset(u) \in Nat /\ b \in Nat
      <4>1. FileOK(nvf[u]) /\ left[u] \in Nat
        BY DEF Types
      <4>2. left[u] > 0
        BY <1>4, <2>4
      <4>3. StartOffset(u) \in Nat /\ Taken(size) \in Nat
        BY ShareFacts, CountFits
      <4> QED
        BY <2>4, <4>1, <4>2, <4>3 DEF FileOK
    <3>3. nvf'[u].offset = a + m /\ left'[u] = k - 1
      BY <2>4 DEF Types
    <3>4. StartOffset(u) <= a /\ a + k * size <= b
      BY <2>2, <3>1
    <3> HIDE DEF a, k, m, b
    <3>5. (k - 1) * size = k * size - size /\ k * size \in Nat
      BY <3>2
    <3>6. StartOffset(u) <= a + m /\ (a + m) + (k - 1) * size <= b
      BY <3>2, <3>4, <3>5
    <3> QED
      BY <2>1, <3>1, <3>3, <3>6 DEF b
  <2> QED
    BY <1>4, <2>3, <2>4
<1> QED
  BY <1>1, <1>2, <1>5, <1>6

(* A step of main or a thread that makes no read changes no loop, unless   *)
(* the thread begins one.                                                  *)
LEMMA QuietStep ==
    ASSUME BInv, Phase', [BNext]_bvars,
           UNCHANGED <<maps, hit_count, mmap_count, found, step, reg, fops>>,
           warm' \in BOOLEAN,
           DOMAIN nvf' = Threads, nvf' = [u \in Threads |-> nvf'[u]],
           \A u \in Threads : FileOK(nvf'[u]),
           left' \in [Threads -> Nat], offset' \in [Threads -> Nat], InRead', InShare'
    PROVE  BInv'
BY DEF BInv, Types, HitsFound

(* lseek1, and what free_file does to a descriptor. *)
LEMMA SeekMoves ==
    ASSUME Types, NEW t \in Threads, NEW at \in Nat, Seek(t, at)
    PROVE  /\ DOMAIN nvf' = Threads /\ nvf' = [u \in Threads |-> nvf'[u]]
           /\ \A u \in Threads : FileOK(nvf'[u])
           /\ \A u \in Threads \ {t} : nvf'[u] = nvf[u]
           /\ nvf'[t].offset = at
BY DEF Types, FileOK, Seek

(* BInv is inductive. *)
LEMMA BStep == BInv /\ [BNext]_bvars => BInv'
<1> SUFFICES ASSUME BInv, [BNext]_bvars PROVE BInv'
  OBVIOUS
<1> USE DEF BInv
<1>1. Phase'
  BY PhaseStep DEF Types
<1>2. mi \in Threads /\ \A t \in Threads :
          pc[t] = "transfer" => ~warm /\ mpc \in {"ring", "poll"} /\ round[t] \in 1 .. ROUNDS
  BY PhaseFacts DEF Types
<1>3. START_SIZE \in Nat \ {0}
  BY SizeAssumption
<1>4. \A t \in Threads : pc[t] = "transfer" => Size(round[t]) \in Nat \ {0}
  BY <1>2, SizeFacts
<1>5. CASE WarmIterate
  <2>1. Iterate(mi, fops, START_SIZE) /\ UNCHANGED <<vars, fops, warm>> /\ warm
    BY <1>5 DEF WarmIterate
  <2>2. fops \in Operations
    BY DEF Types
  <2> QED
    BY <1>1, <1>2, <1>3, <2>1, <2>2, IterateStep
<1>6. ASSUME NEW t \in Threads, BIterate(t) PROVE BInv'
  <2>1. /\ pc[t] = "transfer" /\ Iterate(t, "read", Size(round[t]))
        /\ UNCHANGED <<vars, fops, warm>>
    BY <1>6 DEF BIterate, thread_fops
  <2>2. "read" \in Operations /\ ~warm
    BY <1>2, <2>1 DEF Operations
  <2> QED
    BY <1>1, <1>4, <2>1, <2>2, IterateStep
<1>7. CASE WarmSeek
  <2>1. /\ Seek(mi, StartOffset(mi)) /\ warm /\ UNCHANGED <<doorbell, mpc, mi, mround, pc, round>>
        /\ UNCHANGED <<maps, hit_count, mmap_count, tvars, fops, warm>>
    BY <1>7 DEF WarmSeek, vars
  <2>2. StartOffset(mi) \in Nat
    BY <1>2, ShareFacts
  <2>3. InRead' /\ InShare'
    BY <1>2, <2>1 DEF InRead, InShare, tvars
  <2>4. left' \in [Threads -> Nat] /\ offset' \in [Threads -> Nat] /\ warm' \in BOOLEAN
    BY <2>1 DEF Types, tvars
  <2> QED
    BY <1>1, <1>2, <2>1, <2>2, <2>3, <2>4, SeekMoves, QuietStep DEF tvars
<1>8. CASE WarmNext
  <2>1. /\ warm /\ left[mi] = 0 /\ warm' \in BOOLEAN
        /\ UNCHANGED <<doorbell, mpc, mround, pc, round, timed>>
        /\ UNCHANGED <<lvars, tvars, fops>>
    BY <1>8 DEF WarmNext
  <2>2. \A t \in Threads : step[t] = CALL
    BY <2>1 DEF InRead
  <2>3. InRead' /\ InShare'
    BY <1>2, <2>1, <2>2 DEF InRead, InShare, tvars
  <2>4. left' \in [Threads -> Nat] /\ offset' \in [Threads -> Nat] /\ nvf' = nvf
    BY <2>1 DEF Types, tvars, lvars
  <2> QED
    BY <1>1, <2>1, <2>3, <2>4 DEF Types, HitsFound, tvars, lvars
<1>9. CASE BMain /\ ~(WarmSeek \/ WarmIterate \/ WarmNext)
  <2>0. /\ ~warm /\ UNCHANGED <<tvars, fops, warm>>
        /\ UNCHANGED <<maps, hit_count, mmap_count, found, step, reg, left, offset>>
    BY <1>9 DEF BMain, tvars, lvars
  <2>1. left' \in [Threads -> Nat] /\ offset' \in [Threads -> Nat] /\ warm' \in BOOLEAN
    BY <2>0 DEF Types
  <2>2. IInv
    BY <2>0 DEF Phase
  <2>3. CASE CreateThread /\ UNCHANGED lvars
    <3>1. nvf' = nvf /\ mpc = "create" /\ round' = round /\ pc' = [pc EXCEPT ![mi] = "loop"]
      BY <2>3 DEF CreateThread, ForEach, lvars
    <3>2. pc[mi] # "transfer"
      BY <1>2, <3>1
    <3>3. \A t \in Threads : pc'[t] = "transfer" <=> pc[t] = "transfer"
      BY <1>2, <2>2, <3>1, <3>2 DEF IInv, TypeOK
    <3>4. InRead' /\ InShare'
      BY <2>0, <3>1, <3>3 DEF InRead, InShare
    <3> QED
      BY <1>1, <2>0, <2>1, <3>1, <3>4 DEF Types, HitsFound
  <2>4. CASE PrepareFile /\ Seek(mi, 0)
    <3>1. mpc = "prepare" /\ round' = round /\ pc' = pc
      BY <2>4 DEF PrepareFile, ForEach
    <3>2. /\ DOMAIN nvf' = Threads /\ nvf' = [u \in Threads |-> nvf'[u]]
          /\ \A u \in Threads : FileOK(nvf'[u])
          /\ \A u \in Threads \ {mi} : nvf'[u] = nvf[u]
      BY <1>2, <2>4, SeekMoves
    <3>3. InRead' /\ InShare'
      BY <1>2, <2>0, <3>1, <3>2 DEF InRead, InShare
    <3> QED
      BY <1>1, <2>0, <2>1, <3>2, <3>3, QuietStep
  <2>5. CASE (Ring \/ PollUnfinished \/ PollFinished) /\ UNCHANGED lvars
    <3>1. nvf' = nvf /\ round' = round /\ pc' = pc
      BY <2>5 DEF Ring, PollUnfinished, PollFinished, lvars
    <3>2. InRead' /\ InShare'
      BY <2>0, <3>1 DEF InRead, InShare
    <3> QED
      BY <1>1, <2>0, <2>1, <3>1, <3>2 DEF Types, HitsFound
  <2>7. CASE DivideByZero /\ UNCHANGED lvars
    <3>1. nvf' = nvf /\ mpc = "poll" /\ mpc' = "killed" /\ warm' = warm
          /\ \A t \in Threads : pc'[t] = "killed"
      BY <2>0, <2>7 DEF DivideByZero, lvars
    <3>2. \A t \in Threads : t < mi => pc[t] # "transfer"
      BY <2>2, <3>1 DEF IInv, Stations, Served
    <3>3. pc[mi] # "transfer"
      BY <1>2, <2>2, <2>7, <3>1 DEF DivideByZero, IInv, Stations, Rung, Served, START, FINISHED
    <3>4. \A t \in Threads : t < mi \/ t = mi
      BY <1>2, <2>7, ThreadsFacts DEF DivideByZero
    <3>5. \A t \in Threads : step[t] = CALL
      BY <2>0, <3>2, <3>3, <3>4 DEF InRead
    <3>6. InRead' /\ InShare'
      BY <2>0, <3>1, <3>5 DEF InRead, InShare
    <3> QED
      BY <1>1, <2>0, <2>1, <3>1, <3>6 DEF Types, HitsFound
  <2>6. CASE Join /\ nvf' = [nvf EXCEPT ![mi].valid = FALSE, ![mi].root = NULL, ![mi].height = 0]
    <3>1. mpc = "join" /\ round' = round /\ pc' = pc
      BY <2>6 DEF Join, ForEach
    <3>2. /\ DOMAIN nvf' = Threads /\ nvf' = [u \in Threads |-> nvf'[u]]
          /\ \A u \in Threads \ {mi} : nvf'[u] = nvf[u]
      BY <2>6 DEF Types
    <3>3. DOMAIN nvf'[mi] = DOMAIN nvf[mi] /\ nvf'[mi].offset = nvf[mi].offset
          /\ nvf'[mi].length = nvf[mi].length
      BY <1>2, <2>6 DEF Types, FileOK
    <3>4. \A u \in Threads : FileOK(nvf'[u])
      <4>1. FileOK(nvf'[mi])
        BY <1>2, <3>3 DEF Types, FileOK
      <4> QED
        BY <3>2, <4>1 DEF Types
    <3>5. InRead' /\ InShare'
      BY <1>2, <2>0, <3>1 DEF InRead, InShare
    <3> QED
      BY <1>1, <2>0, <2>1, <3>2, <3>4, <3>5, QuietStep
  <2> QED
    BY <1>9, <2>3, <2>4, <2>5, <2>6, <2>7 DEF BMain
<1>10. ASSUME NEW t \in Threads, BBegin(t) PROVE BInv'
  <2>1. /\ Begin(t) /\ Seek(t, StartOffset(t))
        /\ offset' = [offset EXCEPT ![t] = StartOffset(t)]
        /\ left' = [left EXCEPT ![t] = Count(Size(round[t]))]
        /\ UNCHANGED <<maps, hit_count, mmap_count, step, reg, found, fops, warm>>
    BY <1>10 DEF BBegin, thread_fops
  <2>2. pc[t] = "spin" /\ pc' = [pc EXCEPT ![t] = "transfer"] /\ UNCHANGED <<mi, round>>
    BY <2>1 DEF Begin
  <2>3. pc'[t] = "transfer" /\ (\A u \in Threads \ {t} : pc'[u] = pc[u]) /\ ~warm
    BY <1>10, <2>2 DEF Phase, NotBegun, IInv, TypeOK
  <2>4. StartOffset(t) \in Nat /\ StartOffset(t) + 0 = StartOffset(t)
    BY ShareFacts
  <2>5. Size(round[t]) \in Nat \ {0}
    <3>0. warm' = warm /\ ~warm
      BY <2>1, <2>3
    <3>1. ~warm' /\ Phase'
      BY <1>1, <3>0
    <3>2. round'[t] \in 1 .. ROUNDS
      BY <1>10, <2>3, <3>1, RoundsAssumption
         DEF Phase, IInv, TypeOK, Stations, Waiting, Rung, Served, Leaving, Unborn, RoundInRange
    <3> QED
      BY <2>2, <3>2, SizeFacts
  <2>6. left' \in [Threads -> Nat] /\ offset' \in [Threads -> Nat] /\ warm' \in BOOLEAN
    BY <2>1, <2>4, <2>5, ShareFacts DEF Types
  <2>7. /\ DOMAIN nvf' = Threads /\ nvf' = [u \in Threads |-> nvf'[u]]
        /\ \A u \in Threads : FileOK(nvf'[u])
        /\ \A u \in Threads \ {t} : nvf'[u] = nvf[u]
        /\ nvf'[t].offset = StartOffset(t)
    BY <2>1, <2>4, SeekMoves
  <2>8. InRead'
    <3>1. step[t] = CALL
      BY <2>2, <2>3 DEF InRead
    <3> QED
      BY <2>1, <2>2, <2>3, <3>1 DEF InRead, Types
  <2>9. InShare'
    <3>1. /\ StartOffset(t) <= nvf'[t].offset
          /\ nvf'[t].offset + left'[t] * Size(round'[t]) <= StartOffset(t) + Taken(Size(round'[t]))
      <4>1. Taken(Size(round[t])) \in Nat
        BY <2>5, CountFits
      <4>2. left'[t] * Size(round'[t]) = Taken(Size(round[t])) /\ round'[t] = round[t]
        BY <2>1, <2>2 DEF Types, Taken
      <4> QED
        BY <2>4, <2>7, <4>1, <4>2
    <3>2. \A u \in Threads \ {t} : left'[u] = left[u] /\ round'[u] = round[u]
      BY <2>1, <2>2 DEF Types
    <3> QED
      BY <2>3, <2>7, <3>1, <3>2 DEF InShare
  <2> QED
    BY <1>1, <2>1, <2>6, <2>7, <2>8, <2>9, QuietStep
<1>11. ASSUME NEW t \in Threads, LoopTest(t) \/ (left[t] = 0 /\ Signal(t)),
              UNCHANGED <<lvars, tvars, fops, warm>>
       PROVE BInv'
  <2>1. UNCHANGED <<nvf, maps, hit_count, mmap_count, left, offset, step, reg, found, fops, warm>>
    BY <1>11 DEF lvars, tvars
  <2>2. step[t] = CALL
    BY <1>11 DEF LoopTest, Signal, InRead, Phase, NotBegun
  <2>3. ~warm
    BY <1>11 DEF LoopTest, Signal, Phase, NotBegun
  <2>4. pc'[t] # "transfer" /\ \A u \in Threads \ {t} : pc'[u] = pc[u] /\ round'[u] = round[u]
    BY <1>11, <2>3 DEF LoopTest, Signal, Phase, IInv, TypeOK
  <2>5. InRead' /\ InShare'
    BY <2>1, <2>2, <2>3, <2>4 DEF InRead, InShare
  <2> QED
    BY <1>1, <2>1, <2>5 DEF Types, HitsFound
<1>12. CASE UNCHANGED bvars
  BY <1>1, <1>12 DEF bvars, vars, lvars, tvars, Types, InRead, InShare, HitsFound
<1> QED
  BY <1>5, <1>6, <1>7, <1>8, <1>9, <1>10, <1>11, <1>12 DEF BNext, BTransfer

(* The driver starts in BInv. *)
LEMMA BInitially == BInit => BInv
<1> SUFFICES ASSUME BInit PROVE BInv
  OBVIOUS
<1>1. Phase
  <2>1. Init /\ warm = TRUE
    BY DEF BInit
  <2>2. NotBegun
    BY <2>1, ThreadsFacts DEF NotBegun, Init
  <2> QED
    BY <2>1, <2>2 DEF Phase
<1>2. Types
  <2>1. \A t \in Threads : StartOffset(t) \in Nat
    BY ShareFacts
  <2>2. START_SIZE \in Nat \ {0} /\ FILE_SIZE \in Nat /\ Count(START_SIZE) \in Nat
    BY ShareFacts, SizeAssumption
  <2>3. fops \in Operations /\ warm \in BOOLEAN
    BY BenchAssumption DEF BInit, Operations
  <2>4. /\ DOMAIN nvf = Threads /\ nvf = [t \in Threads |-> nvf[t]]
        /\ \A t \in Threads : FileOK(nvf[t])
    BY <2>2 DEF BInit, FileOK
  <2>5. left \in [Threads -> Nat] /\ offset \in [Threads -> Nat] /\ reg \in [Threads -> Nat]
        /\ step \in [Threads -> {CALL, FOUND} \cup Mappings]
    BY <2>1, <2>2 DEF BInit
  <2>6. maps \in Seq([path : {file}, chunk : Nat, prot : SUBSET {"r", "w"}])
    BY DEF BInit
  <2> QED
    BY <2>3, <2>4, <2>5, <2>6 DEF BInit, Types
<1>3. InRead /\ HitsFound
  BY DEF BInit, InRead, HitsFound, CALL, FOUND
<1>4. InShare
  BY <1>1, <1>2, PhaseFacts DEF InShare, BInit
<1> QED
  BY <1>1, <1>2, <1>3, <1>4 DEF BInv

(* BInv is an invariant of the driver. *)
THEOREM BenchInvariance == BSpec => []BInv
BY BInitially, BStep, PTL DEF BSpec

(* Threads read their own shares only.                                     *)
THEOREM OwnShareOnly == BSpec => []ReadsOwnShare
<1>1. BInv => ReadsOwnShare
  <2> SUFFICES ASSUME BInv, NEW t \in Threads, pc[t] = "transfer", left[t] > 0
               PROVE  /\ StartOffset(t) <= nvf[t].offset
                      /\ nvf[t].offset + Size(round[t]) <= StartOffset(t) + FILE_SIZE \div N
    BY DEF ReadsOwnShare
  <2> DEFINE k == left[t]
             size == Size(round[t])
             a == nvf[t].offset
             b == StartOffset(t) + Taken(size)
  <2>1. StartOffset(t) <= a /\ a + k * size <= b
    BY DEF BInv, InShare
  <2>2. size \in Nat \ {0}
    <3>1. round[t] \in 1 .. ROUNDS
      BY PhaseFacts DEF BInv, Types
    <3> QED
      BY <3>1, RoundsAssumption, SizeFacts
  <2> HIDE DEF size
  <2>3. k \in Nat /\ k > 0 /\ a \in Nat /\ b \in Nat /\ b <= StartOffset(t) + Share
    <3>1. k \in Nat /\ k > 0 /\ a \in Nat
      BY DEF BInv, Types, FileOK
    <3>2. /\ Taken(size) \in Nat /\ Taken(size) <= Share
          /\ Share \in Nat /\ StartOffset(t) \in Nat
      BY <2>2, ShareFacts, CountFits
    <3> HIDE DEF k, a
    <3> QED
      BY <3>1, <3>2
  <2> HIDE DEF k, a, b
  <2>4. k * size = size + (k - 1) * size /\ (k - 1) * size \in Nat
    BY <2>2, <2>3
  <2>5. a + size <= b
    BY <2>1, <2>2, <2>3, <2>4
  <2>6. a + size <= StartOffset(t) + Share
    BY <2>2, <2>3, <2>5, ShareFacts
  <2> QED
    BY <2>1, <2>6 DEF size, a, Share
<1> QED
  BY BenchInvariance, <1>1, PTL

(* The handshake's guarantees hold for this driver too, warm-up included:  *)
(* main prepares alone, the sizes agree, and no FINISHED is stale.         *)
THEOREM HandshakeHolds == BSpec => [](MainPreparesAlone /\ SameSize /\ NoStaleFinish)
<1>1. BInv => MainPreparesAlone /\ SameSize /\ NoStaleFinish
  <2> SUFFICES ASSUME BInv PROVE MainPreparesAlone /\ SameSize /\ NoStaleFinish
    OBVIOUS
  <2>1. MainPreparesAlone
    BY PhaseFacts DEF BInv, Types, MainPreparesAlone
  <2>2. CASE warm
    BY <2>1, <2>2 DEF BInv, Phase, NotBegun, SameSize, NoStaleFinish
  <2>3. CASE ~warm
    <3>1. IInv
      BY <2>3 DEF BInv, Phase
    <3>2. SameSize
      BY <3>1 DEF IInv, TypeOK, Stations, Waiting, Rung, Served, Leaving, Unborn, SameSize
    <3>3. NoStaleFinish
      <4>1. \A t \in 0 .. mi - 1 : t \in Threads /\ t < mi
        BY <3>1, NAssumption DEF IInv, TypeOK, Threads
      <4> QED
        BY <3>1, <4>1 DEF IInv, Stations, Served, NoStaleFinish
    <3> QED
      BY <2>1, <3>2, <3>3
  <2> QED
    BY <2>2, <2>3
<1> QED
  BY BenchInvariance, <1>1, PTL

-----------------------------------------------------------------------------
(* The trees *)

(* A tree for every descriptor, and no table in two of them. *)
Forest(hp, files, node) ==
    /\ HeapOK(hp)
    /\ \A t \in Threads : /\ Tree(hp, node[t], files[t].root, files[t].height, Mappings \X Nat)
                          /\ files[t].root # NULL
    /\ \A t, u \in Threads : t # u => Nodes(node[t]) \cap Nodes(node[u]) = {}

LookupIn(hp, files, t, p) == Lookup(hp, files[t].root, files[t].height, p)

(* Two offsets in a chunk have one mapping. *)
LEMMA SameChunk ==
    ASSUME NEW hp, NEW files, NEW node, Forest(hp, files, node), NEW t \in Threads, NEW p \in Nat
    PROVE  /\ p \div CHUNK \in Nat
           /\ Piece(p, 0) = p \div CHUNK
           /\ LookupIn(hp, files, t, p) = Content(hp, node[t], p \div CHUNK)
<1>1. Piece(p, 0) = p \div CHUNK
  BY Capacity DEF Piece
<1>2. Lookup(hp, files[t].root, files[t].height, p) = Content(hp, node[t], Piece(p, 0))
  <2>1. HeapOK(hp) /\ Tree(hp, node[t], files[t].root, files[t].height, Mappings \X Nat)
    BY DEF Forest
  <2> QED
    BY <2>1, LookupIs
<1> QED
  BY <1>1, <1>2, ChunkAssumption, Divide DEF LookupIn

(* A mapping put into one tree changes what is found in its chunk of this  *)
(* tree, and nothing else.                                                 *)
LEMMA ForestGrows ==
    ASSUME NEW hp, NEW files, NEW node, Forest(hp, files, node), NEW t \in Threads,
           NEW p \in Nat, NEW w \in Mappings, NEW files2,
           files2[t].root = WithMapping(hp, files[t].root, files[t].height, p, w).root,
           files2[t].height = WithMapping(hp, files[t].root, files[t].height, p, w).height,
           \A u \in Threads \ {t} : files2[u] = files[u]
    PROVE  LET hp2 == WithMapping(hp, files[t].root, files[t].height, p, w).heap IN
           /\ \E node2 : Forest(hp2, files2, node2)
           /\ \A u \in Threads, q \in Nat :
                  LookupIn(hp2, files2, u, q) =
                      IF u = t /\ q \div CHUNK = p \div CHUNK THEN w
                      ELSE LookupIn(hp, files, u, q)
<1> DEFINE tree == WithMapping(hp, files[t].root, files[t].height, p, w)
           hp2 == tree.heap
           ok == Mappings \X Nat
<1>1. HeapOK(hp) /\ Tree(hp, node[t], files[t].root, files[t].height, ok) /\ files[t].root # NULL
  BY DEF Forest
<1>2. <<w, Piece(p, 0)>> \in ok /\ ok \subseteq ok /\ Piece(p, 0) = p \div CHUNK
  BY SameChunk
<1> HIDE DEF ok
<1>3. PICK n2 : /\ HeapOK(hp2) /\ Tree(hp2, n2, tree.root, tree.height, ok) /\ tree.root # NULL
                /\ Extends(hp, node[t], hp2, n2)
                /\ AddsChunk(hp, node[t], hp2, n2, Piece(p, 0), w)
  BY <1>1, <1>2, WithMappingIs
<1> DEFINE node2 == [u \in Threads |-> IF u = t THEN n2 ELSE node[u]]
<1>4. files2[t].root = tree.root /\ files2[t].height = tree.height
  OBVIOUS
<1> HIDE DEF tree
<1>5. ASSUME NEW u \in Threads, u # t
      PROVE  /\ Tree(hp2, node[u], files[u].root, files[u].height, ok)
             /\ SameChunks(hp, node[u], hp2, node[u])
             /\ Nodes(node[u]) \cap Nodes(n2) = {}
  <2>1. Tree(hp, node[u], files[u].root, files[u].height, ok)
    BY DEF Forest, ok
  <2>2. Nodes(node[u]) \subseteq DOMAIN hp /\ Nodes(node[u]) \cap Nodes(node[t]) = {}
    BY <1>1, <1>5, <2>1, NodeFacts DEF Forest
  <2>3. \A a \in Nodes(node[u]) : a \in DOMAIN hp2 /\ hp2[a] = hp[a]
    BY <1>3, <2>2 DEF Extends
  <2>4. Nodes(node[u]) \cap Nodes(n2) = {}
    BY <1>3, <2>2 DEF Extends
  <2> QED
    BY <1>1, <2>1, <2>3, <2>4, TreeFrame
<1>6. Forest(hp2, files2, node2)
  <2>1. ASSUME NEW u \in Threads
        PROVE  Tree(hp2, node2[u], files2[u].root, files2[u].height, ok) /\ files2[u].root # NULL
    <3>1. CASE u = t
      BY <1>3, <1>4, <3>1
    <3>2. CASE u # t
      BY <1>5, <3>2 DEF Forest
    <3> QED
      BY <3>1, <3>2
  <2>2. ASSUME NEW u \in Threads, NEW v \in Threads, u # v
        PROVE  Nodes(node2[u]) \cap Nodes(node2[v]) = {}
    BY <1>5, <2>2 DEF Forest
  <2> HIDE DEF node2
  <2> QED
    BY <1>3, <2>1, <2>2 DEF Forest, ok
<1>7. ASSUME NEW u \in Threads, NEW q \in Nat
      PROVE  LookupIn(hp2, files2, u, q) =
                 IF u = t /\ q \div CHUNK = p \div CHUNK THEN w ELSE LookupIn(hp, files, u, q)
  <2>1. q \div CHUNK \in Nat /\ LookupIn(hp2, files2, u, q) = Content(hp2, node2[u], q \div CHUNK)
    BY <1>6, SameChunk
  <2>2. LookupIn(hp, files, u, q) = Content(hp, node[u], q \div CHUNK)
    BY SameChunk
  <2>3. CASE u = t
    BY <1>2, <1>3, <2>1, <2>2, <2>3 DEF AddsChunk
  <2>4. CASE u # t
    BY <1>5, <2>1, <2>2, <2>4 DEF SameChunks
  <2> QED
    BY <2>3, <2>4
<1> HIDE DEF hp2, node2
<1> QED
  BY <1>6, <1>7 DEF hp2, tree

Reading == fops \in {"read", "pread"}

FoundIn(hp, files, t, p) == LookupIn(hp, files, t, p) # NULL

(* Everything that the file has from the beginning of thread t's share up  *)
(* to end is mapped.                                                       *)
CoveredIn(hp, files, t, end) ==
    \A p \in Nat :
        StartOffset(t) <= p /\ p < end /\ p < FILE_LENGTH => FoundIn(hp, files, t, p)

CoveredTo(t, end) == CoveredIn(heap, nvf, t, end)

(* A read gets what the file has, and no bytes beyond its chunk. *)
Got(p, size) ==
    IF CHUNK - (p % CHUNK) > InFile(p, size) THEN InFile(p, size) ELSE CHUNK - (p % CHUNK)

(* read1 reads where the warm-up's loop is; or, once a read has ended with *)
(* a chunk, less than a read behind and at a multiple of the size; or at   *)
(* the end of the file.                                                    *)
Behind(x, o) ==
    /\ x <= o
    /\ x = o \/ (x % START_SIZE = 0 /\ o < x + START_SIZE) \/ FILE_LENGTH <= x

Started == left[mi] # Count(START_SIZE) \/ step[mi] # CALL

(* Where the warm-up is. *)
WarmPlace ==
    warm =>
        /\ \A t \in Threads : t > mi => left[t] = Count(START_SIZE) /\ offset[t] = StartOffset(t)
        /\ offset[mi] + left[mi] * START_SIZE = StartOffset(mi) + Taken(START_SIZE)
        /\ left[mi] <= Count(START_SIZE)
        /\ step[mi] # CALL => Reading
        /\ fops = "read" /\ Started => Behind(nvf[mi].offset, offset[mi])

(* Where the warm-up reads. *)
ReadsAt == IF fops = "read" THEN nvf[mi].offset ELSE offset[mi]

(* Up to where its reads have mapped the share they are in: up to where    *)
(* read1 stands, or up to the last offset of pread1,                       *)
Reached == IF fops = "read" THEN nvf[mi].offset ELSE offset[mi] - START_SIZE + 1

(* and what they have mapped of a share in the end at least.               *)
Enough == Taken(START_SIZE) - START_SIZE + 1

(* The warm-up maps one share after the other, *)
WarmTrees ==
    warm /\ WarmsUp =>
        /\ \E node : Forest(heap, nvf, node)
        /\ \A t \in Threads : t < mi => CoveredTo(t, StartOffset(t) + Enough)
        /\ Started => CoveredTo(mi, Reached)
        /\ step[mi] = FOUND => FoundIn(heap, nvf, mi, ReadsAt)
        /\ IF step[mi] \in {CALL, FOUND} THEN mmap_count = Len(maps)
           ELSE reg[mi] = mmap_count /\ mmap_count + 1 = Len(maps)

(* and leaves nothing to be mapped. *)
AllMapped ==
    ~warm /\ WarmsUp =>
        /\ mmap_count = Len(maps)
        /\ \A t \in Threads : step[t] \in {CALL, FOUND}
        /\ mpc \notin {"join", "done"} => \A t \in Threads : CoveredTo(t, StartOffset(t) + Enough)

MInv == BInv /\ WarmPlace /\ WarmTrees /\ AllMapped

(* A chunk is a number of reads of the warm-up. *)
LEMMA StartFacts ==
    /\ START_SIZE \in Nat \ {0} /\ CHUNK \in Nat \ {0} /\ CHUNK % START_SIZE = 0
    /\ START_SIZE <= CHUNK
    /\ \A k \in Nat : (CHUNK * k) % START_SIZE = 0
<1>1. START_SIZE \in Nat \ {0} /\ CHUNK \in Nat \ {0} /\ CHUNK % START_SIZE = 0
  BY BenchAssumption, SizeAssumption, ChunkAssumption
<1> DEFINE m == CHUNK \div START_SIZE
<1>2. m \in Nat /\ CHUNK = START_SIZE * m + 0
  BY <1>1, Divide
<1> HIDE DEF m
<1>3. START_SIZE * m \in Nat /\ CHUNK = START_SIZE * m
  BY <1>1, <1>2
<1>4. m # 0
  BY <1>1, <1>3
<1>5. START_SIZE <= CHUNK
  <2>1. START_SIZE * m = START_SIZE + START_SIZE * (m - 1) /\ START_SIZE * (m - 1) \in Nat
    BY <1>1, <1>2, <1>4
  <2> QED
    BY <1>1, <1>3, <2>1
<1>6. ASSUME NEW k \in Nat PROVE (CHUNK * k) % START_SIZE = 0
  <2> DEFINE x == CHUNK * k
             q == m * k
  <2>1. q \in Nat /\ x = START_SIZE * q + 0
    BY <1>1, <1>2, <1>3
  <2> HIDE DEF x, q
  <2>2. x % START_SIZE = 0
    BY <1>1, <2>1, Quotient
  <2> QED
    BY <2>2 DEF x
<1> QED
  BY <1>1, <1>5, <1>6

(* Where a loop of the warm-up is that has k iterations left. *)
LEMMA WarmLoop ==
    ASSUME NEW t \in Threads, NEW o \in Nat, NEW k \in Nat, k <= Count(START_SIZE),
           o + k * START_SIZE = StartOffset(t) + Taken(START_SIZE)
    PROVE  /\ StartOffset(t) <= o
           /\ k > 0 => o + START_SIZE <= StartOffset(t) + Share /\ o + START_SIZE <= FILE_SIZE
           /\ k = 0 => o = StartOffset(t) + Taken(START_SIZE)
           /\ k = Count(START_SIZE) => o = StartOffset(t)
           /\ k # Count(START_SIZE) => StartOffset(t) + START_SIZE <= o
<1> DEFINE S == START_SIZE
           c == Count(S)
           d == c - k
           kS == k * S
<1>1. S \in Nat \ {0} /\ c \in Nat /\ StartOffset(t) \in Nat /\ Share \in Nat /\ FILE_SIZE \in Nat
      /\ StartOffset(t) + Share <= FILE_SIZE /\ Taken(S) \in Nat /\ Taken(S) <= Share
      /\ Taken(S) = c * S
  BY StartFacts, ShareFacts, CountFits DEF Taken
<1>2. d \in Nat /\ c = k + d
  BY <1>1
<1>3. kS \in Nat /\ (k > 0 => kS >= S) /\ (k = 0 => kS = 0)
  <2>1. kS \in Nat
    BY <1>1
  <2>2. k > 0 => k * S = S + (k - 1) * S /\ (k - 1) * S \in Nat
    BY <1>1
  <2> QED
    BY <1>1, <2>1, <2>2
<1>4. o + kS = StartOffset(t) + Taken(S)
  OBVIOUS
<1> HIDE DEF S, c, d
<1>5. Taken(S) = kS + d * S /\ d * S \in Nat
  BY <1>1, <1>2
<1>6. d # 0 => d * S = S + (d - 1) * S /\ (d - 1) * S \in Nat
  BY <1>1, <1>2
<1>7. d = 0 => d * S = 0
  BY <1>1
<1> DEFINE dS == d * S
           eS == (d - 1) * S
<1> HIDE DEF kS, dS
<1>8. dS \in Nat /\ Taken(S) = kS + dS /\ (d = 0 => dS = 0) /\ (d # 0 => dS >= S)
  <2>1. dS \in Nat /\ Taken(S) = kS + dS /\ (d = 0 => dS = 0)
    BY <1>5, <1>7 DEF dS
  <2>2. d # 0 => dS = S + eS /\ eS \in Nat
    BY <1>6 DEF dS
  <2> HIDE DEF eS
  <2> QED
    BY <1>1, <2>1, <2>2
<1>9. /\ StartOffset(t) <= o
      /\ k > 0 => o + S <= StartOffset(t) + Share /\ o + S <= FILE_SIZE
      /\ k = 0 => o = StartOffset(t) + Taken(S)
      /\ d = 0 => o = StartOffset(t)
      /\ d # 0 => StartOffset(t) + S <= o
  BY <1>1, <1>3, <1>4, <1>8
<1> QED
  BY <1>1, <1>2, <1>9 DEF S, c

(* Offsets are in one chunk up to its end, *)
LEMMA ToChunkEnd ==
    ASSUME NEW x \in Nat, NEW q \in Nat, x <= q, q < x + (CHUNK - (x % CHUNK))
    PROVE  q \div CHUNK = x \div CHUNK
<1> DEFINE a == x \div CHUNK
           r == x % CHUNK
           ca == CHUNK * a
<1>1. CHUNK \in Nat /\ CHUNK > 0 /\ a \in Nat /\ r \in Nat /\ r < CHUNK /\ x = ca + r /\ ca \in Nat
  BY ChunkAssumption, Divide
<1>2. q - ca \in Nat /\ q - ca < CHUNK /\ q = ca + (q - ca)
  <2> HIDE DEF ca, a
  <2>1. q < x + (CHUNK - r)
    OBVIOUS
  <2> HIDE DEF r
  <2> QED
    BY <1>1, <2>1
<1> DEFINE v == q - ca
<1>3. v \in Nat /\ v < CHUNK /\ q = CHUNK * a + v
  BY <1>2
<1> HIDE DEF a, r, ca, v
<1>4. q \div CHUNK = a
  BY <1>1, <1>3, Quotient
<1> QED
  BY <1>4 DEF a

(* and going back by less than a chunk gets into the one before at most.   *)
LEMMA BackOneChunk ==
    ASSUME NEW o \in Nat, NEW q \in Nat, NEW j \in Nat, j <= q, q <= o, o <= j + CHUNK
    PROVE  q \div CHUNK = o \div CHUNK \/ q \div CHUNK = j \div CHUNK
<1> DEFINE b == o \div CHUNK
           u == o % CHUNK
           a == q \div CHUNK
           r == q % CHUNK
           d == j \div CHUNK
           v == j % CHUNK
           C == CHUNK
<1>1. C \in Nat /\ C > 0
  BY ChunkAssumption
<1>2. b \in Nat /\ u \in Nat /\ u < C /\ o = C * b + u
  BY <1>1, Divide
<1>3. a \in Nat /\ r \in Nat /\ r < C /\ q = C * a + r
  BY <1>1, Divide
<1>4. d \in Nat /\ v \in Nat /\ v < C /\ j = C * d + v
  BY <1>1, Divide
<1> HIDE DEF a, b, d, u, r, v, C
<1>5. \A m, n \in Nat : m > n => C * m >= C * n + C
  <2> SUFFICES ASSUME NEW m \in Nat, NEW n \in Nat, m > n PROVE C * m >= C * n + C
    OBVIOUS
  <2> DEFINE e == m - (n + 1)
  <2>1. e \in Nat /\ m = n + 1 + e
    OBVIOUS
  <2> HIDE DEF e
  <2>2. C * m = C * n + C + C * e /\ C * e \in Nat /\ C * n \in Nat
    BY <1>1, <2>1
  <2> QED
    BY <1>1, <2>2
<1>6. C * a \in Nat /\ C * b \in Nat /\ C * d \in Nat
  BY <1>1, <1>2, <1>3, <1>4
<1>7. /\ a > b => C * a >= C * b + C
      /\ d > a => C * d >= C * a + C
      /\ b > d + 1 => C * b >= C * (d + 1) + C
      /\ C * (d + 1) = C * d + C
  BY <1>1, <1>2, <1>3, <1>4, <1>5
<1>8. a <= b /\ d <= a /\ b <= d + 1
  <2> DEFINE ca == C * a
             cb == C * b
             cd == C * d
             ce == C * (d + 1)
  <2>1. /\ a > b => ca >= cb + C
        /\ d > a => cd >= ca + C
        /\ b > d + 1 => cb >= ce + C
        /\ ce = cd + C /\ ca \in Nat /\ cb \in Nat /\ cd \in Nat
        /\ o = cb + u /\ q = ca + r /\ j = cd + v
    BY <1>2, <1>3, <1>4, <1>6, <1>7
  <2>2. o <= j + C
    BY DEF C
  <2> HIDE DEF ca, cb, cd, ce
  <2> QED
    BY <1>1, <1>2, <1>3, <1>4, <2>1, <2>2
<1>9. a = b \/ a = d
  BY <1>2, <1>3, <1>4, <1>8
<1> QED
  BY <1>9 DEF a, b, d

(* What read1 leaves behind is where the loop goes on, or Behind it.       *)
LEMMA BehindStep ==
    ASSUME NEW x \in Nat, NEW o \in Nat, Behind(x, o)
    PROVE  /\ Got(x, START_SIZE) \in 0 .. START_SIZE
           /\ Behind(x + Got(x, START_SIZE), o + START_SIZE)
<1> DEFINE S == START_SIZE
           C == CHUNK
           m == x % C
           n == Got(x, S)
<1>1. S \in Nat \ {0} /\ C \in Nat \ {0} /\ C % S = 0 /\ m \in Nat /\ m < C
      /\ FILE_LENGTH \in Nat
  BY StartFacts, BenchAssumption, Divide
<1>2. n = (IF C - m > InFile(x, S) THEN InFile(x, S) ELSE C - m)
  BY DEF Got
<1>3. n \in 0 .. S
  BY <1>1, <1>2 DEF InFile
<1>4. CASE FILE_LENGTH <= x
  <2>1. n = 0 /\ x <= o
    BY <1>1, <1>2, <1>4 DEF InFile, Behind
  <2> QED
    BY <1>1, <1>3, <1>4, <2>1 DEF Behind
<1>5. CASE ~(FILE_LENGTH <= x) /\ n = S
  <2>1. x % S = 0 => (x + S) % S = 0
    <3> SUFFICES ASSUME x % S = 0 PROVE (x + S) % S = 0
      OBVIOUS
    <3> DEFINE q == x \div S
               y == x + S
    <3>1. q \in Nat /\ x = S * q + 0
      BY <1>1, Divide
    <3> HIDE DEF q
    <3>2. q + 1 \in Nat /\ y = S * (q + 1) + 0
      BY <1>1, <3>1
    <3> HIDE DEF y
    <3>3. y % S = 0
      BY <1>1, <3>2, Quotient
    <3> QED
      BY <3>3 DEF y
  <2>2. x <= o /\ (x = o \/ (x % S = 0 /\ o < x + S))
    BY <1>5 DEF Behind
  <2>3. x + S <= o + S /\ (x + S = o + S \/ ((x + S) % S = 0 /\ o + S < (x + S) + S))
    BY <1>1, <2>1, <2>2
  <2> QED
    BY <1>3, <1>5, <2>3 DEF Behind
<1>6. CASE ~(FILE_LENGTH <= x) /\ n # S /\ n = InFile(x, S)
  <2>1. FILE_LENGTH = x + n /\ x <= o /\ x + n <= o + S
    BY <1>1, <1>3, <1>6 DEF InFile, Behind
  <2> QED
    BY <1>1, <1>3, <2>1 DEF Behind
<1>7. CASE ~(FILE_LENGTH <= x) /\ n # S /\ n # InFile(x, S)
  <2>1. n = C - m /\ n < S
    BY <1>1, <1>2, <1>3, <1>7
  <2>2. x % S # 0
    <3> SUFFICES ASSUME x % S = 0 PROVE FALSE
      OBVIOUS
    <3>1. m + S <= C
      BY <1>1, RestOfChunk
    <3> QED
      BY <1>1, <2>1, <3>1
  <2>3. x = o
    BY <1>7, <2>2 DEF Behind
  <2>4. (x + n) % S = 0
    <3> DEFINE a == x \div C
    <3>1. a \in Nat /\ x = C * a + m
      BY <1>1, Divide
    <3> HIDE DEF a, m, n
    <3>2. x + n = C * (a + 1) /\ a + 1 \in Nat
      BY <1>1, <2>1, <3>1
    <3> QED
      BY <3>2, StartFacts
  <2>5. x + n <= o + S /\ o + S < (x + n) + S
    <3>1. 0 < n
      BY <1>1, <2>1
    <3> QED
      BY <1>1, <1>3, <2>1, <2>3, <3>1
  <2> QED
    BY <1>3, <2>4, <2>5 DEF Behind
<1> QED
  BY <1>4, <1>5, <1>6, <1>7

(* A read that asks for no more than FILE_SIZE gets bytes just if it is    *)
(* inside the file.                                                        *)
LEMMA ReadsInFile ==
    ASSUME Types, NEW t \in Threads, NEW op, NEW size \in Nat \ {0}, size <= FILE_SIZE
    PROVE  /\ Length(t, op, size) = InFile(Position(t, op), size)
           /\ Length(t, op, size) \in 0 .. size
           /\ Length(t, op, size) > 0 <=> Position(t, op) < FILE_LENGTH
<1>1. nvf[t].length = FILE_LENGTH /\ Position(t, op) \in Nat /\ FILE_LENGTH \in Nat
  BY BenchAssumption DEF Types, FileOK, Position
<1>2. Length(t, op, size) = InFile(Position(t, op), size)
  BY <1>1, LengthFacts DEF Length
<1> QED
  BY <1>1, <1>2 DEF InFile

(* What an iteration does: it begins a read, or ends one that has got the  *)
(* rest of the chunk, or of the file, or all it asked for.                 *)
LEMMA LoopMoves ==
    ASSUME Types, NEW t \in Threads, NEW op \in Operations, NEW size \in Nat \ {0},
           step[t] # CALL => op \in {"read", "pread"},
           op \in {"read", "pread"} => size <= FILE_SIZE,
           Iterate(t, op, size)
    PROVE  LET n == Got(Position(t, op), size) IN
           /\ errors' = errors \/ errors' = errors \cup {<<t, size>>}
           /\ op \in {"read", "pread"} /\ n = size => errors' = errors
           /\ op \notin {"read", "pread"} => errors' = errors
           /\ \/ /\ step[t] = CALL /\ step'[t] # CALL /\ op \in {"read", "pread"}
                 /\ nvf' = nvf /\ left' = left /\ offset' = offset
              \/ /\ nvf'[t].offset = nvf[t].offset + (IF op = "read" THEN n ELSE 0)
                 /\ left' = [left EXCEPT ![t] = @ - 1]
                 /\ offset' = [offset EXCEPT ![t] = @ + size]
                 /\ step'[t] = CALL
<1> DEFINE n == Got(Position(t, op), size)
<1>0. nvf[t].length = FILE_LENGTH /\ Position(t, op) \in Nat /\ nvf[t].offset \in Nat
      /\ CHUNK \in Nat \ {0} /\ Position(t, op) % CHUNK \in Nat /\ Position(t, op) % CHUNK < CHUNK
  BY ChunkAssumption, Divide DEF Types, FileOK, Position
<1>1. op \in {"read", "pread"} => Length(t, op, size) = InFile(Position(t, op), size)
  BY ReadsInFile
<1> HIDE DEF n
<1>2. CASE NoEffect(t, op, size)
  <2>1. op \in {"read", "pread"} => Length(t, op, size) = 0
    BY <1>2 DEF NoEffect
  <2>2. op \in {"read", "pread"} => n = 0
    BY <1>0, <1>1, <2>1 DEF n, Got
  <2>3. /\ Iterated(t, op, size, IF op \in {"write", "pwrite"} THEN size ELSE 0)
        /\ nvf' = nvf
    BY <1>2 DEF NoEffect, lvars
  <2>4. nvf'[t].offset = nvf[t].offset + (IF op = "read" THEN n ELSE 0)
    BY <1>0, <2>2, <2>3
  <2>5. op \notin {"read", "pread"} => op \in {"write", "pwrite"}
    BY DEF Operations
  <2>6. step'[t] = CALL
    BY <2>3 DEF Iterated, Types
  <2>7. n = size => n # 0
    OBVIOUS
  <2> QED
    BY <2>2, <2>3, <2>4, <2>5, <2>6, <2>7 DEF Iterated, n
<1>3. CASE FindChunk(t, op, size) \/ MapChunk(t, op, size)
  <2>1. FOUND # CALL /\ Mapping(Len(maps) + 1) # CALL
    BY DEF FOUND, CALL, Mapping
  <2>2. /\ step[t] = CALL /\ op \in {"read", "pread"}
        /\ nvf' = nvf /\ left' = left /\ offset' = offset /\ errors' = errors
        /\ step'[t] # CALL
    BY <1>3, <2>1 DEF FindChunk, MapChunk, lvars, Types
  <2> QED
    BY <2>2
<1>4. CASE ReturnRead(t, op, size)
  <2> DEFINE isNew == step[t] # FOUND
             mapping == IF isNew THEN step[t] ELSE ChunkAt(t, op)
             tree == WithMapping(heap, nvf[t].root, nvf[t].height, Position(t, op), mapping)
             got == Lib!Bytes(t, Position(t, op), Length(t, op, size), mapping).n
  <2>1. /\ nvf' = [nvf EXCEPT ![t].offset = IF op = "read" THEN @ + got ELSE @,
                              ![t].root = IF isNew THEN tree.root ELSE @,
                              ![t].height = IF isNew THEN tree.height ELSE @]
        /\ Iterated(t, op, size, got)
    BY <1>4 DEF ReturnRead
  <2>2. op \in {"read", "pread"}
    BY <1>4 DEF ReturnRead
  <2>3. got = n
    BY <1>1, <2>2 DEF n, Got, Lib!Bytes
  <2> HIDE DEF got, tree
  <2>4. nvf'[t].offset = nvf[t].offset + (IF op = "read" THEN n ELSE 0)
    BY <1>0, <2>1, <2>3 DEF Types, FileOK
  <2>5. /\ n = size => errors' = errors
        /\ errors' = errors \/ errors' = errors \cup {<<t, size>>}
        /\ left' = [left EXCEPT ![t] = @ - 1] /\ offset' = [offset EXCEPT ![t] = @ + size]
        /\ step'[t] = CALL
    BY <2>1, <2>3 DEF Iterated, Types
  <2> QED
    BY <2>2, <2>4, <2>5 DEF n
<1> QED
  BY <1>2, <1>3, <1>4 DEF Iterate

(* The warm-up reads inside what FILE_SIZE makes of the file. *)
LEMMA WarmPosition ==
    ASSUME MInv, WarmIterate
    PROVE  /\ warm /\ mi \in Threads /\ offset[mi] \in Nat /\ left[mi] \in Nat /\ left[mi] > 0
           /\ left[mi] <= Count(START_SIZE)
           /\ offset[mi] + left[mi] * START_SIZE = StartOffset(mi) + Taken(START_SIZE)
           /\ fops = "read" => nvf[mi].offset \in Nat /\ Behind(nvf[mi].offset, offset[mi])
           /\ offset[mi] + START_SIZE <= FILE_SIZE
           /\ Reading => /\ Position(mi, fops) \in Nat
                         /\ Position(mi, fops) + START_SIZE <= FILE_SIZE
           /\ ~Started => /\ offset[mi] = StartOffset(mi)
                          /\ Reading => Position(mi, fops) = StartOffset(mi)
<1> USE DEF MInv, BInv
<1>1. warm /\ mi \in Threads
  BY PhaseFacts DEF WarmIterate, Types
<1>2. offset[mi] \in Nat /\ left[mi] \in Nat /\ nvf[mi].offset \in Nat
  BY <1>1 DEF Types, FileOK
<1>3. left[mi] > 0
  BY DEF WarmIterate, Iterate
<1>4. /\ offset[mi] + left[mi] * START_SIZE = StartOffset(mi) + Taken(START_SIZE)
      /\ left[mi] <= Count(START_SIZE)
  BY <1>1 DEF WarmPlace
<1>5. /\ offset[mi] + START_SIZE <= FILE_SIZE
      /\ left[mi] = Count(START_SIZE) => offset[mi] = StartOffset(mi)
  BY <1>1, <1>2, <1>3, <1>4, WarmLoop
<1>6. ~Started /\ fops = "read" => nvf[mi].offset = StartOffset(mi)
  BY DEF Started, WarmIterate
<1>7. fops = "read" => Behind(nvf[mi].offset, offset[mi])
  <2>1. CASE Started
    BY <1>1, <2>1 DEF WarmPlace
  <2>2. CASE ~Started
    BY <1>2, <1>5, <1>6, <2>2 DEF Behind, Started
  <2> QED
    BY <2>1, <2>2
<1>8. fops = "read" => nvf[mi].offset <= offset[mi]
  BY <1>2, <1>7 DEF Behind
<1>9. Reading => /\ Position(mi, fops) \in Nat
                 /\ Position(mi, fops) + START_SIZE <= FILE_SIZE
  <2>1. START_SIZE \in Nat /\ FILE_SIZE \in Nat
    BY StartFacts, ShareFacts
  <2> QED
    BY <1>2, <1>5, <1>8, <2>1 DEF Reading, Position
<1>10. ~Started => /\ offset[mi] = StartOffset(mi)
                   /\ Reading => Position(mi, fops) = StartOffset(mi)
  BY <1>5, <1>6 DEF Started, Reading, Position
<1> QED
  BY <1>1, <1>2, <1>3, <1>4, <1>5, <1>7, <1>9, <1>10

(* An iteration of the warm-up takes the loop on, *)
LEMMA WarmPlaceStep ==
    ASSUME MInv, WarmIterate
    PROVE  WarmPlace' /\ AllMapped'
<1> USE DEF MInv, BInv
<1> DEFINE S == START_SIZE
           n == Got(Position(mi, fops), S)
<1>0. Iterate(mi, fops, S) /\ UNCHANGED <<vars, fops, warm>>
  BY DEF WarmIterate
<1>1. /\ warm /\ mi \in Threads /\ offset[mi] \in Nat /\ left[mi] \in Nat /\ left[mi] > 0
      /\ left[mi] <= Count(S)
      /\ offset[mi] + left[mi] * S = StartOffset(mi) + Taken(S)
      /\ fops = "read" => nvf[mi].offset \in Nat /\ Behind(nvf[mi].offset, offset[mi])
      /\ S <= FILE_SIZE
  BY WarmPosition, StartFacts, ShareFacts
<1>2. S \in Nat \ {0} /\ fops \in Operations
  BY StartFacts DEF Types
<1>3. step[mi] # CALL => fops \in {"read", "pread"}
  BY <1>1 DEF WarmPlace, Reading
<1>4. \/ /\ step[mi] = CALL /\ step'[mi] # CALL /\ fops \in {"read", "pread"}
         /\ nvf' = nvf /\ left' = left /\ offset' = offset
      \/ /\ nvf'[mi].offset = nvf[mi].offset + (IF fops = "read" THEN n ELSE 0)
         /\ left' = [left EXCEPT ![mi] = @ - 1]
         /\ offset' = [offset EXCEPT ![mi] = @ + S]
         /\ step'[mi] = CALL
  <2>1. Types
    OBVIOUS
  <2> QED
    BY <1>0, <1>1, <1>2, <1>3, <2>1, LoopMoves
<1>5. UNCHANGED <<mi, pc, mpc, round, warm, fops>>
  BY <1>0 DEF vars
<1>6. AllMapped'
  BY <1>1, <1>5 DEF AllMapped
<1> DEFINE kS == left[mi] * S
<1>7. /\ \A t \in Threads : t > mi => left[t] = Count(S) /\ offset[t] = StartOffset(t)
      /\ offset[mi] + kS = StartOffset(mi) + Taken(S)
      /\ Count(S) \in Nat /\ StartOffset(mi) \in Nat /\ Taken(S) \in Nat
  BY <1>1, <1>2, ShareFacts, CountFits DEF WarmPlace
<1>8. kS \in Nat /\ (left[mi] - 1) * S = kS - S
  BY <1>1, <1>2
<1>9. fops = "read" => Behind(nvf[mi].offset + n, offset[mi] + S)
  BY <1>1, BehindStep DEF Position
<1> HIDE DEF n, kS
<1>10. \A t \in Threads : t > mi => t # mi
  BY <1>1 DEF Threads
<1>11. CASE /\ step'[mi] # CALL /\ fops \in {"read", "pread"}
            /\ nvf' = nvf /\ left' = left /\ offset' = offset
  BY <1>1, <1>5, <1>6, <1>7, <1>11 DEF WarmPlace, Reading, kS
<1>12. CASE /\ nvf'[mi].offset = nvf[mi].offset + (IF fops = "read" THEN n ELSE 0)
            /\ left' = [left EXCEPT ![mi] = @ - 1]
            /\ offset' = [offset EXCEPT ![mi] = @ + S]
            /\ step'[mi] = CALL
  <2>1. left'[mi] = left[mi] - 1 /\ offset'[mi] = offset[mi] + S
        /\ \A t \in Threads \ {mi} : left'[t] = left[t] /\ offset'[t] = offset[t]
    BY <1>1, <1>12 DEF Types
  <2>2. offset'[mi] + left'[mi] * S = StartOffset(mi) + Taken(S)
    BY <1>1, <1>2, <1>7, <1>8, <2>1
  <2>3. left'[mi] <= Count(S)
    BY <1>1, <1>7, <2>1
  <2>4. fops = "read" => Behind(nvf'[mi].offset, offset'[mi])
    BY <1>9, <1>12, <2>1
  <2>5. \A t \in Threads : t > mi => left'[t] = Count(S) /\ offset'[t] = StartOffset(t)
    BY <1>7, <1>10, <2>1
  <2> QED
    BY <1>5, <1>6, <1>12, <2>2, <2>3, <2>4, <2>5 DEF WarmPlace
<1> QED
  BY <1>4, <1>11, <1>12

(* and maps what it reads.                                                 *)
LEMMA WarmTreesStep ==
    ASSUME MInv, WarmIterate
    PROVE  WarmTrees'
<1> USE DEF MInv, BInv
<1> SUFFICES ASSUME WarmsUp PROVE WarmTrees'
  BY DEF WarmTrees, WarmsUp, WarmIterate
<1> DEFINE S == START_SIZE
           p == ReadsAt
           R == Reached
<1>0. /\ Iterate(mi, fops, S) /\ left[mi] > 0
      /\ UNCHANGED <<doorbell, mpc, mi, mround, pc, round, fops, warm>>
  BY DEF WarmIterate, Iterate, vars
<1>00. Reading
  BY DEF WarmsUp, Reading
<1>1. /\ warm /\ mi \in Threads /\ p \in Nat /\ p + S <= FILE_SIZE
      /\ offset[mi] \in Nat /\ offset[mi] + S <= FILE_SIZE /\ left[mi] \in Nat /\ left[mi] <= Count(S)
      /\ offset[mi] + left[mi] * S = StartOffset(mi) + Taken(S)
      /\ ~Started => offset[mi] = StartOffset(mi) /\ p = StartOffset(mi)
      /\ Position(mi, fops) = p
  BY <1>00, WarmPosition DEF ReadsAt, Position
<1>2. S \in Nat \ {0} /\ fops \in Operations /\ StartOffset(mi) \in Nat /\ S <= CHUNK
  BY <1>1, StartFacts, ShareFacts DEF Types
<1>3. PICK node : Forest(heap, nvf, node)
  BY <1>1 DEF WarmTrees
<1>4. /\ \A t \in Threads : t < mi => CoveredIn(heap, nvf, t, StartOffset(t) + Enough)
      /\ Started => CoveredIn(heap, nvf, mi, R)
      /\ step[mi] = FOUND => FoundIn(heap, nvf, mi, p)
      /\ IF step[mi] \in {CALL, FOUND} THEN mmap_count = Len(maps)
         ELSE reg[mi] = mmap_count /\ mmap_count + 1 = Len(maps)
  BY <1>1 DEF WarmTrees, CoveredTo
<1>5. ChunkAt(mi, fops) = LookupIn(heap, nvf, mi, p)
  BY <1>1 DEF ChunkAt, LookupIn
<1>6. CoveredIn(heap, nvf, mi, R)
  <2>1. CASE ~Started
    <3>1. R <= StartOffset(mi)
      <4>1. fops = "read" => R = p
        BY DEF Reached, ReadsAt
      <4>2. fops # "read" => R = offset[mi] - S + 1
        BY DEF Reached
      <4> HIDE DEF R, p, S
      <4> QED
        BY <1>1, <1>2, <2>1, <4>1, <4>2
    <3>2. R \in Int
      BY <1>1, <1>2 DEF Reached, ReadsAt
    <3> HIDE DEF R
    <3> QED
      BY <1>2, <3>1, <3>2 DEF CoveredIn
  <2> QED
    BY <1>4, <2>1
<1>7. CALL # FOUND /\ CALL \notin Mappings /\ FOUND \notin Mappings /\ NULL \notin Mappings
  BY WordsDiffer DEF CALL, FOUND, Mappings, Mapping
<1>8. S <= FILE_SIZE /\ FILE_SIZE \in Nat /\ FILE_LENGTH \in Nat
      /\ (fops # "read" => fops = "pread" /\ FILE_SIZE <= FILE_LENGTH)
  BY <1>1, <1>2, ShareFacts, BenchAssumption DEF WarmsUp
<1> HIDE DEF p, S, R
<1>12. CASE NoEffect(mi, fops, S)
  <2>1. Length(mi, fops, S) = 0
    BY <1>00, <1>12 DEF NoEffect, Reading
  <2>2. p >= FILE_LENGTH
    BY <1>1, <1>2, <1>8, <2>1, ReadsInFile DEF S
  <2>3. fops = "read"
    BY <1>1, <1>2, <1>8, <2>2
  <2>4. /\ heap' = heap /\ nvf' = nvf /\ maps' = maps /\ mmap_count' = mmap_count
        /\ step[mi] = CALL /\ step'[mi] = CALL
    BY <1>1, <1>12 DEF NoEffect, Iterated, lvars, Types
  <2>5. /\ \E node1 : Forest(heap', nvf', node1)
        /\ \A t \in Threads, q \in Nat : FoundIn(heap', nvf', t, q) = FoundIn(heap, nvf, t, q)
    BY <1>3, <2>4
  <2>6. /\ \A t \in Threads : t < mi => CoveredIn(heap', nvf', t, StartOffset(t) + Enough)
        /\ CoveredIn(heap', nvf', mi, R)
    BY <1>1, <1>4, <1>6, <2>4, <2>5 DEF CoveredIn
  <2>7. Reached' = R
    BY <1>0, <2>3, <2>4 DEF Reached, R
  <2>8. mmap_count' = Len(maps')
    BY <1>4, <2>4
  <2> QED
    BY <1>0, <1>1, <1>7, <2>4, <2>5, <2>6, <2>7, <2>8 DEF WarmTrees, CoveredTo
<1>9. CASE FindChunk(mi, fops, S)
  <2>1. /\ heap' = heap /\ nvf' = nvf /\ maps' = maps /\ mmap_count' = mmap_count
        /\ offset' = offset /\ step'[mi] = FOUND /\ step[mi] = CALL /\ FoundIn(heap, nvf, mi, p)
    BY <1>1, <1>5, <1>9 DEF FindChunk, lvars, Types, FoundIn
  <2>2. /\ \E node1 : Forest(heap', nvf', node1)
        /\ \A t \in Threads, q \in Nat : FoundIn(heap', nvf', t, q) = FoundIn(heap, nvf, t, q)
    BY <1>3, <2>1
  <2>3. /\ \A t \in Threads : t < mi => CoveredIn(heap', nvf', t, StartOffset(t) + Enough)
        /\ CoveredIn(heap', nvf', mi, R) /\ FoundIn(heap', nvf', mi, p)
    BY <1>1, <1>4, <1>6, <2>1, <2>2 DEF CoveredIn
  <2>4. mmap_count' = Len(maps')
    BY <1>4, <2>1
  <2> QED
    <3>1. ReadsAt' = p /\ Reached' = R
      BY <1>0, <2>1 DEF ReadsAt, Reached, p, R
    <3> QED
      BY <1>0, <1>1, <2>1, <2>2, <2>3, <2>4, <3>1 DEF WarmTrees, CoveredTo
<1>10. CASE MapChunk(mi, fops, S)
  <2>1. /\ heap' = heap /\ nvf' = nvf /\ mmap_count' = mmap_count
        /\ offset' = offset /\ step'[mi] = Mapping(Len(maps) + 1) /\ step[mi] = CALL
        /\ reg'[mi] = mmap_count /\ Len(maps') = Len(maps) + 1
    BY <1>1, <1>10 DEF MapChunk, Types
  <2>2. /\ \E node1 : Forest(heap', nvf', node1)
        /\ \A t \in Threads, q \in Nat : FoundIn(heap', nvf', t, q) = FoundIn(heap, nvf, t, q)
    BY <1>3, <2>1
  <2>3. /\ \A t \in Threads : t < mi => CoveredIn(heap', nvf', t, StartOffset(t) + Enough)
        /\ CoveredIn(heap', nvf', mi, R)
    BY <1>1, <1>4, <1>6, <2>1, <2>2 DEF CoveredIn
  <2>4. step'[mi] \notin {CALL, FOUND}
    BY <2>1 DEF CALL, FOUND, Mapping
  <2>5. reg'[mi] = mmap_count' /\ mmap_count' + 1 = Len(maps')
    BY <1>4, <2>1
  <2> QED
    <3>1. Reached' = R
      BY <1>0, <2>1 DEF Reached, R
    <3>2. step'[mi] # FOUND
      BY <2>4
    <3> QED
      BY <1>0, <1>1, <2>1, <2>2, <2>3, <2>4, <2>5, <3>1, <3>2 DEF WarmTrees, CoveredTo
<1>11. CASE ReturnRead(mi, fops, S)
  <2> DEFINE isNew == step[mi] # FOUND
             mapping == IF isNew THEN step[mi] ELSE ChunkAt(mi, fops)
             tree == WithMapping(heap, nvf[mi].root, nvf[mi].height, p, mapping)
             n == Lib!Bytes(mi, Position(mi, fops), Length(mi, fops, S), mapping).n
  <2>1. /\ nvf' = [nvf EXCEPT ![mi].offset = IF fops = "read" THEN @ + n ELSE @,
                              ![mi].root = IF isNew THEN tree.root ELSE @,
                              ![mi].height = IF isNew THEN tree.height ELSE @]
        /\ heap' = (IF isNew THEN tree.heap ELSE heap)
        /\ Iterated(mi, fops, S, n) /\ Counted(mi, isNew) /\ step[mi] # CALL /\ maps' = maps
    BY <1>1, <1>11 DEF ReturnRead
  <2>2. fops = "read" => n \in Nat /\ n <= CHUNK - (p % CHUNK)
    <3>1. n \in 0 .. Length(mi, fops, S) /\ Length(mi, fops, S) \in Nat
      <4>1. Length(mi, fops, S) \in 0 .. S
        BY <1>1, <1>2, LengthFacts DEF Length, Types, FileOK
      <4>2. n \in 0 .. Length(mi, fops, S)
        <5> HIDE DEF mapping
        <5> QED
          BY <1>1, <1>2, <4>1, BytesCount
      <4> QED
        BY <1>2, <4>1, <4>2
    <3>2. n = IF CHUNK - (p % CHUNK) > Length(mi, fops, S) THEN Length(mi, fops, S)
              ELSE CHUNK - (p % CHUNK)
      BY <1>1 DEF Lib!Bytes
    <3>3. CHUNK \in Nat /\ p % CHUNK \in Nat
      BY <1>1, ChunkAssumption, Divide
    <3> HIDE DEF n
    <3> QED
      BY <3>1, <3>2, <3>3
  <2> HIDE DEF n, tree, mapping
  <2>3. /\ \A u \in Threads \ {mi} : nvf'[u] = nvf[u]
        /\ nvf'[mi].root = (IF isNew THEN tree.root ELSE nvf[mi].root)
        /\ nvf'[mi].height = (IF isNew THEN tree.height ELSE nvf[mi].height)
    BY <1>1, <2>1 DEF Types, FileOK
  <2>4. /\ step'[mi] = CALL /\ offset'[mi] = offset[mi] + S
        /\ fops = "read" => nvf'[mi].offset = p + n /\ p = nvf[mi].offset
        /\ fops = "pread" => p = offset[mi]
    BY <1>1, <2>1 DEF Iterated, Types, FileOK, p, ReadsAt
  <2>5. mmap_count' = Len(maps')
    BY <1>4, <2>1 DEF Counted
  <2>6. /\ (\E node1 : Forest(heap', nvf', node1))
        /\ \A t \in Threads, q \in Nat : FoundIn(heap, nvf, t, q) => FoundIn(heap', nvf', t, q)
        /\ \A q \in Nat : q \div CHUNK = p \div CHUNK => FoundIn(heap', nvf', mi, q)
    <3>1. CASE isNew
      <4>1. mapping \in Mappings /\ mapping # NULL
        BY <1>1, <1>7, <2>1, <3>1 DEF Types, mapping
      <4>2. /\ heap' = WithMapping(heap, nvf[mi].root, nvf[mi].height, p, mapping).heap
            /\ nvf'[mi].root = WithMapping(heap, nvf[mi].root, nvf[mi].height, p, mapping).root
            /\ nvf'[mi].height = WithMapping(heap, nvf[mi].root, nvf[mi].height, p, mapping).height
        BY <2>1, <2>3, <3>1 DEF tree
      <4>3. /\ \E node2 : Forest(heap', nvf', node2)
            /\ \A u \in Threads, q \in Nat :
                   LookupIn(heap', nvf', u, q) =
                       IF u = mi /\ q \div CHUNK = p \div CHUNK THEN mapping
                       ELSE LookupIn(heap, nvf, u, q)
        BY <1>1, <1>3, <2>3, <4>1, <4>2, ForestGrows
      <4> QED
        <5>1. \A u \in Threads, q \in Nat : FoundIn(heap, nvf, u, q) => FoundIn(heap', nvf', u, q)
          BY <4>1, <4>3 DEF FoundIn
        <5>2. \A q \in Nat : q \div CHUNK = p \div CHUNK => FoundIn(heap', nvf', mi, q)
          BY <1>1, <4>1, <4>3 DEF FoundIn
        <5> QED
          BY <4>3, <5>1, <5>2
    <3>2. CASE ~isNew
      <4>1. /\ heap' = heap
            /\ \A u \in Threads : nvf'[u].root = nvf[u].root /\ nvf'[u].height = nvf[u].height
        BY <1>1, <2>1, <2>3, <3>2
      <4>2. Forest(heap', nvf', node)
        BY <1>3, <4>1 DEF Forest
      <4>3. \A u \in Threads, q \in Nat : LookupIn(heap', nvf', u, q) = LookupIn(heap, nvf, u, q)
        BY <4>1 DEF LookupIn
      <4>4. FoundIn(heap, nvf, mi, p)
        BY <1>4, <3>2
      <4>5. \A q \in Nat : q \div CHUNK = p \div CHUNK =>
                LookupIn(heap, nvf, mi, q) = LookupIn(heap, nvf, mi, p)
        BY <1>1, <1>3, SameChunk
      <4> QED
        <5>1. \A u \in Threads, q \in Nat : FoundIn(heap, nvf, u, q) => FoundIn(heap', nvf', u, q)
          BY <4>3 DEF FoundIn
        <5>2. \A q \in Nat : q \div CHUNK = p \div CHUNK => FoundIn(heap', nvf', mi, q)
          BY <1>1, <4>3, <4>4, <4>5 DEF FoundIn
        <5> QED
          BY <4>2, <5>1, <5>2
    <3> QED
      BY <3>1, <3>2
  <2>7. \A t \in Threads : t < mi => CoveredIn(heap', nvf', t, StartOffset(t) + Enough)
    BY <1>4, <2>6 DEF CoveredIn
  <2>8. ASSUME NEW q \in Nat, NEW j \in Nat, q \div CHUNK = j \div CHUNK,
               FoundIn(heap', nvf', mi, j)
        PROVE  FoundIn(heap', nvf', mi, q)
    <3>1. PICK node1 : Forest(heap', nvf', node1)
      BY <2>6
    <3>2. /\ LookupIn(heap', nvf', mi, q) = Content(heap', node1[mi], q \div CHUNK)
          /\ LookupIn(heap', nvf', mi, j) = Content(heap', node1[mi], j \div CHUNK)
      BY <1>1, <3>1, SameChunk
    <3> QED
      BY <2>8, <3>2 DEF FoundIn
  <2>9. CoveredIn(heap', nvf', mi, Reached')
    <3> SUFFICES ASSUME NEW q \in Nat, StartOffset(mi) <= q, q < Reached', q < FILE_LENGTH
                 PROVE  FoundIn(heap', nvf', mi, q)
      BY <1>0 DEF CoveredIn
    <3>1. q < R => FoundIn(heap', nvf', mi, q)
      BY <1>1, <1>6, <2>6 DEF CoveredIn
    <3>2. CASE fops = "read"
      <4>1. R = p /\ Reached' = p + n
        BY <1>0, <2>4, <3>2 DEF R, Reached
      <4>2. n \in Nat /\ n <= CHUNK - (p % CHUNK)
        BY <2>2, <3>2
      <4>3. CASE q >= p
        <5>1. q < p + (CHUNK - (p % CHUNK))
          BY <1>1, <4>1, <4>2, ChunkAssumption, Divide
        <5>2. q \div CHUNK = p \div CHUNK
          BY <1>1, <4>3, <5>1, ToChunkEnd
        <5> QED
          BY <2>6, <5>2
      <4> QED
        BY <1>1, <3>1, <4>1, <4>3
    <3>3. CASE fops = "pread"
      <4> DEFINE o == offset[mi]
      <4>1. p = o /\ R = o - S + 1 /\ Reached' = o + S - S + 1
        <5>1. fops # "read" /\ fops' # "read" /\ mi' = mi
          BY <1>0, <3>3
        <5>2. p = o /\ R = o - S + 1
          BY <2>4, <3>3, <5>1 DEF R, Reached, S
        <5>3. Reached' = offset'[mi] - S + 1
          BY <5>1 DEF Reached, S
        <5> QED
          BY <1>1, <1>2, <2>4, <5>2, <5>3
      <4>2. o \in Nat /\ q <= o
        BY <1>1, <1>2, <4>1
      <4>3. CASE left[mi] = Count(S)
        <5>1. o = StartOffset(mi)
          BY <1>1, <4>3, WarmLoop DEF S
        <5>2. q = p
          BY <1>2, <4>1, <4>2, <5>1
        <5> QED
          BY <2>6, <5>2
      <4>4. CASE left[mi] # Count(S)
        <5>1. StartOffset(mi) + S <= o
          BY <1>1, <4>4, WarmLoop DEF S
        <5> DEFINE j == o - S
        <5>2. j \in Nat /\ StartOffset(mi) <= j /\ j < R /\ o <= j + CHUNK
              /\ j < FILE_LENGTH
          BY <1>1, <1>2, <1>8, <3>3, <4>1, <4>2, <5>1, ChunkAssumption
        <5>3. FoundIn(heap', nvf', mi, j)
          BY <1>1, <1>6, <2>6, <5>2 DEF CoveredIn
        <5>4. CASE q >= R
          <6>1. j <= q
            BY <1>2, <4>1, <4>2, <5>2, <5>4
          <6>2. q \div CHUNK = p \div CHUNK \/ q \div CHUNK = j \div CHUNK
            <7> HIDE DEF j
            <7> QED
              BY <4>1, <4>2, <5>2, <6>1, BackOneChunk
          <6> HIDE DEF j
          <6> QED
            BY <2>6, <2>8, <5>2, <5>3, <6>2
        <5> QED
          BY <1>2, <3>1, <4>1, <4>2, <5>4
      <4> QED
        BY <4>3, <4>4
    <3> QED
      BY <1>00, <3>2, <3>3 DEF Reading
  <2> QED
    BY <1>0, <1>1, <1>7, <2>4, <2>5, <2>6, <2>7, <2>9 DEF WarmTrees, CoveredTo
<1> QED
  BY <1>0, <1>9, <1>10, <1>11, <1>12 DEF Iterate

(* A mapping that is there stays there while the trees do not change. *)
LEMMA CoverStays ==
    ASSUME NEW hp, NEW files, NEW files2, NEW t, NEW end,
           files2[t].root = files[t].root, files2[t].height = files[t].height,
           CoveredIn(hp, files, t, end)
    PROVE  CoveredIn(hp, files2, t, end)
BY DEF CoveredIn, FoundIn, LookupIn

(* An iteration of a thread stays where its share is mapped, and maps      *)
(* nothing.                                                                *)
LEMMA TransferStep ==
    ASSUME MInv, NEW t \in Threads, BIterate(t)
    PROVE  WarmPlace' /\ WarmTrees' /\ AllMapped'
<1> USE DEF MInv, BInv
<1> DEFINE S == Size(round[t])
           a == nvf[t].offset
           k == left[t]
           b == Taken(S)
           b0 == Taken(START_SIZE)
<1>0. /\ pc[t] = "transfer" /\ Iterate(t, "read", S) /\ k > 0
      /\ UNCHANGED <<doorbell, mpc, mi, mround, pc, round, fops, warm>>
  BY DEF BIterate, Iterate, vars, thread_fops
<1>1. ~warm /\ mpc \in {"ring", "poll"} /\ round[t] \in 1 .. ROUNDS
  BY <1>0, PhaseFacts DEF Types
<1>2. S \in Nat \ {0} /\ START_SIZE <= S /\ b <= b0
  BY <1>1, SizeFacts, TakenLess, RoundsAssumption
<1>3. a \in Nat /\ k \in Nat
  BY DEF Types, FileOK
<1>4. a + k * S <= StartOffset(t) + b /\ StartOffset(t) <= a
  BY <1>0 DEF InShare
<1>5. /\ StartOffset(t) \in Nat /\ b \in Nat /\ b0 \in Nat /\ START_SIZE \in Nat
      /\ Position(t, "read") = a /\ "read" \in Operations
  BY <1>2, ShareFacts, CountFits, StartFacts DEF Position, Operations
<1>11. b <= Share /\ Share \in Nat /\ StartOffset(t) + Share <= FILE_SIZE /\ FILE_SIZE \in Nat
  BY <1>2, ShareFacts, CountFits
<1> HIDE DEF S, k, b, a
<1>10. S <= FILE_SIZE
  <2>1. k * S = S + (k - 1) * S /\ (k - 1) * S \in Nat
    BY <1>0, <1>2, <1>3
  <2> QED
    BY <1>2, <1>3, <1>4, <1>5, <1>11, <2>1
<1>6. a < StartOffset(t) + Enough /\ StartOffset(t) + Enough \in Int
  <2>1. k * S = S + (k - 1) * S /\ (k - 1) * S \in Nat
    BY <1>0, <1>2, <1>3
  <2>2. Enough = b0 - START_SIZE + 1
    BY DEF Enough
  <2> HIDE DEF b0
  <2> QED
    BY <1>2, <1>3, <1>4, <1>5, <2>1, <2>2
<1>7. \A u \in Threads \ {t} : nvf'[u] = nvf[u] /\ step'[u] = step[u]
  BY <1>0, <1>2, <1>5, IterateMoves
<1>8. WarmPlace' /\ WarmTrees'
  BY <1>0, <1>1 DEF WarmPlace, WarmTrees
<1>9. AllMapped'
  <2> SUFFICES ASSUME WarmsUp PROVE AllMapped'
    BY <1>0 DEF AllMapped, WarmsUp
  <2>1. /\ mmap_count = Len(maps) /\ \A u \in Threads : step[u] \in {CALL, FOUND}
        /\ \A u \in Threads : CoveredIn(heap, nvf, u, StartOffset(u) + Enough)
    BY <1>1 DEF AllMapped, CoveredTo
  <2>2. a < FILE_LENGTH => FoundIn(heap, nvf, t, a)
    BY <1>3, <1>4, <1>6, <2>1 DEF CoveredIn
  <2>3. Length(t, "read", S) > 0 => ChunkAt(t, "read") # NULL
    <3>1. Length(t, "read", S) > 0 => a < FILE_LENGTH
      BY <1>2, <1>5, <1>10, ReadsInFile
    <3> QED
      BY <1>5, <2>2, <3>1 DEF ChunkAt, FoundIn, LookupIn
  <2>4. /\ heap' = heap /\ maps' = maps /\ mmap_count' = mmap_count /\ step'[t] \in {CALL, FOUND}
        /\ nvf'[t].root = nvf[t].root /\ nvf'[t].height = nvf[t].height
    <3>1. CASE FindChunk(t, "read", S)
      BY <3>1 DEF FindChunk, lvars, Types
    <3>2. CASE MapChunk(t, "read", S)
      BY <2>3, <3>2 DEF MapChunk
    <3>3. CASE ReturnRead(t, "read", S)
      <4> DEFINE n == Lib!Bytes(t, Position(t, "read"), Length(t, "read", S), ChunkAt(t, "read")).n
      <4>1. step[t] = FOUND
        BY <2>1, <3>3 DEF ReturnRead
      <4> HIDE DEF n
      <4>2. /\ nvf' = [nvf EXCEPT ![t].offset = @ + n, ![t].root = @, ![t].height = @]
            /\ heap' = heap /\ maps' = maps /\ mmap_count' = mmap_count
            /\ step' = [step EXCEPT ![t] = CALL]
        BY <3>3, <4>1 DEF ReturnRead, Counted, Iterated, n
      <4>3. nvf'[t].root = nvf[t].root /\ nvf'[t].height = nvf[t].height
        BY <4>2 DEF Types, FileOK
      <4>4. step'[t] = CALL
        BY <4>2 DEF Types
      <4> QED
        BY <4>2, <4>3, <4>4
    <3>4. CASE NoEffect(t, "read", S)
      BY <3>4 DEF NoEffect, Iterated, lvars, Types
    <3> QED
      BY <1>0, <3>1, <3>2, <3>3, <3>4 DEF Iterate
  <2>5. ASSUME NEW u \in Threads
        PROVE  CoveredIn(heap', nvf', u, StartOffset(u) + Enough) /\ step'[u] \in {CALL, FOUND}
    <3>1. nvf'[u].root = nvf[u].root /\ nvf'[u].height = nvf[u].height
      BY <1>7, <2>4
    <3>2. CoveredIn(heap, nvf', u, StartOffset(u) + Enough)
      BY <2>1, <3>1, CoverStays
    <3>3. step'[u] \in {CALL, FOUND}
      BY <1>7, <2>1, <2>4
    <3> QED
      BY <2>4, <3>2, <3>3
  <2> QED
    BY <2>1, <2>4, <2>5 DEF AllMapped, CoveredTo
<1> QED
  BY <1>8, <1>9

(* lseek1 leaves the trees alone.                                          *)
LEMMA SeekKeepsTrees ==
    ASSUME Types, NEW t \in Threads, NEW at, Seek(t, at)
    PROVE  \A u \in Threads : nvf'[u].root = nvf[u].root /\ nvf'[u].height = nvf[u].height
BY DEF Types, FileOK, Seek

(* The end of a share's warm-up: it is mapped, and the next is ahead.      *)
LEMMA WarmNextStep ==
    ASSUME MInv, WarmNext
    PROVE  WarmPlace' /\ WarmTrees' /\ AllMapped'
<1> USE DEF MInv, BInv
<1>0. /\ warm /\ left[mi] = 0 /\ warm' = (mi + 1 # N)
      /\ mi' = (IF mi + 1 = N THEN 0 ELSE mi + 1)
      /\ UNCHANGED <<mpc, pc, round, fops, nvf, heap, maps, mmap_count, left, offset, step, reg,
                    errors>>
  BY DEF WarmNext, lvars, tvars
<1>1. /\ mi \in Threads /\ mpc = "create" /\ \A t \in Threads : pc[t] # "transfer"
  BY <1>0, PhaseFacts DEF Types, Phase, NotBegun
<1>2. START_SIZE \in Nat \ {0} /\ Count(START_SIZE) \in Nat
  BY StartFacts, ShareFacts
<1>3. \A t \in Threads : step[t] = CALL
  BY <1>0 DEF InRead
<1>4. WarmsUp => CoveredTo(mi, StartOffset(mi) + Enough)
  <2> SUFFICES ASSUME WarmsUp PROVE CoveredIn(heap, nvf, mi, StartOffset(mi) + Enough)
    BY DEF CoveredTo
  <2> DEFINE S == START_SIZE
             b == Taken(S)
             R == Reached
  <2>1. offset[mi] \in Nat /\ left[mi] \in Nat /\ nvf[mi].offset \in Nat
    BY <1>1 DEF Types, FileOK
  <2>2. StartOffset(mi) \in Nat /\ b \in Nat /\ Enough = b - S + 1
    BY <1>1, <1>2, ShareFacts, CountFits DEF Enough
  <2>3. CASE Count(S) = 0
    <3>1. b = 0
      BY <1>2, <2>3 DEF Taken
    <3>2. StartOffset(mi) + Enough <= StartOffset(mi) /\ StartOffset(mi) + Enough \in Int
      BY <1>2, <2>2, <3>1
    <3> DEFINE e == StartOffset(mi) + Enough
    <3>3. \A q \in Nat : ~(StartOffset(mi) <= q /\ q < e)
      <4>1. e \in Int /\ e <= StartOffset(mi)
        BY <3>2
      <4> HIDE DEF e
      <4> QED
        BY <2>2, <4>1
    <3> QED
      BY <3>3 DEF CoveredIn
  <2>4. CASE Count(S) # 0
    <3>1. Started
      BY <1>0, <2>4 DEF Started
    <3>2. offset[mi] = StartOffset(mi) + b
      <4>1. /\ offset[mi] + left[mi] * S = StartOffset(mi) + b
            /\ left[mi] <= Count(S)
        BY <1>0 DEF WarmPlace
      <4> QED
        BY <1>0, <1>1, <2>1, <4>1, WarmLoop
    <3>3. CoveredIn(heap, nvf, mi, R)
      BY <1>0, <3>1 DEF WarmTrees, CoveredTo
    <3>4. R \in Int /\ StartOffset(mi) + Enough \in Int
          /\ (StartOffset(mi) + Enough <= R \/ FILE_LENGTH <= R)
      <4>1. CASE fops = "read"
        <5>1. R = nvf[mi].offset
          BY <4>1 DEF Reached
        <5>2. Behind(nvf[mi].offset, offset[mi])
          BY <1>0, <3>1, <4>1 DEF WarmPlace
        <5>3. offset[mi] < nvf[mi].offset + S \/ FILE_LENGTH <= nvf[mi].offset
          BY <1>2, <2>1, <5>2 DEF Behind
        <5> HIDE DEF R, S, b
        <5> QED
          BY <1>2, <2>1, <2>2, <3>2, <5>1, <5>3 DEF S
      <4>2. CASE fops # "read"
        <5>1. R = offset[mi] - S + 1
          BY <4>2 DEF Reached
        <5> HIDE DEF R, S, b
        <5> QED
          BY <1>2, <2>1, <2>2, <3>2, <5>1 DEF S
      <4> QED
        BY <4>1, <4>2
    <3> DEFINE e == StartOffset(mi) + Enough
    <3>5. \A q \in Nat : q < e /\ q < FILE_LENGTH => q < R
      <4>1. R \in Int /\ e \in Int /\ (e <= R \/ FILE_LENGTH <= R) /\ FILE_LENGTH \in Nat
        BY <3>4, BenchAssumption
      <4> HIDE DEF R, e
      <4> QED
        BY <4>1
    <3> HIDE DEF R
    <3> QED
      BY <3>3, <3>5 DEF CoveredIn
  <2> QED
    BY <2>3, <2>4
<1>5. \A t \in Threads : t > mi => left[t] = Count(START_SIZE) /\ offset[t] = StartOffset(t)
  BY <1>0 DEF WarmPlace
<1>6. WarmsUp => /\ \A t \in Threads : t < mi + 1 => CoveredTo(t, StartOffset(t) + Enough)
                 /\ mmap_count = Len(maps)
  <2>1. WarmsUp => /\ \A t \in Threads : t < mi => CoveredTo(t, StartOffset(t) + Enough)
                   /\ CoveredTo(mi, StartOffset(mi) + Enough)
                   /\ mmap_count = Len(maps)
    BY <1>0, <1>1, <1>3, <1>4 DEF WarmTrees
  <2> QED
    BY <1>1, <2>1, ThreadsFacts
<1>7. WarmsUp' = WarmsUp /\ \A t, e : CoveredTo(t, e) = CoveredIn(heap', nvf', t, e)
  BY <1>0 DEF WarmsUp, CoveredTo
<1>8. CASE mi + 1 # N
  <2>1. mi' \in Threads /\ mi' = mi + 1 /\ warm'
    BY <1>0, <1>1, <1>8, ThreadsFacts
  <2>2. \A t \in Threads : t > mi => left[t] = Count(START_SIZE) /\ offset[t] = StartOffset(t)
    BY <1>5
  <2>3. \A t \in Threads : t > mi + 1 => t > mi
    BY <1>1 DEF Threads
  <2>4. mi + 1 > mi
    BY <1>1 DEF Threads
  <2>5. left'[mi'] = Count(START_SIZE) /\ offset'[mi'] = StartOffset(mi') /\ step'[mi'] = CALL
    BY <1>0, <1>3, <2>1, <2>2, <2>4
  <2>6. WarmPlace'
    <3>1. Count(START_SIZE) * START_SIZE = Taken(START_SIZE)
      BY DEF Taken
    <3>2. \A t \in Threads : t > mi' => left'[t] = Count(START_SIZE) /\ offset'[t] = StartOffset(t)
      BY <1>0, <2>1, <2>2, <2>3
    <3>3. offset'[mi'] + left'[mi'] * START_SIZE = StartOffset(mi') + Taken(START_SIZE)
      BY <2>5, <3>1
    <3>4. left'[mi'] <= Count(START_SIZE)
      BY <1>2, <2>5
    <3>5. ~Started'
      BY <2>5 DEF Started
    <3> QED
      BY <2>5, <3>2, <3>3, <3>4, <3>5 DEF WarmPlace
  <2>7. WarmTrees'
    <3> SUFFICES ASSUME WarmsUp PROVE WarmTrees'
      BY <1>7 DEF WarmTrees
    <3>1. \E node : Forest(heap', nvf', node)
      BY <1>0 DEF WarmTrees
    <3>2. \A t \in Threads : t < mi' => CoveredIn(heap', nvf', t, StartOffset(t) + Enough)
      BY <1>6, <1>7, <2>1
    <3>3. ~Started'
      BY <2>5 DEF Started
    <3>4. step'[mi'] \in {CALL, FOUND} /\ step'[mi'] # FOUND
      BY <2>5 DEF CALL, FOUND
    <3>5. mmap_count' = Len(maps')
      BY <1>0, <1>6
    <3> QED
      BY <2>5, <3>1, <3>2, <3>3, <3>4, <3>5 DEF WarmTrees, CoveredTo
  <2>8. AllMapped'
    BY <2>1 DEF AllMapped
  <2> QED
    BY <2>6, <2>7, <2>8
<1>9. CASE mi + 1 = N
  <2>1. ~warm'
    BY <1>0, <1>9
  <2>2. WarmPlace' /\ WarmTrees'
    BY <2>1 DEF WarmPlace, WarmTrees
  <2>3. \A t \in Threads : t < mi + 1
    BY <1>9, NAssumption DEF Threads
  <2>4. WarmsUp => \A t \in Threads : CoveredIn(heap', nvf', t, StartOffset(t) + Enough)
    BY <1>6, <1>7, <2>3
  <2>5. AllMapped'
    BY <1>0, <1>3, <1>6, <1>7, <2>4 DEF AllMapped, CoveredTo
  <2> QED
    BY <2>2, <2>5
<1> QED
  BY <1>8, <1>9

(* A step of main or of a thread that makes no read leaves what is mapped. *)
LEMMA CalmStep ==
    ASSUME MInv, ~warm, UNCHANGED <<warm, fops, maps, mmap_count, step>>,
           mpc' \notin {"join", "done"} =>
               /\ mpc \notin {"join", "done"} /\ heap' = heap
               /\ \A t \in Threads : nvf'[t].root = nvf[t].root /\ nvf'[t].height = nvf[t].height
    PROVE  WarmPlace' /\ WarmTrees' /\ AllMapped'
<1> USE DEF MInv
<1>1. WarmPlace' /\ WarmTrees'
  BY DEF WarmPlace, WarmTrees
<1>2. AllMapped'
  <2> SUFFICES ASSUME WarmsUp PROVE AllMapped'
    BY DEF AllMapped, WarmsUp
  <2>1. mmap_count = Len(maps) /\ \A t \in Threads : step[t] \in {CALL, FOUND}
    BY DEF AllMapped
  <2>2. ASSUME mpc' \notin {"join", "done"}, NEW t \in Threads
        PROVE  CoveredIn(heap', nvf', t, StartOffset(t) + Enough)
    <3>1. CoveredIn(heap, nvf, t, StartOffset(t) + Enough)
      BY <2>2 DEF AllMapped, CoveredTo
    <3>2. heap' = heap /\ nvf'[t].root = nvf[t].root /\ nvf'[t].height = nvf[t].height
      BY <2>2
    <3>3. CoveredIn(heap, nvf', t, StartOffset(t) + Enough)
      BY <3>1, <3>2, CoverStays
    <3> QED
      BY <3>2, <3>3
  <2> QED
    BY <2>1, <2>2 DEF AllMapped, CoveredTo
<1> QED
  BY <1>1, <1>2

(* MInv is inductive.                                                      *)
LEMMA MStep == MInv /\ [BNext]_bvars => MInv'
<1> SUFFICES ASSUME MInv, [BNext]_bvars
             PROVE  WarmPlace' /\ WarmTrees' /\ AllMapped'
  BY BStep DEF MInv
<1> USE DEF MInv, BInv
<1>1. mi \in Threads
  BY PhaseFacts DEF Types
<1>2. CASE WarmIterate
  BY <1>2, WarmPlaceStep, WarmTreesStep
<1>3. CASE WarmNext
  BY <1>3, WarmNextStep
<1>4. ASSUME NEW t \in Threads, BIterate(t)
      PROVE  WarmPlace' /\ WarmTrees' /\ AllMapped'
  BY <1>4, TransferStep
<1>5. CASE WarmSeek
  <2>1. /\ warm /\ step[mi] = CALL /\ left[mi] = Count(START_SIZE) /\ Seek(mi, StartOffset(mi))
        /\ UNCHANGED <<mi, heap, maps, mmap_count, left, offset, step, reg, fops, warm>>
    BY <1>5 DEF WarmSeek, vars, tvars
  <2>2. \A u \in Threads : nvf'[u].root = nvf[u].root /\ nvf'[u].height = nvf[u].height
    <3>1. Types /\ StartOffset(mi) \in Nat
      BY <1>1, ShareFacts
    <3> QED
      BY <1>1, <2>1, <3>1, SeekKeepsTrees
  <2>3. ~Started' /\ AllMapped'
    BY <2>1 DEF Started, AllMapped
  <2>4. WarmPlace'
    BY <2>1, <2>3 DEF WarmPlace
  <2>5. WarmTrees'
    <3> SUFFICES ASSUME WarmsUp PROVE WarmTrees'
      BY <2>1 DEF WarmTrees, WarmsUp
    <3>1. PICK node : Forest(heap, nvf, node)
      BY <2>1 DEF WarmTrees
    <3>2. Forest(heap, nvf', node)
      BY <2>2, <3>1 DEF Forest
    <3>3. /\ \A t \in Threads : t < mi => CoveredIn(heap, nvf, t, StartOffset(t) + Enough)
          /\ mmap_count = Len(maps)
      BY <2>1 DEF WarmTrees, CoveredTo
    <3>4. \A t \in Threads : t < mi => CoveredIn(heap, nvf', t, StartOffset(t) + Enough)
      BY <2>2, <3>3, CoverStays
    <3>5. CALL # FOUND
      BY DEF CALL, FOUND
    <3> QED
      BY <2>1, <2>3, <3>2, <3>3, <3>4, <3>5 DEF WarmTrees, CoveredTo
  <2> QED
    BY <2>3, <2>4, <2>5
<1>6. CASE BMain /\ ~(WarmSeek \/ WarmIterate \/ WarmNext)
  <2>0. ~warm /\ UNCHANGED <<warm, fops, maps, mmap_count, step>>
    BY <1>6 DEF BMain, tvars, lvars
  <2>1. CASE CreateThread /\ UNCHANGED lvars
    <3>1. mpc = "create" /\ nvf' = nvf /\ heap' = heap
      BY <2>1 DEF CreateThread, ForEach, lvars
    <3> QED
      BY <2>0, <3>1, CalmStep
  <2>2. CASE PrepareFile /\ Seek(mi, 0) /\ heap' = heap
    <3>1. mpc = "prepare"
      BY <2>2 DEF PrepareFile, ForEach
    <3>2. \A u \in Threads : nvf'[u].root = nvf[u].root /\ nvf'[u].height = nvf[u].height
      BY <1>1, <2>2, SeekKeepsTrees
    <3> QED
      BY <2>0, <2>2, <3>1, <3>2, CalmStep
  <2>3. CASE (Ring \/ PollUnfinished \/ PollFinished \/ DivideByZero) /\ UNCHANGED lvars
    <3>1. mpc \in {"ring", "poll"} /\ nvf' = nvf /\ heap' = heap
      BY <2>3 DEF Ring, PollUnfinished, PollFinished, DivideByZero, ForEach, lvars
    <3> QED
      BY <2>0, <3>1, CalmStep
  <2>4. CASE Join
    <3>1. mpc' \in {"join", "done"}
      BY <2>4 DEF Join, ForEach
    <3> QED
      BY <2>0, <3>1, CalmStep
  <2> QED
    BY <1>6, <2>1, <2>2, <2>3, <2>4 DEF BMain
<1>7. ASSUME NEW t \in Threads, BBegin(t)
      PROVE  WarmPlace' /\ WarmTrees' /\ AllMapped'
  <2>1. /\ Begin(t) /\ Seek(t, StartOffset(t))
        /\ UNCHANGED <<heap, maps, mmap_count, step, fops, warm>>
    BY <1>7 DEF BBegin, thread_fops
  <2>2. mpc' = mpc /\ ~warm
    BY <2>1 DEF Begin, Phase, NotBegun
  <2>3. \A u \in Threads : nvf'[u].root = nvf[u].root /\ nvf'[u].height = nvf[u].height
    <3>1. Types /\ StartOffset(t) \in Nat
      BY ShareFacts
    <3> QED
      BY <2>1, <3>1, SeekKeepsTrees
  <2>4. MInv
    OBVIOUS
  <2> QED
    BY <2>1, <2>2, <2>3, <2>4, CalmStep
<1>8. ASSUME NEW t \in Threads, LoopTest(t) \/ (left[t] = 0 /\ Signal(t)),
             UNCHANGED <<lvars, tvars, fops, warm>>
      PROVE  WarmPlace' /\ WarmTrees' /\ AllMapped'
  <2>1. UNCHANGED <<warm, fops, maps, mmap_count, step, nvf, heap>>
    BY <1>8 DEF lvars, tvars
  <2>2. mpc' = mpc /\ ~warm
    BY <1>8 DEF LoopTest, Signal, Phase, NotBegun
  <2>3. MInv
    OBVIOUS
  <2> QED
    BY <2>1, <2>2, <2>3, CalmStep
<1>9. CASE UNCHANGED bvars
  BY <1>9 DEF bvars, vars, lvars, tvars, WarmPlace, WarmTrees, AllMapped, Reading, WarmsUp, CoveredTo,
              Started, Reached, ReadsAt
<1> QED
  BY <1>2, <1>3, <1>4, <1>5, <1>6, <1>7, <1>8, <1>9 DEF BNext, BTransfer

(* The driver starts with an empty tree for every thread, *)
LEMMA FirstForest == BInit => \E node : Forest(heap, nvf, node)
<1> SUFFICES ASSUME BInit PROVE \E node : Forest(heap, nvf, node)
  OBVIOUS
<1> DEFINE Roots == {Table(t + 1) : t \in Threads}
           node == [t \in Threads |-> OnlyRoot(Table(t + 1))]
<1>1. heap = [a \in Roots |-> EmptyTable]
      /\ \A t \in Threads : nvf[t].root = Table(t + 1) /\ nvf[t].height = 0
  BY DEF BInit
<1>2. HeapOK(heap)
  <2>1. IsFiniteSet(Roots)
    <3>1. IsFiniteSet(Threads)
      BY NAssumption, FS_Interval DEF Threads
    <3> DEFINE f == [t \in Threads |-> Table(t + 1)]
    <3>2. f \in Surjection(Threads, Roots)
      BY DEF Surjection
    <3> HIDE DEF f, Roots
    <3> QED
      BY <3>1, <3>2, FS_Surjection
  <2>2. Roots \subseteq Addresses
    BY DEF Addresses, Threads
  <2>3. EmptyTable \in [Slots -> Words]
    BY WordsDiffer DEF EmptyTable
  <2> HIDE DEF Roots
  <2> QED
    BY <1>1, <2>1, <2>2, <2>3 DEF HeapOK
<1>3. ASSUME NEW t \in Threads
      PROVE  /\ Tree(heap, node[t], nvf[t].root, nvf[t].height, Mappings \X Nat)
             /\ nvf[t].root # NULL /\ Nodes(node[t]) = {Table(t + 1)}
  <2>1. Table(t + 1) \in DOMAIN heap /\ heap[Table(t + 1)] = EmptyTable
    BY <1>1
  <2>2. /\ Tree(heap, OnlyRoot(Table(t + 1)), Table(t + 1), 0, Mappings \X Nat)
        /\ Table(t + 1) # NULL /\ Nodes(OnlyRoot(Table(t + 1))) = {Table(t + 1)}
    BY <1>2, <2>1, LoneRoot
  <2> QED
    BY <1>1, <2>2
<1>4. ASSUME NEW t \in Threads, NEW u \in Threads, t # u
      PROVE  Nodes(node[t]) \cap Nodes(node[u]) = {}
  <2>1. Table(t + 1) # Table(u + 1)
    BY <1>4, WordsDiffer DEF Threads
  <2> HIDE DEF node
  <2> QED
    BY <1>3, <2>1
<1> HIDE DEF node
<1> QED
  BY <1>2, <1>3, <1>4 DEF Forest

(* hence in MInv.                                                          *)
LEMMA MInitially == BInit => MInv
<1> SUFFICES ASSUME BInit PROVE MInv
  OBVIOUS
<1>1. BInv
  BY BInitially
<1>2. warm /\ mi \in Threads
  BY <1>1, PhaseFacts DEF BInv, Types, BInit
<1>3. /\ maps = <<>> /\ mmap_count = 0
      /\ \A t \in Threads : /\ left[t] = Count(START_SIZE) /\ offset[t] = StartOffset(t)
                            /\ step[t] = CALL
  BY DEF BInit
<1>4. AllMapped /\ ~Started
  BY <1>2, <1>3 DEF AllMapped, Started
<1>5. WarmPlace
  <2>1. Count(START_SIZE) <= Count(START_SIZE)
    BY StartFacts, ShareFacts
  <2>2. Count(START_SIZE) * START_SIZE = Taken(START_SIZE)
    BY DEF Taken
  <2>3. offset[mi] + left[mi] * START_SIZE = StartOffset(mi) + Taken(START_SIZE)
    BY <1>2, <1>3, <2>2
  <2> QED
    BY <1>2, <1>3, <1>4, <2>1, <2>3 DEF WarmPlace
<1>6. WarmTrees
  <2>1. mi = 0
    BY DEF BInit, Init
  <2>2. \A t \in Threads : ~(t < mi)
    BY <2>1 DEF Threads
  <2>3. step[mi] = CALL /\ CALL # FOUND
    BY <1>2, <1>3 DEF CALL, FOUND
  <2>4. mmap_count = Len(maps)
    BY <1>3
  <2> QED
    BY <1>4, <2>2, <2>3, <2>4, FirstForest DEF WarmTrees
<1> QED
  BY <1>1, <1>4, <1>5, <1>6 DEF MInv

(* MInv is an invariant of the driver, with any number of threads.         *)
THEOREM MappingInvariance == BSpec => []MInv
BY MInitially, MStep, PTL DEF BSpec

(* The warm-up has mapped all that the threads read: no mmap is timed.     *)
THEOREM NoMmapTimed == BSpec => []WarmUpMapsAll
<1>1. MInv => WarmUpMapsAll
  <2> SUFFICES ASSUME MInv, WarmsUp, NEW t \in Threads, pc[t] = "transfer"
               PROVE  step[t] \in {CALL, FOUND}
    BY DEF WarmUpMapsAll, NothingMappedWhenTimed, MapsNow, WarmsUp
  <2>1. ~warm
    BY PhaseFacts DEF MInv, BInv, Types
  <2> QED
    BY <2>1 DEF MInv, AllMapped
<1> QED
  BY MappingInvariance, <1>1, PTL

(* hit_count never exceeds the reads that found their chunk mapped, and    *)
(* mmap_count is exact once the warm-up is over.                           *)
THEOREM CountsBounded == BSpec => []CountsNeverHigh
<1>1. MInv => CountsNeverHigh
  BY DEF MInv, BInv, HitsFound, AllMapped, WarmsUp, CountsNeverHigh
<1> QED
  BY MappingInvariance, <1>1, PTL

-----------------------------------------------------------------------------
(* What ERROR! tells *)

(* Where no read is cut, the reads a thread still makes are exactly what   *)
(* its share has left.                                                     *)
ExactShare ==
    \A t \in Threads :
        pc[t] = "transfer" /\ ~MayFallShort(t, Size(round[t])) =>
            nvf[t].offset + left[t] * Size(round[t]) = StartOffset(t) + Taken(Size(round[t]))

EInv == MInv /\ ErrorsExplained /\ ExactShare

(* Where a loop is that has k more reads to make, in a share that begins   *)
(* at a multiple of the size.                                              *)
LEMMA Aligned ==
    ASSUME NEW size \in Nat \ {0}, NEW t \in Threads, StartOffset(t) % size = 0,
           NEW a \in Nat, NEW k \in Nat, a + k * size = StartOffset(t) + Taken(size)
    PROVE  /\ a % size = 0
           /\ k > 0 => a + size <= StartOffset(t) + Share
<1> DEFINE q == StartOffset(t) \div size
           c == Count(size)
<1>1. /\ StartOffset(t) \in Nat /\ Share \in Nat /\ c \in Nat
      /\ Taken(size) = c * size /\ Taken(size) \in Nat /\ Taken(size) <= Share
  BY ShareFacts, CountFits DEF Taken
<1>2. q \in Nat /\ StartOffset(t) = size * q + 0
  <2> DEFINE x == StartOffset(t)
  <2>1. x \in Nat /\ x % size = 0 /\ size > 0
    BY <1>1
  <2> HIDE DEF x
  <2>2. x \div size \in Nat /\ x = size * (x \div size) + (x % size)
    BY <2>1, Divide
  <2> QED
    BY <2>1, <2>2 DEF x
<1> DEFINE w == q + c
<1> HIDE DEF q, c
<1>3. w \in Nat /\ a + k * size = size * w
  BY <1>1, <1>2
<1> HIDE DEF w
<1>4. k * size \in Nat
  OBVIOUS
<1>5. a % size = 0
  <2>1. a = size * (w - k)
    BY <1>3
  <2>2. w - k \in Nat
    <3>1. CASE w >= k
      BY <1>3, <3>1
    <3>2. CASE w < k
      <4> DEFINE d == k - w
      <4>1. d \in Nat /\ d > 0 /\ k = w + d
        BY <1>3, <3>2
      <4> HIDE DEF d
      <4>2. k * size = size * w + d * size /\ d * size > 0 /\ size * w \in Nat
        BY <1>3, <4>1
      <4> QED
        BY <1>3, <4>2
    <3> QED
      BY <1>3, <3>1, <3>2
  <2> DEFINE v == w - k
  <2>3. v \in Nat /\ a = size * v /\ size \in Nat /\ size > 0
    BY <2>1, <2>2
  <2> HIDE DEF v, w
  <2> QED
    BY <2>3
<1>6. k > 0 => a + size <= StartOffset(t) + Share
  <2> SUFFICES ASSUME k > 0 PROVE a + size <= StartOffset(t) + Share
    OBVIOUS
  <2>1. k * size = size + (k - 1) * size /\ (k - 1) * size \in Nat
    OBVIOUS
  <2> QED
    BY <1>1, <2>1
<1> QED
  BY <1>5, <1>6

(* An iteration explains the errors it adds.                               *)
LEMMA Explained ==
    ASSUME ErrorsExplained, NEW t, NEW size,
           errors' = errors \/ errors' = errors \cup {<<t, size>>},
           ~MayFallShort(t, size) => errors' = errors
    PROVE  ErrorsExplained'
<1>1. \A e : MayFallShort(e[1], e[2])' = MayFallShort(e[1], e[2])
  BY DEF MayFallShort, StartOffset
<1>2. \A e \in errors' : MayFallShort(e[1], e[2])
  BY DEF ErrorsExplained
<1> QED
  BY <1>1, <1>2 DEF ErrorsExplained

(* An iteration whose size divides chunk and position, inside the file,    *)
(* gets what it asks for.                                                  *)
LEMMA ExactIterate ==
    ASSUME Types, NEW t \in Threads, NEW op \in Operations, NEW size \in Nat \ {0},
           CHUNK % size = 0, size <= FILE_SIZE, step[t] # CALL => op \in {"read", "pread"},
           op \in {"read", "pread"} =>
               Position(t, op) % size = 0 /\ Position(t, op) + size <= FILE_LENGTH,
           Iterate(t, op, size)
    PROVE  /\ errors' = errors
           /\ op = "read" =>
                  \/ nvf' = nvf /\ left' = left
                  \/ /\ nvf'[t].offset = nvf[t].offset + size
                     /\ left' = [left EXCEPT ![t] = @ - 1]
<1> DEFINE p == Position(t, op)
           n == Got(p, size)
<1>1. p \in Nat /\ CHUNK \in Nat \ {0} /\ p % CHUNK \in Nat /\ FILE_LENGTH \in Nat
  <2>1. p \in Nat
    BY DEF Position, Types, FileOK
  <2> HIDE DEF p
  <2> QED
    BY <2>1, StartFacts, BenchAssumption, Divide
<1>2. p % size = 0 /\ p + size <= FILE_LENGTH => n = size
  <2> HIDE DEF p
  <2>1. p % size = 0 => (p % CHUNK) + size <= CHUNK
    BY <1>1, RestOfChunk
  <2>2. p + size <= FILE_LENGTH => InFile(p, size) = size
    BY <1>1 DEF InFile
  <2> QED
    BY <1>1, <2>1, <2>2 DEF Got
<1>4. /\ op \in {"read", "pread"} /\ n = size => errors' = errors
      /\ op \notin {"read", "pread"} => errors' = errors
      /\ \/ nvf' = nvf /\ left' = left
         \/ /\ nvf'[t].offset = nvf[t].offset + (IF op = "read" THEN n ELSE 0)
            /\ left' = [left EXCEPT ![t] = @ - 1]
  BY LoopMoves
<1> HIDE DEF p, n
<1> QED
  BY <1>2, <1>4 DEF p

(* An iteration of a thread,                                               *)
LEMMA ExactTransfer ==
    ASSUME EInv, NEW t \in Threads, BIterate(t)
    PROVE  ErrorsExplained' /\ ExactShare'
<1> USE DEF EInv, MInv, BInv
<1> DEFINE S == Size(round[t])
           a == nvf[t].offset
           k == left[t]
           b == StartOffset(t) + Taken(S)
<1>0. /\ pc[t] = "transfer" /\ Iterate(t, "read", S) /\ k > 0
      /\ UNCHANGED <<doorbell, mpc, mi, mround, pc, round, fops, warm>>
      /\ Types /\ ErrorsExplained
  BY DEF BIterate, Iterate, vars, thread_fops
<1>1. round[t] \in 1 .. ROUNDS
  BY <1>0, PhaseFacts DEF Types
<1>2. S \in Nat \ {0} /\ "read" \in Operations /\ Position(t, "read") = a
      /\ a \in Nat /\ k \in Nat
  <2>1. S \in Nat \ {0}
    BY <1>1, RoundsAssumption, SizeFacts
  <2> HIDE DEF S
  <2>2. "read" \in Operations /\ Position(t, "read") = a
    BY DEF Operations, Position
  <2>3. a \in Nat /\ k \in Nat
    BY DEF Types, FileOK
  <2> QED
    BY <2>1, <2>2, <2>3
<1>3. a + k * S <= b
  BY <1>0 DEF InShare
<1>4. ~MayFallShort(t, S) => a + k * S = b
  BY <1>0 DEF ExactShare
<1>5. Share \in Nat /\ StartOffset(t) \in Nat /\ b \in Nat /\ b <= FILE_SIZE /\ FILE_SIZE \in Nat
  <2>1. /\ Taken(S) \in Nat /\ Taken(S) <= Share
        /\ Share \in Nat /\ StartOffset(t) \in Nat /\ StartOffset(t) + Share <= FILE_SIZE
        /\ FILE_SIZE \in Nat
    BY <1>2, ShareFacts, CountFits
  <2> QED
    BY <2>1
<1> HIDE DEF S, k, a
<1>6. S <= FILE_SIZE
  <2>1. k * S = S + (k - 1) * S /\ (k - 1) * S \in Nat
    BY <1>0, <1>2
  <2> HIDE DEF b
  <2> QED
    BY <1>2, <1>3, <1>5, <2>1
<1>7. ~MayFallShort(t, S) =>
          CHUNK % S = 0 /\ a % S = 0 /\ a + S <= FILE_LENGTH
  <2> SUFFICES ASSUME ~MayFallShort(t, S)
               PROVE  CHUNK % S = 0 /\ a % S = 0 /\ a + S <= FILE_LENGTH
    OBVIOUS
  <2>1. /\ StartOffset(t) % S = 0 /\ CHUNK % S = 0 /\ ~(FILE_LENGTH < StartOffset(t) + Share)
    BY DEF MayFallShort, Share
  <2>2. a % S = 0 /\ a + S <= StartOffset(t) + Share
    BY <1>0, <1>2, <1>4, <2>1, Aligned
  <2>3. a + S \in Nat /\ StartOffset(t) + Share \in Nat /\ FILE_LENGTH \in Nat
    BY <1>2, <1>5, BenchAssumption
  <2> QED
    BY <2>1, <2>2, <2>3
<1>8. errors' = errors \/ errors' = errors \cup {<<t, S>>}
  BY <1>0, <1>2, <1>6, LoopMoves
<1>9. ~MayFallShort(t, S) =>
          /\ errors' = errors
          /\ \/ nvf' = nvf /\ left' = left
             \/ nvf'[t].offset = a + S /\ left' = [left EXCEPT ![t] = @ - 1]
  <2> SUFFICES ASSUME ~MayFallShort(t, S)
               PROVE  /\ errors' = errors
                      /\ \/ nvf' = nvf /\ left' = left
                         \/ nvf'[t].offset = a + S /\ left' = [left EXCEPT ![t] = @ - 1]
    OBVIOUS
  <2>1. CHUNK % S = 0 /\ Position(t, "read") % S = 0 /\ Position(t, "read") + S <= FILE_LENGTH
    BY <1>2, <1>7
  <2> QED
    BY <1>0, <1>2, <1>6, <2>1, ExactIterate DEF a
<1>10. ErrorsExplained'
  BY <1>0, <1>8, <1>9, Explained
<1>11. /\ \A u \in Threads \ {t} : nvf'[u] = nvf[u]
       /\ \/ nvf' = nvf /\ left' = left
          \/ left' = [left EXCEPT ![t] = @ - 1]
  BY <1>0, <1>2, IterateMoves
<1>12. ExactShare'
  <2> SUFFICES ASSUME NEW u \in Threads, pc'[u] = "transfer",
                      ~MayFallShort(u, Size(round'[u]))
               PROVE  nvf'[u].offset + left'[u] * Size(round'[u])
                          = StartOffset(u) + Taken(Size(round'[u]))
    <3>1. \A v : /\ MayFallShort(v, Size(round[v]))' = MayFallShort(v, Size(round'[v]))
                 /\ StartOffset(v)' = StartOffset(v)
                 /\ Taken(Size(round[v]))' = Taken(Size(round'[v]))
      BY DEF MayFallShort, StartOffset, Taken, Count, Size
    <3> QED
      BY <3>1 DEF ExactShare
  <2>1. pc[u] = "transfer" /\ round' = round
    BY <1>0
  <2>2. CASE u # t \/ (nvf' = nvf /\ left' = left)
    <3>1. nvf'[u] = nvf[u] /\ left'[u] = left[u]
      BY <1>11, <2>2 DEF Types
    <3> QED
      BY <2>1, <3>1 DEF ExactShare
  <2>3. CASE u = t /\ ~(nvf' = nvf /\ left' = left)
    <3>1. /\ nvf'[t].offset = a + S /\ left' = [left EXCEPT ![t] = @ - 1]
          /\ Size(round'[u]) = S /\ a + k * S = b
      BY <1>4, <1>9, <2>1, <2>3 DEF S
    <3>2. left'[t] = k - 1
      BY <3>1 DEF Types, k
    <3>3. (k - 1) * S = k * S - S /\ k * S \in Nat
      BY <1>2
    <3> DEFINE c == Taken(S)
    <3>4. (a + S) + (k - 1) * S = b
      <4> HIDE DEF b
      <4> QED
        BY <1>2, <1>5, <3>1, <3>3
    <3> QED
      BY <2>3, <3>1, <3>2, <3>4 DEF b
  <2> QED
    BY <2>2, <2>3
<1> QED
  BY <1>10, <1>12

(* and one of the warm-up.                                                 *)
LEMMA ExactWarmUp ==
    ASSUME EInv, WarmIterate
    PROVE  ErrorsExplained' /\ ExactShare'
<1> USE DEF EInv, MInv, BInv
<1> DEFINE S == START_SIZE
           o == offset[mi]
           k == left[mi]
<1>0. /\ Iterate(mi, fops, S) /\ UNCHANGED <<vars, fops, warm>>
      /\ Types /\ ErrorsExplained /\ fops \in Operations
  BY DEF WarmIterate, Types
<1>1. /\ warm /\ mi \in Threads /\ o \in Nat /\ k \in Nat /\ k > 0
      /\ o + k * S = StartOffset(mi) + Taken(S)
      /\ fops = "read" => nvf[mi].offset \in Nat /\ Behind(nvf[mi].offset, o)
      /\ o + S <= FILE_SIZE
  <2>1. MInv
    OBVIOUS
  <2> QED
    BY <2>1, WarmPosition
<1>2. S \in Nat \ {0} /\ CHUNK % S = 0 /\ S <= FILE_SIZE /\ FILE_LENGTH \in Nat
      /\ Share \in Nat /\ StartOffset(mi) \in Nat
  BY <1>1, StartFacts, ShareFacts, BenchAssumption
<1>3. step[mi] # CALL => fops \in {"read", "pread"}
  BY <1>1 DEF WarmPlace, Reading
<1> HIDE DEF S, o, k
<1>4. errors' = errors \/ errors' = errors \cup {<<mi, S>>}
  BY <1>0, <1>1, <1>2, <1>3, LoopMoves
<1>5. ASSUME ~MayFallShort(mi, S) PROVE errors' = errors
  <2>1. StartOffset(mi) % S = 0 /\ ~(FILE_LENGTH < StartOffset(mi) + Share)
    BY <1>5 DEF MayFallShort, Share
  <2>2. o % S = 0 /\ o + S <= StartOffset(mi) + Share
    BY <1>1, <1>2, <2>1, Aligned
  <2>3. o + S <= FILE_LENGTH
    BY <1>1, <1>2, <2>1, <2>2
  <2>4. fops = "read" => nvf[mi].offset % S = 0 /\ nvf[mi].offset + S <= FILE_LENGTH
    <3>1. fops = "read" => nvf[mi].offset <= o
      BY <1>1 DEF Behind
    <3>2. fops = "read" => nvf[mi].offset % S = 0
      BY <1>1, <1>2, <2>2, <2>3, <3>1 DEF Behind, S
    <3> QED
      BY <1>1, <1>2, <2>3, <3>1, <3>2
  <2>5. fops \in {"read", "pread"} =>
            Position(mi, fops) % S = 0 /\ Position(mi, fops) + S <= FILE_LENGTH
    BY <2>2, <2>3, <2>4 DEF Position, o
  <2> QED
    BY <1>0, <1>1, <1>2, <1>3, <2>5, ExactIterate
<1>6. ErrorsExplained'
  BY <1>0, <1>4, <1>5, Explained
<1>7. ExactShare'
  <2>1. \A t \in Threads : pc'[t] # "transfer"
    BY <1>0, <1>1, PhaseFacts DEF vars
  <2> QED
    BY <2>1 DEF ExactShare
<1> QED
  BY <1>6, <1>7

(* A thread begins at the beginning of its share, with all of it to read.  *)
LEMMA ExactBegin ==
    ASSUME EInv, NEW t \in Threads, BBegin(t)
    PROVE  ErrorsExplained' /\ ExactShare'
<1> USE DEF EInv, MInv, BInv
<1>1. /\ Begin(t) /\ Seek(t, StartOffset(t))
      /\ left' = [left EXCEPT ![t] = Count(Size(round[t]))]
      /\ UNCHANGED <<errors, warm>>
  BY DEF BBegin, thread_fops
<1>2. pc' = [pc EXCEPT ![t] = "transfer"] /\ round' = round /\ pc[t] = "spin"
  BY <1>1 DEF Begin
<1>3. ~warm
  BY <1>2 DEF Phase, NotBegun
<1>4. round[t] \in 1 .. ROUNDS
  <2>1. BInv'
    BY BStep DEF BNext, BTransfer
  <2>2. warm' \in BOOLEAN /\ Phase' /\ pc'[t] = "transfer"
    BY <1>2, <1>3, <2>1 DEF Phase, IInv, TypeOK, Types
  <2>3. warm' = warm /\ IInv'
    BY <1>1, <1>3, <2>2 DEF Phase
  <2>4. round'[t] \in 1 .. ROUNDS
    BY <2>2, <2>3, RoundsAssumption
       DEF IInv, TypeOK, Stations, Waiting, Rung, Served, Leaving, Unborn, RoundInRange
  <2> QED
    BY <1>2, <2>4
<1>5. Size(round[t]) \in Nat \ {0}
  BY <1>4, RoundsAssumption, SizeFacts
<1>6. /\ nvf'[t].offset = StartOffset(t) /\ \A u \in Threads \ {t} : nvf'[u] = nvf[u]
      /\ StartOffset(t) \in Nat
  BY <1>1, SeekMoves, ShareFacts
<1>7. nvf'[t].offset + left'[t] * Size(round'[t]) = StartOffset(t) + Taken(Size(round'[t]))
  <2>1. left'[t] * Size(round'[t]) = Taken(Size(round'[t]))
    BY <1>1, <1>2 DEF Types, Taken
  <2> QED
    BY <1>6, <2>1
<1>8. \A u \in Threads \ {t} : left'[u] = left[u] /\ round'[u] = round[u]
  BY <1>1, <1>2 DEF Types
<1>9. \A u \in Threads \ {t} : pc'[u] = "transfer" => pc[u] = "transfer"
  BY <1>2, <1>3 DEF Phase, IInv, TypeOK
<1>10. \A u : /\ MayFallShort(u, Size(round[u]))' = MayFallShort(u, Size(round'[u]))
              /\ StartOffset(u)' = StartOffset(u)
              /\ Taken(Size(round[u]))' = Taken(Size(round'[u]))
  BY DEF MayFallShort, StartOffset, Taken, Count, Size
<1>11. ErrorsExplained'
  BY <1>1 DEF ErrorsExplained, MayFallShort, StartOffset
<1>12. ExactShare'
  <2> SUFFICES ASSUME NEW u \in Threads, pc'[u] = "transfer",
                      ~MayFallShort(u, Size(round'[u]))
               PROVE  nvf'[u].offset + left'[u] * Size(round'[u])
                          = StartOffset(u) + Taken(Size(round'[u]))
    BY <1>10 DEF ExactShare
  <2>1. CASE u = t
    BY <1>7, <2>1
  <2>2. CASE u # t
    BY <1>6, <1>8, <1>9, <2>2 DEF ExactShare
  <2> QED
    BY <2>1, <2>2
<1> QED
  BY <1>11, <1>12

(* A step that moves no thread into a transfer, and neither reads nor      *)
(* seeks in one.                                                           *)
LEMMA ExactStays ==
    ASSUME ErrorsExplained, ExactShare, errors' = errors,
           \A t \in Threads : pc'[t] = "transfer" =>
               /\ pc[t] = "transfer" /\ nvf'[t] = nvf[t]
               /\ left'[t] = left[t] /\ round'[t] = round[t]
    PROVE  ErrorsExplained' /\ ExactShare'
<1>1. ErrorsExplained'
  BY DEF ErrorsExplained, MayFallShort, StartOffset
<1>2. \A u : /\ MayFallShort(u, Size(round[u]))' = MayFallShort(u, Size(round'[u]))
             /\ StartOffset(u)' = StartOffset(u)
             /\ Taken(Size(round[u]))' = Taken(Size(round'[u]))
  BY DEF MayFallShort, StartOffset, Taken, Count, Size
<1> QED
  BY <1>1, <1>2 DEF ExactShare

(* EInv is inductive.                                                      *)
LEMMA EStep == EInv /\ [BNext]_bvars => EInv'
<1> SUFFICES ASSUME EInv, [BNext]_bvars
             PROVE  ErrorsExplained' /\ ExactShare'
  BY MStep DEF EInv
<1> USE DEF EInv, MInv, BInv
<1>1. mi \in Threads /\ \A t \in Threads :
          pc[t] = "transfer" => ~warm /\ mpc \in {"ring", "poll"}
  BY PhaseFacts DEF Types
<1>2. CASE WarmIterate
  BY <1>2, ExactWarmUp
<1>3. CASE WarmSeek \/ WarmNext
  <2>1. warm /\ errors' = errors /\ pc' = pc
    BY <1>3 DEF WarmSeek, WarmNext, vars, tvars
  <2> QED
    BY <1>1, <2>1, ExactStays
<1>4. CASE BMain /\ ~(WarmSeek \/ WarmIterate \/ WarmNext)
  <2>1. ~warm /\ errors' = errors /\ left' = left
    BY <1>4 DEF BMain, tvars
  <2>2. IInv
    BY <2>1 DEF Phase
  <2>3. CASE CreateThread /\ UNCHANGED lvars
    <3>1. nvf' = nvf /\ round' = round /\ pc' = [pc EXCEPT ![mi] = "loop"]
      BY <2>3 DEF CreateThread, ForEach, lvars
    <3>2. \A t \in Threads : pc'[t] = "transfer" => pc[t] = "transfer"
      BY <1>1, <2>2, <3>1 DEF IInv, TypeOK
    <3> QED
      BY <2>1, <3>1, <3>2, ExactStays
  <2>4. CASE PrepareFile \/ DivideByZero \/ Join
    <3>1. \A t \in Threads : pc'[t] # "transfer"
      <4>1. CASE PrepareFile \/ Join
        <5>1. mpc \in {"prepare", "join"} /\ pc' = pc
          BY <4>1 DEF PrepareFile, Join, ForEach
        <5> QED
          BY <1>1, <5>1
      <4>2. CASE DivideByZero
        BY <4>2 DEF DivideByZero
      <4> QED
        BY <2>4, <4>1, <4>2
    <3> QED
      BY <2>1, <3>1, ExactStays
  <2>5. CASE (Ring \/ PollUnfinished \/ PollFinished) /\ UNCHANGED lvars
    <3>1. nvf' = nvf /\ round' = round /\ pc' = pc
      BY <2>5 DEF Ring, PollUnfinished, PollFinished, ForEach, lvars
    <3> QED
      BY <2>1, <3>1, ExactStays
  <2> QED
    BY <1>4, <2>3, <2>4, <2>5 DEF BMain
<1>5. ASSUME NEW t \in Threads, BTransfer(t) PROVE ErrorsExplained' /\ ExactShare'
  <2>1. CASE BBegin(t)
    BY <2>1, ExactBegin
  <2>2. CASE BIterate(t)
    BY <2>2, ExactTransfer
  <2>3. CASE (LoopTest(t) \/ Signal(t)) /\ UNCHANGED <<nvf, errors, left, warm>>
    <3>1. ~warm
      BY <2>3 DEF LoopTest, Signal, Phase, NotBegun
    <3>2. pc'[t] # "transfer" /\ \A u \in Threads \ {t} : pc'[u] = pc[u] /\ round'[u] = round[u]
      BY <2>3, <3>1 DEF LoopTest, Signal, Phase, IInv, TypeOK
    <3> QED
      BY <2>3, <3>2, ExactStays
  <2> QED
    BY <1>5, <2>1, <2>2, <2>3 DEF BTransfer, lvars, tvars
<1>6. CASE UNCHANGED bvars
  BY <1>6, ExactStays DEF bvars, vars, lvars, tvars
<1> QED
  BY <1>2, <1>3, <1>4, <1>5, <1>6 DEF BNext

(* ERROR! is printed for a size only where a read of it may fall short.    *)
THEOREM ErrorsAlwaysExplained == BSpec => []ErrorsExplained
<1>1. BInit => EInv
  <2>1. BInit => MInv /\ errors = {} /\ \A t \in Threads : pc[t] # "transfer"
    BY MInitially DEF BInit, Init
  <2> QED
    BY <2>1 DEF EInv, ErrorsExplained, ExactShare
<1>2. EInv => ErrorsExplained
  BY DEF EInv
<1> QED
  BY <1>1, <1>2, EStep, PTL DEF BSpec

=============================================================================
