----------------------- MODULE MmapRendezvousProofs -----------------------
(***************************************************************************)
(* For any number of threads and any sizes: no share and no wakeup of the  *)
(* rendezvous is lost, and no thread falls behind main by more than one    *)
(* transfer.  The latter needs to know where a bit of finished_threads may *)
(* come from: a thread that copies while its bit is set has set it in this *)
(* transfer and begun anew in this transfer (Lag), so when the next one    *)
(* clears the bits its copy is one transfer old.  The copies themselves    *)
(* store what MemCopy says, which comes first.                             *)
(***************************************************************************)
EXTENDS MmapRendezvous, TLAPS

-----------------------------------------------------------------------------
(* What the copy and flush routines reach, for all addresses and lengths   *)

(* mmx2_memcpy copies all but the last bytes, as many as it has used to    *)
(* align the destination, which then is not aligned either                 *)
(* (memcpy.h:40-87).                                                       *)
THEOREM CopiedAllButDelta ==
    ASSUME NEW to \in Nat, NEW len \in Nat
    PROVE  CopiedBytes(to, len) = 0 .. len - 1 - Delta(to, len)
<1> DEFINE D == Delta(to, len)
           L == Left(to, len)
           B == Blocks(to, len)
<1>1. L \in Nat /\ D \in Nat /\ L = len - D /\ D <= L
  BY DEF Delta, Left, MMREG_SIZE, MIN_LEN
<1>2. B = L \div 64
  BY DEF Blocks
<1>3. CopiedBytes(to, len) =
          (UNION {Block(i) : i \in 0 .. B - 1}) \cup (64 * B .. L - 1) \cup (0 .. D - 1)
  BY DEF CopiedBytes, Rest
<1> HIDE DEF D, L, B
<1>4. B \in Nat /\ 64 * B <= L
  BY <1>1, <1>2
<1>5. UNION {Block(i) : i \in 0 .. B - 1} = 0 .. 64 * B - 1
  <2>1. ASSUME NEW i \in 0 .. B - 1, NEW k \in Block(i)
        PROVE  k \in 0 .. 64 * B - 1
    BY <1>4, <2>1 DEF Block
  <2>2. ASSUME NEW k \in 0 .. 64 * B - 1
        PROVE  \E i \in 0 .. B - 1 : k \in Block(i)
    <3>1. k \div 64 \in 0 .. B - 1 /\ k \in Block(k \div 64)
      BY <1>4, <2>2 DEF Block
    <3> QED  BY <3>1
  <2> QED  BY <2>1, <2>2
<1>6. CopiedBytes(to, len) = 0 .. L - 1
  BY <1>1, <1>3, <1>4, <1>5
<1> QED  BY <1>1, <1>6 DEF D

(* Whoever aligns the destination, or copies less than 64 bytes, gets a    *)
(* whole copy, and nobody else does (memcpy.h:40-52).                      *)
THEOREM WholeIffAligned ==
    ASSUME NEW to \in Nat, NEW len \in Nat
    PROVE  CopiedBytes(to, len) = 0 .. len - 1 <=> to % MMREG_SIZE = 0 \/ len < MIN_LEN
<1> DEFINE D == Delta(to, len)
<1>1. CopiedBytes(to, len) = 0 .. len - 1 - D
  BY CopiedAllButDelta
<1>2. D \in Nat /\ (D = 0 <=> to % MMREG_SIZE = 0 \/ len < MIN_LEN)
  BY DEF Delta, MMREG_SIZE, MIN_LEN
<1>3. D # 0 => len > 0
  BY <1>2 DEF MIN_LEN
<1> HIDE DEF D
<1>4. CASE D = 0
  BY <1>1, <1>2, <1>4
<1>5. CASE D # 0
  <2>1. len - 1 \in 0 .. len - 1 /\ len - 1 \notin 0 .. len - 1 - D
    BY <1>2, <1>3, <1>5
  <2> QED  BY <1>1, <1>2, <1>5, <2>1
<1> QED  BY <1>4, <1>5

(* memcpy1 leaves out up to three bytes (memcpy.h:8-11).                   *)
THEOREM CopiedWords ==
    ASSUME NEW n \in Nat
    PROVE  /\ CopiedBytes1(n) \subseteq 0 .. n - 1
           /\ \A k \in 0 .. n - 4 : k \in CopiedBytes1(n)
           /\ CopiedBytes1(n) = 0 .. n - 1 <=> n % 4 = 0
<1>1. n \div 4 \in Nat /\ n = 4 * (n \div 4) + (n % 4) /\ n % 4 \in 0 .. 3
  OBVIOUS
<1>2. n % 4 # 0 => n - 1 \in (0 .. n - 1) \ CopiedBytes1(n)
  BY <1>1 DEF CopiedBytes1
<1> QED  BY <1>1, <1>2 DEF CopiedBytes1

(* The three loops over cache lines reach every byte of the range, and     *)
(* flush no line without one (mmap_write.c:31-73).                         *)
THEOREM FlushCoversRange ==
    ASSUME NEW addr \in Nat, NEW len \in Nat
    PROVE  /\ addr .. addr + len - 1 \subseteq UNION {LineAt(u) : u \in FlushedLines(addr, len)}
           /\ len > 0 => \A u \in FlushedLines(addr, len) :
                             LineAt(u) \cap (addr .. addr + len - 1) # {}
<1>1. ASSUME NEW k \in addr .. addr + len - 1
      PROVE  \E u \in FlushedLines(addr, len) : k \in LineAt(u)
  <2>1. FirstLine(k) \in FlushedLines(addr, len) /\ k \in LineAt(FirstLine(k))
    BY DEF FirstLine, FlushedLines, LineAt, CACHELINE_SIZE
  <2> QED  BY <2>1
<1>2. ASSUME len > 0, NEW u \in FlushedLines(addr, len)
      PROVE  LineAt(u) \cap (addr .. addr + len - 1) # {}
  <2>1. CASE u < addr
    <3>1. addr \in LineAt(u)
      BY <2>1 DEF FlushedLines, FirstLine, LineAt, CACHELINE_SIZE
    <3> QED  BY <1>2, <3>1
  <2>2. CASE u >= addr
    <3>1. u \in LineAt(u) /\ u \in addr .. addr + len - 1
      BY <2>2 DEF FlushedLines, FirstLine, LineAt, CACHELINE_SIZE
    <3> QED  BY <3>1
  <2> QED  BY <2>1, <2>2 DEF FlushedLines, FirstLine, CACHELINE_SIZE
<1> QED  BY <1>1, <1>2

(* flush_movnti reaches every byte of the range, too, and rewrites at most *)
(* 63 bytes behind it, wherever the range begins (mmap_write.c:75-108).    *)
THEOREM MovntiCoversRange ==
    ASSUME NEW addr \in Nat, NEW len \in Nat
    PROVE  /\ addr .. addr + len - 1 \subseteq Rewritten(addr, len)
           /\ Rewritten(addr, len) \subseteq addr .. addr + len + CACHELINE_SIZE - 2
<1>1. ASSUME NEW k \in addr .. addr + len - 1
      PROVE  k \in Rewritten(addr, len)
  <2> DEFINE i == (k - addr) - ((k - addr) % 64)
  <2>1. i \in {j \in 0 .. len - 1 : j % CACHELINE_SIZE = 0}
    BY DEF CACHELINE_SIZE
  <2>2. k \in LineAt(addr + i)
    BY DEF LineAt, CACHELINE_SIZE
  <2> QED  BY <2>1, <2>2 DEF Rewritten
<1>2. ASSUME NEW k \in Rewritten(addr, len)
      PROVE  k \in addr .. addr + len + CACHELINE_SIZE - 2
  BY DEF Rewritten, LineAt, CACHELINE_SIZE
<1> QED  BY <1>1, <1>2

-----------------------------------------------------------------------------
(* The invariant of the rendezvous *)

(* Until the first transfer no thread gets past its wait.                  *)
Idle ==
    transfer = 0 =>
        /\ waiting_threads = {} /\ finished_threads = {}
        /\ mpc \in {"create", "size", "rewind", "set", "join"}
        /\ \A t \in Threads : pc[t] \in {"unborn", "start", "unit", "take", "ready"}

(* Between two transfers all bits of finished_threads are set, and a dead  *)
(* process has no thread that runs.                                        *)
Settled ==
    /\ mpc = "create" => transfer = 0
    /\ mpc \in {"advance", "size", "rewind", "set", "join"} /\ transfer # 0
           => finished_threads = Threads
    /\ mpc = "killed" => \A t \in Threads : pc[t] \in {"faulted", "dead"}

(* How old the copies of thread t can be.                                  *)
Copied(t) ==
    /\ t \in finished_threads => last[t] >= transfer - 1
    /\ pc[t] \in {"copy", "finished"} =>
           /\ last[t] >= transfer - 1
           /\ t \in finished_threads => last[t] >= transfer

Lag == \A t \in Threads : Copied(t)

Wakeups == NoLostShare /\ NoLostWakeup

IInv == TypeOK /\ Idle /\ Settled /\ Lag /\ Wakeups

-----------------------------------------------------------------------------

(* The invariant holds initially.                                          *)
LEMMA InitInv == Init => IInv
BY DEF Init, IInv, TypeOK, Positions, Idle, Settled, Lag, Copied, Wakeups,
       NoLostShare, NoLostWakeup

(* Every step keeps the types.                                             *)
LEMMA TypeStep == ASSUME TypeOK, [Next]_vars PROVE TypeOK'
<1> USE DEF TypeOK, Positions, main, locals
<1>1. ASSUME Main PROVE TypeOK'
  <2>1. CASE CreateThread
    <3>1. pc' \in [Threads -> Positions]
      BY <2>1 DEF CreateThread
    <3>2. mi' \in Nat /\ mpc' \in {mpc, "size"}
      BY <2>1, ThreadsAssumption DEF CreateThread
    <3> QED
      BY <2>1, <3>1, <3>2 DEF CreateThread
  <2>2. CASE NextSize
    BY <2>2, SizesAssumption DEF NextSize
  <2>3. CASE Rewind
    BY <2>3 DEF Rewind
  <2>4. CASE SetThreads
    BY <2>4 DEF SetThreads
  <2>5. CASE Broadcast
    BY <2>5 DEF Broadcast
  <2>6. CASE TestFinished
    BY <2>6 DEF TestFinished
  <2>7. CASE Advance
    BY <2>7 DEF Advance
  <2> QED
    BY <1>1, <2>1, <2>2, <2>3, <2>4, <2>5, <2>6, <2>7 DEF Main
<1>2. ASSUME NEW t \in Threads, Transfer(t) PROVE TypeOK'
  <2>1. CASE Start(t)
    <3>1. size \div N \in Nat
      BY ThreadsAssumption
    <3>2. t \in Nat
      BY ThreadsAssumption DEF Threads
    <3>3. (size \div N) * t \in Nat
      BY <3>1, <3>2
    <3> QED
      BY <2>1, <3>3 DEF Start, Goto
  <2>2. CASE ReadUnit(t)
    BY <2>2, ThreadsAssumption DEF ReadUnit, Goto
  <2>3. CASE Take(t) \/ AwaitReady(t)
    BY <2>3 DEF Take, AwaitReady, Goto
  <2>4. CASE ReadData1(t)
    BY <2>4 DEF ReadData1, Goto
  <2>5. CASE Copy(t) \/ SetFinished(t) \/ CheckFinished(t)
    BY <2>5 DEF Copy, SetFinished, CheckFinished, Goto
  <2>7. CASE Fault(t)
    BY <2>7 DEF Fault
  <2>6. CASE Signal(t)
    BY <2>6 DEF Signal, Goto
  <2> QED
    BY <1>2, <2>1, <2>2, <2>3, <2>4, <2>5, <2>6, <2>7 DEF Transfer
<1>3. ASSUME NEW t \in Threads, SpuriousReady(t) PROVE TypeOK'
  BY <1>3 DEF SpuriousReady, Goto
<1>4. CASE SpuriousFinish \/ UNCHANGED vars
  BY <1>4 DEF SpuriousFinish, vars
<1> QED
  BY <1>1, <1>2, <1>3, <1>4 DEF Next

(* Every step of main, and every wakeup without a signal, keeps the rest.  *)
LEMMA MainStep ==
    ASSUME IInv, Main \/ SpuriousFinish \/ UNCHANGED vars
    PROVE  Idle' /\ Settled' /\ Lag' /\ Wakeups'
<1> USE DEF IInv, TypeOK, Positions, main, locals, Idle, Settled, Lag, Copied, Wakeups,
            NoLostShare, NoLostWakeup
<1>1. CASE CreateThread
  BY <1>1 DEF CreateThread
<1>2. CASE NextSize
  BY <1>2 DEF NextSize
<1>3. CASE Rewind
  BY <1>3 DEF Rewind
<1>4. CASE SetThreads
  BY <1>4 DEF SetThreads
<1>5. CASE Broadcast
  BY <1>5 DEF Broadcast
<1>6. CASE TestFinished
  BY <1>6 DEF TestFinished
<1>7. CASE Advance
  BY <1>7 DEF Advance
<1>8. CASE SpuriousFinish \/ UNCHANGED vars
  BY <1>8 DEF SpuriousFinish, vars
<1> QED
  BY <1>1, <1>2, <1>3, <1>4, <1>5, <1>6, <1>7, <1>8 DEF Main

(* Every step of a thread keeps the rest.                                  *)
LEMMA ThreadStep ==
    ASSUME IInv, NEW t \in Threads, Transfer(t) \/ SpuriousReady(t)
    PROVE  Idle' /\ Settled' /\ Lag' /\ Wakeups'
<1> USE DEF IInv, TypeOK, Positions, main, locals, Goto, Idle, Settled, Lag, Copied,
            Wakeups, NoLostShare, NoLostWakeup
<1>1. CASE Start(t) \/ ReadUnit(t) \/ SpuriousReady(t)
  BY <1>1 DEF Start, ReadUnit, SpuriousReady
<1>2. CASE Take(t)
  BY <1>2 DEF Take
<1>3. CASE AwaitReady(t)
  BY <1>3 DEF AwaitReady
<1>4. CASE ReadData1(t)
  BY <1>4 DEF ReadData1
<1>5. CASE Copy(t)
  BY <1>5 DEF Copy
<1>9. CASE Fault(t)
  BY <1>9 DEF Fault
<1>6. CASE SetFinished(t)
  BY <1>6 DEF SetFinished
<1>7. CASE CheckFinished(t)
  BY <1>7 DEF CheckFinished
<1>8. CASE Signal(t)
  BY <1>8 DEF Signal
<1> QED
  BY <1>1, <1>2, <1>3, <1>4, <1>5, <1>6, <1>7, <1>8, <1>9 DEF Transfer

(* IInv is an invariant of the rendezvous.                                 *)
THEOREM Invariance == Spec => []IInv
<1>1. IInv /\ [Next]_vars => IInv'
  BY TypeStep, MainStep, ThreadStep DEF IInv, Next
<1> QED
  BY InitInv, <1>1, PTL DEF Spec

-----------------------------------------------------------------------------

(* Every variable always has its type; the bits set are those of threads.  *)
THEOREM TypeCorrect == Spec => []TypeOK
BY Invariance, PTL DEF IInv

(* A share whose bit main has set is taken, under way or done.             *)
THEOREM NoShareLost == Spec => []NoLostShare
BY Invariance, PTL DEF IInv, Wakeups

(* Nobody sleeps through the last signal that was meant for it.            *)
THEOREM NoWakeupLost == Spec => []NoLostWakeup
BY Invariance, PTL DEF IInv, Wakeups

(* However the bits of two transfers mix, no thread is more than one       *)
(* transfer behind when main goes on.                                      *)
THEOREM LagBounded == Spec => []OneBehindAtMost
<1>1. IInv => OneBehindAtMost
  BY DEF IInv, TypeOK, Idle, Settled, Lag, Copied, OneBehindAtMost
<1> QED
  BY Invariance, <1>1, PTL

-----------------------------------------------------------------------------

(* Two facts about division that the provers need by name.                 *)
LEMMA DivCancels == ASSUME NEW n \in Nat \ {0}, NEW x \in Nat PROVE (n * x) \div n = x
OBVIOUS

(* What n divides is n times its share. *)
LEMMA ModZero ==
    ASSUME NEW n \in Nat \ {0}, NEW x \in Nat, x % n = 0
    PROVE  x = n * (x \div n) /\ x \div n \in Nat
OBVIOUS

(* All that is measured in bytes is a multiple of eight, and every size    *)
(* can be divided among the threads.                                       *)
Aligned ==
    /\ \E q \in Nat : size = N * (8 * q)
    /\ data1 % 8 = 0
    /\ \A t \in Threads : offset[t] % 8 = 0 /\ data_begin[t] % 8 = 0

(* Every step keeps Aligned, if start_size is a multiple of 8 N.           *)
LEMMA AlignedStep ==
    ASSUME START_SIZE % (MMREG_SIZE * N) = 0, TypeOK, Aligned, [Next]_vars
    PROVE  Aligned'
<1> USE DEF TypeOK, Positions, main, locals, Goto
<1> PICK q \in Nat : size = N * (8 * q)
  BY DEF Aligned
<1>1. size \div N = 8 * q
  BY DivCancels, ThreadsAssumption
<1>2. size % 8 = 0
  <2>1. N * (8 * q) = 8 * (N * q)
    BY ThreadsAssumption
  <2>2. N * q \in Nat
    BY ThreadsAssumption
  <2> QED  BY <2>1, <2>2
<1>3. CASE NextSize
  <2>1. PICK p \in Nat : START_SIZE = N * (8 * p)
    <3>1. MMREG_SIZE * N \in Nat \ {0}
      BY ThreadsAssumption DEF MMREG_SIZE
    <3>2. START_SIZE = (8 * N) * (START_SIZE \div (8 * N)) /\ START_SIZE \div (8 * N) \in Nat
      BY <3>1, ModZero, SizesAssumption DEF MMREG_SIZE
    <3>3. \A p \in Nat : (8 * N) * p = N * (8 * p)
      BY ThreadsAssumption
    <3> QED  BY <3>2, <3>3
  <2>2. 2 * size = N * (8 * (2 * q))
    BY ThreadsAssumption
  <2>3. \E r \in Nat : size' = N * (8 * r)
    <3>1. size' = N * (8 * p) \/ size' = N * (8 * (2 * q))
      BY <1>3, <2>1, <2>2 DEF NextSize
    <3>2. 2 * q \in Nat
      OBVIOUS
    <3> QED  BY <2>1, <3>1, <3>2
  <2> QED  BY <1>3, <2>3 DEF Aligned, NextSize
<1>4. CASE Rewind
  BY <1>4 DEF Aligned, Rewind
<1>5. CASE Advance
  <2>1. (data1 + size) % 8 = 0
    BY <1>2 DEF Aligned
  <2> QED  BY <1>5, <2>1 DEF Aligned, Advance
<1>6. CASE CreateThread \/ SetThreads \/ Broadcast \/ TestFinished \/ SpuriousFinish \/ UNCHANGED vars
  BY <1>6 DEF Aligned, CreateThread, SetThreads, Broadcast, TestFinished, SpuriousFinish, vars
<1>7. ASSUME NEW t \in Threads, Start(t) PROVE Aligned'
  <2>1. t \in Nat
    BY ThreadsAssumption DEF Threads
  <2>2. ((size \div N) * t) % 8 = 0
    <3>1. (8 * q) * t = 8 * (q * t) /\ q * t \in Nat
      BY <2>1
    <3> QED  BY <1>1, <3>1
  <2> QED  BY <1>7, <2>2 DEF Aligned, Start
<1>8. ASSUME NEW t \in Threads, ReadData1(t) PROVE Aligned'
  <2>1. (data1 + offset[t]) % 8 = 0
    BY DEF Aligned
  <2> QED  BY <1>8, <2>1 DEF Aligned, ReadData1
<1>9. ASSUME NEW t \in Threads, Transfer(t) \/ SpuriousReady(t), ~Start(t), ~ReadData1(t)
      PROVE  Aligned'
  BY <1>9 DEF Aligned, Transfer, ReadUnit, Take, AwaitReady, Copy, Fault, SetFinished,
              CheckFinished, Signal, SpuriousReady
<1> QED
  BY <1>3, <1>4, <1>5, <1>6, <1>7, <1>8, <1>9 DEF Next, Main, Transfer

(* If start_size can be divided among the threads into multiples of eight  *)
(* bytes, mmx2_memcpy stores every share whole.                            *)
THEOREM StoredWhole == Spec => []SharesStoredWhole
<1>1. CASE START_SIZE % (MMREG_SIZE * N) = 0
  <2>1. Init => Aligned
    BY ThreadsAssumption DEF Init, Aligned
  <2>2. TypeOK /\ Aligned /\ [Next]_vars => Aligned'
    BY <1>1, AlignedStep
  <2>3. TypeOK /\ Aligned => SharesStoredWhole
    BY WholeIffAligned DEF Aligned, TypeOK, SharesStoredWhole, MMREG_SIZE
  <2> QED
    BY TypeCorrect, <2>1, <2>2, <2>3, PTL DEF Spec
<1>2. CASE ~(START_SIZE % (MMREG_SIZE * N) = 0)
  <2>1. SharesStoredWhole
    BY <1>2 DEF SharesStoredWhole
  <2> QED
    BY <2>1, PTL
<1> QED
  BY <1>1, <1>2

-----------------------------------------------------------------------------

(* A greater size has no smaller shares. *)
LEMMA DivMonotone ==
    ASSUME NEW n \in Nat \ {0}, NEW x \in Nat, NEW y \in Nat, x <= y
    PROVE  x \div n <= y \div n
OBVIOUS

(* A greater share begins no earlier. *)
LEMMA TimesMonotone ==
    ASSUME NEW n \in Nat, NEW x \in Nat, NEW y \in Nat, x <= y
    PROVE  x * n <= y * n
OBVIOUS

(* The shares of a size are together no more than the size. *)
LEMMA DivTimes == ASSUME NEW n \in Nat \ {0}, NEW x \in Nat PROVE (x \div n) * n <= x
OBVIOUS

(* Sizes only grow, so units and offsets that are stale are too small.     *)
Small ==
    \A t \in Threads : offset[t] <= (size \div N) * t /\ unit[t] <= size \div N

(* main's piece is the mi-th of the file.                                  *)
Pieces ==
    /\ mpc \in {"size", "rewind"} => mi = 0
    /\ mpc \notin {"create", "size", "join", "killed"} => size > 0 /\ size <= END_SIZE
    /\ mpc \in {"set", "broadcast", "test", "finish", "advance"} =>
           data1 = mi * size /\ mi + 1 <= FILE_SIZE \div size

(* A share that is copied for the first time is one of main's piece.       *)
Fresh ==
    /\ \A t \in Threads : last[t] <= transfer
    /\ mpc \in {"broadcast", "test", "finish"} =>
           \A t \in Threads \ finished_threads : pc[t] = "copy" /\ last[t] = transfer =>
               data_begin[t] = data1 + offset[t]

(* Every step keeps units and offsets small.                               *)
LEMMA SmallStep == ASSUME TypeOK, Small, [Next]_vars PROVE Small'
<1> USE DEF TypeOK, Positions, main, locals, Goto
<1>1. \A t \in Threads : t \in Nat
  BY ThreadsAssumption DEF Threads
<1>2. CASE NextSize
  <2>1. size' \in Nat /\ size <= size'
    BY <1>2, SizesAssumption DEF NextSize
  <2>2. size \div N <= size' \div N /\ size \div N \in Nat /\ size' \div N \in Nat
    <3>1. size \in Nat /\ N \in Nat \ {0}
      BY ThreadsAssumption
    <3>2. size \div N <= size' \div N
      BY <2>1, <3>1, DivMonotone
    <3>3. \A x \in Nat : x \div N \in Nat
      BY <3>1
    <3> QED  BY <2>1, <3>1, <3>2, <3>3
  <2>3. ASSUME NEW t \in Threads PROVE (size \div N) * t <= (size' \div N) * t
    BY <1>1, <2>2, TimesMonotone
  <2>4. ASSUME NEW t \in Threads
        PROVE  (size \div N) * t \in Nat /\ (size' \div N) * t \in Nat
    BY <1>1, <2>2
  <2>5. offset' = offset /\ unit' = unit
    BY <1>2 DEF NextSize
  <2> QED  BY <2>2, <2>3, <2>4, <2>5 DEF Small
<1>3. ASSUME NEW t \in Threads, Start(t) PROVE Small'
  <2>1. (size \div N) * t <= (size \div N) * t
    BY <1>1, ThreadsAssumption
  <2> QED  BY <1>3, <2>1 DEF Small, Start
<1>4. ASSUME NEW t \in Threads, ReadUnit(t) PROVE Small'
  BY <1>4, ThreadsAssumption DEF Small, ReadUnit
<1>5. CASE CreateThread \/ Rewind \/ SetThreads \/ Broadcast \/ TestFinished \/ Advance
           \/ SpuriousFinish \/ UNCHANGED vars
  BY <1>5 DEF Small, CreateThread, Rewind, SetThreads, Broadcast, TestFinished, Advance,
              SpuriousFinish, vars
<1>6. ASSUME NEW t \in Threads, Transfer(t) \/ SpuriousReady(t), ~Start(t), ~ReadUnit(t)
      PROVE  Small'
  BY <1>6 DEF Small, Transfer, Take, AwaitReady, ReadData1, Copy, Fault, SetFinished,
              CheckFinished, Signal, SpuriousReady
<1> QED
  BY <1>2, <1>3, <1>4, <1>5, <1>6 DEF Next, Main, Transfer

(* Every step keeps main's piece and what is copied of it.                 *)
LEMMA PieceStep ==
    ASSUME TypeOK, Pieces, Fresh, [Next]_vars
    PROVE  Pieces' /\ Fresh'
<1> USE DEF TypeOK, Positions, main, locals, Goto, Pieces, Fresh
<1>1. CASE CreateThread
  BY <1>1 DEF CreateThread
<1>2. CASE NextSize
  BY <1>2, SizesAssumption DEF NextSize
<1>3. CASE Rewind
  <2>1. 0 * size = 0
    OBVIOUS
  <2> QED  BY <1>3, <2>1, SizesAssumption DEF Rewind
<1>4. CASE SetThreads
  BY <1>4 DEF SetThreads
<1>5. CASE Broadcast \/ TestFinished \/ SpuriousFinish \/ UNCHANGED vars
  BY <1>5 DEF Broadcast, TestFinished, SpuriousFinish, vars
<1>6. CASE Advance
  <2>1. data1 + size = (mi + 1) * size
    BY <1>6 DEF Advance
  <2>2. FILE_SIZE \div size \in Nat
    BY <1>6, SizesAssumption DEF Advance
  <2> QED  BY <1>6, <2>1, <2>2 DEF Advance
<1>7. ASSUME NEW t \in Threads, Transfer(t) \/ SpuriousReady(t) PROVE Pieces' /\ Fresh'
  BY <1>7 DEF Transfer, Start, ReadUnit, Take, AwaitReady, ReadData1, Copy, Fault, SetFinished,
              CheckFinished, Signal, SpuriousReady
<1> QED
  BY <1>1, <1>2, <1>3, <1>4, <1>5, <1>6, <1>7 DEF Next, Main

(* The share of a thread fits into one piece, however stale it is.         *)
LEMMA ShareFits ==
    ASSUME TypeOK, Small, NEW t \in Threads
    PROVE  offset[t] + unit[t] <= size
<1> DEFINE s == size \div N
<1>1. s \in Nat /\ size \in Nat /\ t \in Nat /\ t + 1 <= N
  <2>1. size \in Nat
    BY DEF TypeOK
  <2>2. t \in Nat /\ t + 1 <= N
    BY ThreadsAssumption DEF Threads
  <2>3. \A x \in Nat, y \in Nat \ {0} : x \div y \in Nat
    OBVIOUS
  <2> QED  BY <2>1, <2>2, <2>3, ThreadsAssumption
<1>2. offset[t] <= s * t /\ unit[t] <= s /\ offset[t] \in Nat /\ unit[t] \in Nat
  BY DEF Small, TypeOK
<1>3. s * t + s = (t + 1) * s /\ s * t \in Nat
  <2> HIDE DEF s
  <2> QED  BY <1>1
<1>4. (t + 1) * s <= N * s
  BY <1>1, TimesMonotone, ThreadsAssumption
<1>5. N * s <= size /\ N * s \in Nat
  BY <1>1, DivTimes, ThreadsAssumption
<1> HIDE DEF s
<1> QED
  BY <1>1, <1>2, <1>3, <1>4, <1>5

(* While main waits, its piece lies in the file. *)
LEMMA PieceFits ==
    ASSUME TypeOK, Pieces, mpc \in {"broadcast", "test", "finish"}
    PROVE  data1 + size <= FILE_SIZE
<1> DEFINE n == FILE_SIZE \div size
<1>1. n \in Nat /\ size \in Nat \ {0}
  BY SizesAssumption DEF TypeOK, Pieces
<1>2. data1 + size = (mi + 1) * size /\ mi + 1 \in Nat /\ mi + 1 <= n
  BY <1>1 DEF Pieces, TypeOK
<1>3. (mi + 1) * size <= n * size
  BY <1>1, <1>2, TimesMonotone
<1>4. n * size <= FILE_SIZE /\ n * size \in Nat
  BY <1>1, DivTimes, SizesAssumption
<1> HIDE DEF n
<1> QED
  BY <1>1, <1>2, <1>3, <1>4, SizesAssumption

(* The three invariants of pieces hold together. *)
PInv == TypeOK /\ Small /\ Pieces /\ Fresh

(* PInv is an invariant of the rendezvous.                                 *)
LEMMA PieceInvariance == Spec => []PInv
<1>1. Init => Small /\ Pieces /\ Fresh
  <2>1. \A t \in Threads : t \in Nat /\ 0 \div N = 0 /\ 0 * t = 0
    BY ThreadsAssumption DEF Threads
  <2> QED  BY <2>1 DEF Init, Small, Pieces, Fresh
<1>2. TypeOK /\ Small /\ Pieces /\ Fresh /\ [Next]_vars => Small' /\ Pieces' /\ Fresh'
  BY SmallStep, PieceStep
<1> QED
  BY TypeCorrect, <1>1, <1>2, PTL DEF Spec, PInv

(* However stale its unit and its offset, a thread's first share of a      *)
(* transfer lies in the piece main is at, and in the file.                 *)
THEOREM StaysInPiece == Spec => []ShareInsidePiece
<1>1. ASSUME PInv PROVE ShareInsidePiece
  <2> SUFFICES ASSUME mpc \in {"broadcast", "test", "finish"},
                      NEW t \in Threads \ finished_threads, pc[t] = "copy", last[t] = transfer
               PROVE  /\ data1 <= data_begin[t] /\ data_begin[t] + unit[t] <= data1 + size
                      /\ data1 + size <= FILE_SIZE
    BY DEF ShareInsidePiece
  <2>1. offset[t] + unit[t] <= size
    BY <1>1, ShareFits DEF PInv
  <2>2. data1 + size <= FILE_SIZE
    BY <1>1, PieceFits DEF PInv
  <2> QED
    BY <1>1, <2>1, <2>2 DEF PInv, Fresh, TypeOK
<1> QED
  BY PieceInvariance, <1>1, PTL

-----------------------------------------------------------------------------

(* What a thread that is not early takes belongs to the transfer main      *)
(* waits for, and main waits until it is done.                             *)
OnTime ==
    \A t \in Threads \ early :
        /\ pc[t] \in {"begin", "copy", "finished"} =>
               t \notin finished_threads /\ mpc \in {"broadcast", "test", "finish"}
        /\ pc[t] = "copy" => last[t] = transfer

(* A copy that is on time stays inside the mapping and inside buf.         *)
LEMMA OnTimeInside ==
    ASSUME PInv, OnTime, NEW t \in Threads \ early, pc[t] = "copy"
    PROVE  ~Outside(t)
<1>1. /\ mpc \in {"broadcast", "test", "finish"}
      /\ t \notin finished_threads /\ last[t] = transfer
  BY DEF OnTime
<1>2. offset[t] + unit[t] <= size
  BY ShareFits DEF PInv
<1>3. data1 + size <= FILE_SIZE
  BY <1>1, PieceFits DEF PInv
<1>4. size <= END_SIZE
  BY <1>1 DEF PInv, Pieces
<1>5. data_begin[t] = data1 + offset[t]
  BY <1>1 DEF PInv, Fresh
<1> QED
  BY <1>2, <1>3, <1>4, <1>5, SizesAssumption DEF PInv, TypeOK, Outside

(* Every step keeps OnTime and kills only through a thread that is early.  *)
LEMMA OnTimeStep ==
    ASSUME IInv, PInv, OnTime, KilledOnlyEarly, [Next]_vars
    PROVE  OnTime' /\ KilledOnlyEarly'
<1> USE DEF TypeOK, Positions, main, locals, Goto, OnTime, KilledOnlyEarly
<1>1. TypeOK
  BY DEF IInv
<1>2. CASE CreateThread
  BY <1>1, <1>2 DEF CreateThread
<1>3. CASE NextSize \/ Rewind \/ Advance
  BY <1>1, <1>3 DEF NextSize, Rewind, Advance
<1>4. CASE SetThreads
  <2>1. \A t \in Threads \ early : pc[t] \notin {"begin", "copy", "finished"}
    BY <1>4 DEF SetThreads
  <2> QED
    BY <1>1, <1>4, <2>1 DEF SetThreads
<1>5. CASE Broadcast
  BY <1>1, <1>5 DEF Broadcast
<1>6. CASE TestFinished
  BY <1>1, <1>6 DEF TestFinished
<1>7. CASE SpuriousFinish \/ UNCHANGED vars
  BY <1>1, <1>7 DEF SpuriousFinish, vars
<1>8. ASSUME NEW t \in Threads, Take(t) PROVE OnTime' /\ KilledOnlyEarly'
  <2>1. t \notin finished_threads => mpc \in {"broadcast", "test", "finish"}
    <3>1. mpc # "killed"
      BY <1>8 DEF Take, IInv, Settled
    <3> QED
      BY <1>1, <1>8, <3>1 DEF Take, IInv, Idle, Settled
  <2> QED
    BY <1>1, <1>8, <2>1 DEF Take
<1>9. ASSUME NEW t \in Threads, ReadData1(t) PROVE OnTime' /\ KilledOnlyEarly'
  BY <1>1, <1>9 DEF ReadData1
<1>10. ASSUME NEW t \in Threads, Fault(t) PROVE OnTime' /\ KilledOnlyEarly'
  <2>1. t \in early
    BY <1>10, OnTimeInside DEF Fault
  <2> QED
    BY <1>1, <1>10, <2>1 DEF Fault
<1>11. ASSUME NEW t \in Threads, SetFinished(t) PROVE OnTime' /\ KilledOnlyEarly'
  BY <1>1, <1>11 DEF SetFinished
<1>12. ASSUME NEW t \in Threads, Start(t) \/ ReadUnit(t) \/ AwaitReady(t) \/ Copy(t)
                                  \/ CheckFinished(t) \/ Signal(t) \/ SpuriousReady(t)
       PROVE  OnTime' /\ KilledOnlyEarly'
  BY <1>1, <1>12 DEF Start, ReadUnit, AwaitReady, Copy, CheckFinished, Signal, SpuriousReady
<1> QED
  BY <1>2, <1>3, <1>4, <1>5, <1>6, <1>7, <1>8, <1>9, <1>10, <1>11, <1>12
     DEF Next, Main, Transfer

(* Only a thread that has begun anew with its bit still set can kill the   *)
(* process; whoever takes each transfer once copies inside the mapping and *)
(* inside buf, whatever the sizes and however stale its own.               *)
THEOREM KillsOnlyEarly == Spec => []KilledOnlyEarly
<1>1. Init => OnTime /\ KilledOnlyEarly
  BY DEF Init, OnTime, KilledOnlyEarly
<1>2. IInv /\ PInv /\ OnTime /\ KilledOnlyEarly /\ [Next]_vars
         => OnTime' /\ KilledOnlyEarly'
  BY OnTimeStep
<1> QED
  BY Invariance, PieceInvariance, <1>1, <1>2, PTL DEF Spec
============================================================================
