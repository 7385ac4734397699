-------------------------- MODULE StoragePrograms --------------------------
(***************************************************************************)
(* The single-threaded programs, which share one file: somebody runs one   *)
(* after another from the shell, and the machine may crash at any time.    *)
(*                                                                         *)
(* A program is the sequence of its steps, computed from its command line  *)
(* with the loops unrolled; the actions below take the first step off.     *)
(* Steps that no property depends on are left out: the usage message,      *)
(* clocks, output, close, free, and seeks to where the offset already is.  *)
(* Characters are their codes; 0 is what unwritten memory holds.           *)
(***************************************************************************)
EXTENDS RamdiskFile

CONSTANTS
    EndSize,        \* END_SIZE, the size of the buffer (not the same in all programs)
    MaxFile,        \* the size of the RAM disk, 2147483648
    Records,        \* numrecs64 of iozone_test.c
    Commands,       \* the command lines that are tried
    MaxRuns         \* bound: programs that are run

Programs ==
    {"integrity_test2_write", "integrity_test2_direct", "integrity_test2_read", "mmap_write",
     "mmap_read", "mmap_to_ram", "msync-test", "mprotect-test", "munmap-test",
     "latency_write", "latency_direct", "latency_read", "read_from_ram", "write_to_ram",
     "rewrite", "pwrite", "fsync", "random_perf_test", "iozone_test"}

(* A command line names a program, and gives a request size, a file size,  *)
(* the first character of the pattern, and an offset and a number of times *)
(* to rewrite.  The file of iozone_test fits the RAM disk, and the buffer  *)
(* of write_to_ram its requests, which it does not check itself.           *)
ASSUME StorageAssumption ==
    /\ EndSize \in Nat /\ EndSize > Page
    /\ MaxFile \in Nat /\ MaxFile >= Page
    /\ Records \in Nat \ {0} /\ Records * Page <= MaxFile
    /\ MaxRuns \in Nat
    /\ Commands \subseteq
           [prog : Programs, req : Int, file : Nat, c : 1 .. 126, at : Nat, times : Nat]
    /\ \A x \in Commands : x.prog = "write_to_ram" => x.req \in 0 .. EndSize

VARIABLES
    cmd,            \* the command line of the program: its name and arguments
    todo,           \* the steps it has still to take
    pos,            \* the offset of its descriptor
    buf, recnum,    \* its buffer and its random order
    reported,       \* whether it has printed an error
    end,            \* how it ended, if not well
    short,          \* history: whether a write was short,
    trusted,        \* and the command that filled the file without an error
    runs

program == <<cmd, runs, trusted>>
memory == <<buf, recnum>>
outcome == <<reported, end, short>>
vars == <<file, disk, program, todo, pos, memory, outcome>>

-----------------------------------------------------------------------------
(* Command lines.  atoi gives an int, and END_SIZE is an unsigned long.    *)

Size(x) == IF x.req < 0 \/ x.req > EndSize THEN EndSize ELSE x.req

FileSize(x) == Greatest(Page, Least(x.file, MaxFile))

Count(x) == IF Size(x) = 0 THEN 0 ELSE FileSize(x) \div Size(x)

(* c++; if (c > 'z') c = 'A'; *)
Bump(c) == IF c + 1 > 122 THEN 65 ELSE c + 1

(* The character of each block. *)
Pattern(x) ==
    LET c[i \in 0 .. MaxFile] == IF i = 0 THEN x.c ELSE Bump(c[i - 1])
    IN  c

-----------------------------------------------------------------------------
(* Steps.  A short read or write is ignored, or reported, or ends the      *)
(* program; want is the character a block should begin and end with.       *)

AnyByte == 0

Open == [op |-> "open"]
Seek(at) == [op |-> "seek", at |-> at]
SeekRecord(i) == [op |-> "seekrecord", i |-> i]
Fill(c, n) == [op |-> "fill", c |-> c, n |-> n]
Read(n, want, iferr) == [op |-> "read", n |-> n, want |-> want, iferr |-> iferr]
Write(n, iferr) == [op |-> "write", n |-> n, iferr |-> iferr]
Store(at, n, c, limit) == [op |-> "store", at |-> at, n |-> n, c |-> c, limit |-> limit]
Load(at, n) == [op |-> "load", at |-> at, n |-> n]
Fsync == [op |-> "sync", lo |-> 0, hi |-> MaxFile + EndSize]
Msync(lo, hi) == [op |-> "sync", lo |-> lo, hi |-> hi]
Unlink == [op |-> "unlink"]
DivideBy(n) == [op |-> "divide", n |-> n]
Swap(i, n) == [op |-> "swap", i |-> i, n |-> n]

Repeat(n, Steps(_)) == FlattenSeq([i \in 1 .. n |-> Steps(i)])

-----------------------------------------------------------------------------
(* Programs *)

IntegrityWrite(x) ==
    <<Open, Fill(x.c, Size(x)), DivideBy(Size(x))>>
    \o Repeat(Count(x), LAMBDA i :
           <<Write(Size(x), "report"), Fill(Pattern(x)[i], Size(x))>>)

(* O_DIRECT: a write that is not aligned may fail, as any write may here.  *)
IntegrityDirect(x) == IntegrityWrite(x)

(* Mutant: c++ before the block is compared. *)
IntegrityReadAhead(x) ==
    <<Open, Fill(x.c, Size(x)), DivideBy(Size(x))>>
    \o Repeat(Count(x), LAMBDA i : <<Read(Size(x), Pattern(x)[i], "report")>>)

IntegrityRead(x) ==
    <<Open, Fill(x.c, Size(x)), DivideBy(Size(x))>>
    \o Repeat(Count(x), LAMBDA i : <<Read(Size(x), Pattern(x)[i - 1], "report")>>)

(* The 40 bytes that are overwritten behind the msync are one here.        *)
MmapWrite(x) ==
    <<Open, DivideBy(Size(x))>>
    \o Repeat(Count(x), LAMBDA i :
           <<Store(Size(x) * (i - 1), Size(x), Pattern(x)[i - 1], FileSize(x))>>)
    \o <<DivideBy(Count(x)), Msync(0, FileSize(x)), Store(0, 1, 100, FileSize(x))>>

(* Mutant: a file size below END_SIZE writes nothing. *)
MmapReadUnfilled(x) ==
    <<Open>>
    \o Repeat(FileSize(x) \div EndSize, LAMBDA i : <<Write(EndSize, "ignore")>>)
    \o <<DivideBy(Size(x))>>
    \o Repeat(Count(x), LAMBDA i : <<Load(Size(x) * (i - 1), Size(x))>>)
    \o <<DivideBy(Count(x)), Msync(0, FileSize(x))>>

MmapRead(x) ==
    <<Open>>
    \o Repeat(Greatest(1, FileSize(x) \div EndSize), LAMBDA i : <<Write(EndSize, "ignore")>>)
    \o <<DivideBy(Size(x))>>
    \o Repeat(Count(x), LAMBDA i : <<Load(Size(x) * (i - 1), Size(x))>>)
    \o <<DivideBy(Count(x)), Msync(0, FileSize(x))>>

MmapToRam(x) ==
    <<Open>>
    \o Repeat(FileSize(x) \div Page, LAMBDA i : <<Store(Page * (i - 1), Page, 65, FileSize(x))>>)

(* msync-test.c and mprotect-test.c first fill the file with 'a', from a   *)
(* buffer of bufsize bytes, an alignment too and so a power of two.        *)
BufSize(x) == Least(EndSize, FileSize(x))

FilledWithA(x, steps) ==
    IF \A k \in 0 .. BufSize(x) : BufSize(x) # 2 ^ k THEN <<>>
    ELSE <<Open, Fill(97, BufSize(x))>>
         \o Repeat(FileSize(x) \div BufSize(x), LAMBDA i : <<Write(BufSize(x), "ignore")>>)
         \o <<DivideBy(Size(x))>> \o steps

MsyncTest(x) ==
    FilledWithA(x,
        <<Store(0, Size(x), x.c, FileSize(x)), Msync(0, FileSize(x)), DivideBy(Count(x)),
          Store(0, 1, 100, FileSize(x)), Msync(0, FileSize(x)),
          Store(0, 1, 97, FileSize(x)), Msync(0, FileSize(x)), Msync(0, FileSize(x))>>)

MprotectTest(x) ==
    FilledWithA(x,
        <<Seek(0), DivideBy(Count(x)), Msync(0, FileSize(x)), Store(0, 1, 100, FileSize(x)),
          Fill(122, BufSize(x)), Write(BufSize(x), "ignore")>>)

MunmapTest(x) ==
    <<Open, Fill(97, Page)>>
    \o Repeat(FileSize(x) \div Page, LAMBDA i : <<Write(Page, "ignore")>>)
    \o <<Store(0, Page, 98, Page), Store(2 * Page, Page, 99, 3 * Page),
         Msync(2 * Page, 3 * Page)>>

(* Mutant: one fsync behind the loop. *)
LatencyWriteSyncedOnce(x) ==
    <<Open, Fill(x.c, Size(x)), DivideBy(Size(x))>>
    \o Repeat(Count(x), LAMBDA i : <<Write(Size(x), "report")>>)
    \o <<Fsync, DivideBy(Count(x))>>

LatencyWrite(x) ==
    <<Open, Fill(x.c, Size(x)), DivideBy(Size(x))>>
    \o Repeat(Count(x), LAMBDA i : <<Write(Size(x), "report"), Fsync>>)
    \o <<DivideBy(Count(x))>>

LatencyDirect(x) ==
    <<Open, Fill(x.c, Size(x)), DivideBy(Size(x))>>
    \o Repeat(Count(x), LAMBDA i : <<Write(Size(x), "report")>>)
    \o <<DivideBy(Count(x))>>

LatencyRead(x) ==
    <<Open, Fill(x.c, Size(x)), DivideBy(Size(x))>>
    \o Repeat(Count(x), LAMBDA i : <<Read(Size(x), AnyByte, "report")>>)
    \o <<DivideBy(Count(x))>>

ReadFromRam(x) ==
    Repeat(3, LAMBDA j :
        <<Open, Read(Page, AnyByte, "report"), Seek(0)>>
        \o Repeat(FileSize(x) \div Page, LAMBDA i : <<Read(Page, AnyByte, "ignore")>>))

(* rm -rf, and then request sizes up to END_SIZE. *)
WriteToRam(x) ==
    <<Unlink, Open, Fill(97, x.req), DivideBy(x.req)>>
    \o Repeat(Count(x), LAMBDA i : <<Write(x.req, "ignore")>>)
    \o <<DivideBy(Count(x))>>

Rewrite(x) ==
    <<Open, Fill(97 + (x.times % 26), Size(x))>>
    \o Repeat(x.times, LAMBDA i : <<Seek(x.at), Write(Size(x), "report")>>)
    \o <<DivideBy(x.times)>>

Pwrite(x) == <<Open, Fill(97, 1), Write(Page, "ignore")>>

FsyncOnly(x) == <<Open, Fsync>>

Shuffle(n) == Repeat(n, LAMBDA i : <<Swap(i - 1, n)>>)

(* Blocks in random order are read twice, then written.                    *)
RandomPerfTest(x) ==
    LET n == FileSize(x) \div Page
        Pass(j) == Repeat(n, LAMBDA i :
            <<SeekRecord(i - 1),
              IF j < 3 THEN Read(Page, AnyByte, "report") ELSE Write(Page, "report")>>)
    IN  Shuffle(n) \o Repeat(3, LAMBDA j :
            <<Open, Fill(0, Page), Read(Page, AnyByte, "report"), Seek(0)>> \o Pass(j))

write_perf_test1 ==
    Repeat(3, LAMBDA j :
        <<Open, Fsync>> \o Repeat(Records, LAMBDA i : <<Write(Page, "report")>>))

(* Mutant: no lseek after the read that primes the cache. *)
read_without_rewind ==
    Repeat(3, LAMBDA j :
        <<Open, Fsync, Read(Page, AnyByte, "exit")>>
        \o Repeat(Records, LAMBDA i : <<Read(Page, AnyByte, "exit")>>) \o <<Fsync>>)

read_perf_test ==
    Repeat(3, LAMBDA j :
        <<Open, Fsync, Read(Page, AnyByte, "exit"), Seek(0)>>
        \o Repeat(Records, LAMBDA i : <<Read(Page, AnyByte, "exit")>>) \o <<Fsync>>)

random_perf_test ==
    Shuffle(Records) \o Repeat(2, LAMBDA j :
        <<Open>>
        \o Repeat(Records, LAMBDA i :
            <<SeekRecord(i - 1),
              IF j = 1 THEN Read(Page, AnyByte, "exit") ELSE Write(Page, "report")>>)
        \o <<Fsync>>)

Iozone(x) == write_perf_test1 \o read_perf_test \o random_perf_test

Script(x) ==
    CASE x.prog = "integrity_test2_write"  -> IntegrityWrite(x)
      [] x.prog = "integrity_test2_direct" -> IntegrityDirect(x)
      [] x.prog = "integrity_test2_read"   -> IntegrityRead(x)
      [] x.prog = "mmap_write"             -> MmapWrite(x)
      [] x.prog = "mmap_read"              -> MmapRead(x)
      [] x.prog = "mmap_to_ram"            -> MmapToRam(x)
      [] x.prog = "msync-test"             -> MsyncTest(x)
      [] x.prog = "mprotect-test"          -> MprotectTest(x)
      [] x.prog = "munmap-test"            -> MunmapTest(x)
      [] x.prog = "latency_write"          -> LatencyWrite(x)
      [] x.prog = "latency_direct"         -> LatencyDirect(x)
      [] x.prog = "latency_read"           -> LatencyRead(x)
      [] x.prog = "read_from_ram"          -> ReadFromRam(x)
      [] x.prog = "write_to_ram"           -> WriteToRam(x)
      [] x.prog = "rewrite"                -> Rewrite(x)
      [] x.prog = "pwrite"                 -> Pwrite(x)
      [] x.prog = "fsync"                  -> FsyncOnly(x)
      [] x.prog = "random_perf_test"       -> RandomPerfTest(x)
      [] x.prog = "iozone_test"            -> Iozone(x)

-----------------------------------------------------------------------------

NoCommand == [prog |-> "none"]

Init ==
    /\ file = <<>> /\ disk = <<>>
    /\ cmd = NoCommand /\ trusted = NoCommand /\ runs = 0
    /\ todo = <<>>
    /\ pos = 0
    /\ buf = [k \in 1 .. EndSize |-> 0]
    /\ recnum = [i \in 0 .. MaxFile |-> i]
    /\ reported = FALSE /\ end = "well"
    /\ short = FALSE

Writers == {"integrity_test2_write", "integrity_test2_direct"}

(* The command that has filled the file, if it had nothing to report.      *)
Run(x) ==
    /\ todo = <<>> /\ runs < MaxRuns
    /\ runs' = runs + 1
    /\ cmd' = x
    /\ todo' = Script(x)
    /\ trusted' = IF end = "well" /\ ~reported /\ cmd.prog \in Writers THEN cmd ELSE NoCommand
    /\ pos' = 0
    /\ buf' = [k \in 1 .. EndSize |-> 0]
    /\ recnum' = [i \in 0 .. MaxFile |-> i]
    /\ reported' = FALSE /\ end' = "well"
    /\ short' = FALSE
    /\ UNCHANGED <<file, disk>>

step == Head(todo)

Takes(op) == todo # <<>> /\ step.op = op

Goes == todo' = Tail(todo) /\ UNCHANGED program

Dies(how) == todo' = <<>> /\ end' = how /\ UNCHANGED program

(* What a program does about a read or a write that went wrong or not.     *)
Checks(wrong) ==
    /\ reported' = (reported \/ (wrong /\ step.iferr = "report"))
    /\ IF wrong /\ step.iferr = "exit" THEN Dies("exit") ELSE Goes /\ UNCHANGED end

MoveTo ==
    /\ \/ Takes("open") /\ pos' = 0
       \/ Takes("seek") /\ pos' = step.at
       \/ Takes("seekrecord") /\ pos' = recnum[step.i] * Page
    /\ Goes
    /\ UNCHANGED <<file, disk, memory, outcome>>

Memset ==
    /\ Takes("fill") /\ Goes
    /\ buf' = [k \in DOMAIN buf |-> IF k <= step.n THEN step.c ELSE buf[k]]
    /\ UNCHANGED <<file, disk, pos, recnum, outcome>>

(* Mutant: the number of bytes is not compared. *)
ReadUnchecked ==
    /\ Takes("read")
    /\ buf' = Spliced(buf, 0, Piece(pos, step.n))
    /\ pos' = pos + Len(Piece(pos, step.n))
    /\ Checks(step.want # AnyByte /\ {buf'[1], buf'[step.n]} # {step.want})
    /\ UNCHANGED <<file, disk, recnum, short>>

ReadBlock ==
    /\ Takes("read")
    /\ buf' = Spliced(buf, 0, Piece(pos, step.n))
    /\ pos' = pos + Len(Piece(pos, step.n))
    /\ Checks(\/ Len(Piece(pos, step.n)) # step.n
              \/ step.want # AnyByte /\ {buf'[1], buf'[step.n]} # {step.want})
    /\ UNCHANGED <<file, disk, recnum, short>>

(* A write may fail, or write less than it was asked to.                   *)
WriteBlock ==
    /\ Takes("write")
    /\ \E ret \in 0 .. step.n :
           /\ file' = Spliced(file, pos, SubSeq(buf, 1, ret))
           /\ pos' = pos + ret
           /\ short' = (short \/ ret # step.n)
           /\ Checks(ret # step.n)
    /\ UNCHANGED <<disk, memory>>

(* A store or load beyond the last page of the file is a SIGBUS, after     *)
(* what comes before it; one beyond the mapping hits it or something else. *)
StoreMapped ==
    /\ Takes("store")
    /\ file' = Stored(step.at, Least(step.n, step.limit - step.at), step.c)
    /\ \/ /\ step.at + step.n <= Mapped \/ step.at + step.n > step.limit
          /\ Goes /\ UNCHANGED end
       \/ /\ step.at + step.n > Mapped \/ step.at + step.n > step.limit
          /\ Dies("SIGBUS")
    /\ UNCHANGED <<disk, pos, memory, reported, short>>

LoadMapped ==
    /\ Takes("load")
    /\ IF step.at + step.n <= Mapped THEN Goes /\ UNCHANGED end ELSE Dies("SIGBUS")
    /\ UNCHANGED <<file, disk, pos, memory, reported, short>>

(* fsync and msync(MS_SYNC) *)
Sync ==
    /\ Takes("sync") /\ Goes
    /\ disk' = Flushed(step.lo, step.hi)
    /\ UNCHANGED <<file, pos, memory, outcome>>

(* The removal is taken to be durable at once: no property depends on it.  *)
RemoveFile ==
    /\ Takes("unlink") /\ Goes
    /\ file' = <<>> /\ disk' = <<>>
    /\ UNCHANGED <<pos, memory, outcome>>

Divide ==
    /\ Takes("divide")
    /\ IF step.n # 0 THEN Goes /\ UNCHANGED end ELSE Dies("SIGFPE")
    /\ UNCHANGED <<file, disk, pos, memory, reported, short>>

(* Mutant: the card at big_rand is lost. *)
SwapLossy ==
    /\ Takes("swap") /\ Goes
    /\ \E big_rand \in 0 .. step.n - 1 :
           recnum' = [recnum EXCEPT ![step.i] = recnum[big_rand]]
    /\ UNCHANGED <<file, disk, pos, buf, outcome>>

SwapCards ==
    /\ Takes("swap") /\ Goes
    /\ \E big_rand \in 0 .. step.n - 1 :
           recnum' = [recnum EXCEPT ![step.i] = recnum[big_rand],
                                    ![big_rand] = recnum[step.i]]
    /\ UNCHANGED <<file, disk, pos, buf, outcome>>

Crash ==
    /\ runs > 0 /\ end # "crash"
    /\ Lost
    /\ todo' = <<>> /\ end' = "crash"
    /\ UNCHANGED <<program, pos, memory, reported, short>>

Next ==
    \/ \E x \in Commands : Run(x)
    \/ MoveTo \/ Memset \/ ReadBlock \/ WriteBlock \/ StoreMapped \/ LoadMapped
    \/ Sync \/ RemoveFile \/ Divide \/ SwapCards
    \/ Writeback /\ UNCHANGED <<program, todo, pos, memory, outcome>>
    \/ Crash

Spec == Init /\ [][Next]_vars

-----------------------------------------------------------------------------

EndsWell(progs) == cmd.prog \in progs /\ todo = <<>> /\ end = "well"

(* What a silent writer has written the reader finds, given the same       *)
(* arguments: it prints no error                                           *)
(* (integrity_test2_write.c:90-104, integrity_test2_direct.c:89-102,       *)
(* integrity_test2_read.c:92-108).                                         *)
WrittenIsReadBack ==
    /\ cmd.prog = "integrity_test2_read"
    /\ trusted # NoCommand
    /\ [trusted EXCEPT !.prog = cmd.prog] = cmd
    => ~reported

(* A silent reader has seen the pattern: every block of the file is there, *)
(* and begins and ends with its character, although a short read leaves    *)
(* the buffer as it was (integrity_test2_read.c:97-108).                   *)
SilenceMeansPattern ==
    EndsWell({"integrity_test2_read"}) /\ ~reported =>
        \A i \in 0 .. Count(cmd) - 1 :
            /\ Len(file) >= (i + 1) * Size(cmd)
            /\ file[i * Size(cmd) + 1] = Pattern(cmd)[i]
            /\ file[(i + 1) * Size(cmd)] = Pattern(cmd)[i]

(* A pass in random order writes every block: when the two programs that   *)
(* shuffle end without an error, all blocks hold what the last read has    *)
(* left in the buffer (random_perf_test.c:102-147,                         *)
(* iozone_test.c:514-525,581-606).                                         *)
RandomPassWritesAll ==
    EndsWell({"random_perf_test", "iozone_test"}) /\ ~reported =>
        LET n == IF cmd.prog = "iozone_test" THEN Records ELSE FileSize(cmd) \div Page
        IN  \A k \in 1 .. n * Page : k <= Len(file) /\ file[k] = buf[((k - 1) % Page) + 1]

(* A crash at any time, also a later one, leaves all blocks that           *)
(* latency_write has written but the one it is about to fsync, and the     *)
(* pattern that mmap_write has msynced, but for the first bytes it         *)
(* overwrites afterwards (latency_write.c:90-94, mmap_write.c:196-218).    *)
AckedSurvives ==
    /\ cmd.prog = "latency_write" /\ ~short =>
           \A k \in 1 .. IF EndsWell({cmd.prog}) THEN pos ELSE pos - Size(cmd) :
               k <= Len(disk) /\ disk[k] = cmd.c
    /\ EndsWell({"mmap_write"}) =>
           \A k \in 1 .. Least(Count(cmd) * Size(cmd), Len(file)) :
               /\ k <= Len(disk)
               /\ \/ disk[k] = Pattern(cmd)[(k - 1) \div Size(cmd)]
                  \/ k = 1 /\ disk[k] = 100

(* Nobody touches a page behind the end of the file, unless a write was    *)
(* short, or it is one of the programs that take the file as it is and it  *)
(* is too short for the file size given, or the file size is               *)
(*  - no multiple of END_SIZE, to which mmap_read rounds down,             *)
(*  - less than the three pages munmap-test uses, or                       *)
(*  - less than the request size of msync-test                             *)
(* (mmap_write.c:187-198, mmap_to_ram.c:95-138, mmap_read.c:79-101,        *)
(* munmap-test.c:74-88, msync-test.c:77-115).                              *)
BusErrorsExplained ==
    end = "SIGBUS" /\ ~short =>
        \/ cmd.prog \in {"mmap_write", "mmap_to_ram"} /\ Len(file) < FileSize(cmd)
        \/ cmd.prog = "mmap_read" /\ FileSize(cmd) > EndSize /\ FileSize(cmd) % EndSize # 0
        \/ cmd.prog = "munmap-test" /\ FileSize(cmd) < 3 * Page
        \/ cmd.prog = "msync-test" /\ Size(cmd) > FileSize(cmd)

(* iozone_test reads only what it has written before: it does not exit in  *)
(* a read but after a write it has complained about                        *)
(* (iozone_test.c:402-467,93-165,534-577).                                 *)
ExitsOnlyAfterError == cmd.prog = "iozone_test" /\ end = "exit" => reported
============================================================================
