--------------------------- MODULE NoposixBench ---------------------------
(***************************************************************************)
(* pthread_test_noposix.c: main and num_threads threads, kept in step by   *)
(* the doorbells, read one file through libnoposix.  Every thread has a    *)
(* descriptor, hence an NVFile and a tree, of its own, and a share of      *)
(* FILE_SIZE / num_threads bytes; the descriptors are numbered like their  *)
(* threads.  hit_count and mmap_count are shared by all without a lock, so *)
(* an increment is a load and, later, a store.                             *)
(*                                                                         *)
(* The file has the length that open1 finds, whatever FILE_SIZE says: the  *)
(* program that filled it may have had another file size, or the file is   *)
(* new.  A read behind its end returns nothing, one across it too little.  *)
(*                                                                         *)
(* The behaviours start when main has opened the file for every thread     *)
(* (line 225).                                                             *)
(***************************************************************************)
EXTENDS Doorbell, MmapTree, Sequences

CONSTANTS
    FILE_SIZE,      \* the file size of the command line
    Selectable,     \* what may stand for $fops there
    file,           \* the one file,
    FILE_LENGTH     \* and its st_size

(* START_SIZE is the size of the warm-up too, and main cuts FILE_SIZE to   *)
(* what a tree of one table can hold.                                      *)
ASSUME BenchAssumption ==
    /\ FileSizes = {FILE_SIZE}
    /\ FILE_LENGTH \in Nat
    /\ FILE_SIZE <= CHUNK * FANOUT
    /\ CHUNK % START_SIZE = 0
    /\ Selectable \subseteq {"read", "pread", "write", "pwrite"}

VARIABLES
    nvf, heap, maps, hit_count, mmap_count,     \* libnoposix
    fops,       \* the operation main selected; its variable is local
    warm,       \* main is still warming up
    left,       \* iterations each for loop over count has left
    offset,     \* each loop's offset
    step,       \* where each thread is in its read
    reg,        \* the value of a counter that a thread is about to increment
    errors,     \* for whose descriptor and which size ERROR! was printed
    found       \* reads that found their chunk mapped, however counted

lvars == <<nvf, heap, maps, hit_count, mmap_count>>
tvars == <<left, offset, step, reg, errors, found>>
bvars == <<vars, lvars, tvars, fops, warm>>

(* No read goes near the ends of the machine's words here. *)
Lib == INSTANCE NoposixFile
         WITH Fds <- Threads, Paths <- {file}, FileLength <- [p \in {file} |-> FILE_LENGTH],
              WORD <- 4 * (FILE_SIZE + FILE_LENGTH), Sizes <- {}, Offsets <- {}, Seeks <- {}, Openings <- {},
              MaxOpens <- N, MaxMmaps <- N * FANOUT, MaxHits <- 0,
              kernel <- [t \in Threads |-> [path |-> file, oflag |-> 2]],
              ret <- 0, opens <- N, aborted <- FALSE

(* main's fops hides the global one, which keeps the value it starts with. *)
thread_fops == "read"

CALL == <<"call", 0>>       \* about to call read1 or pread1
FOUND == <<"found", 0>>     \* about to store hit_count; a mapping stands
                            \* for being about to store mmap_count

(* Mutant: forgets that the threads share the file. *)
CountAll(size) == FILE_SIZE \div size

(* How often a thread reads a piece of that size.                          *)
Count(size) == FILE_SIZE \div (N * size)

StartOffset(t) == (FILE_SIZE \div N) * t

Seek(t, at) == nvf' = [nvf EXCEPT ![t].offset = at]

BInit ==
    /\ Init
    /\ nvf = [t \in Threads |->
                [valid |-> TRUE, canRead |-> TRUE, canWrite |-> TRUE, offset |-> 0,
                 length |-> FILE_LENGTH, root |-> Table(t + 1), height |-> 0]]
    /\ heap = [a \in {Table(t + 1) : t \in Threads} |-> EmptyTable]
    /\ maps = <<>>
    /\ hit_count = 0 /\ mmap_count = 0
    /\ fops \in Selectable
    /\ warm = TRUE
    /\ left = [t \in Threads |-> Count(START_SIZE)]
    /\ offset = [t \in Threads |-> StartOffset(t)]
    /\ step = [t \in Threads |-> CALL]
    /\ reg = [t \in Threads |-> 0]
    /\ errors = {}
    /\ found = 0

-----------------------------------------------------------------------------
(* One iteration of the loop over count, on descriptor t with operation op *)

(* read1 reads at the descriptor's offset, pread1 at the loop's. *)
Position(t, op) == IF op = "read" THEN nvf[t].offset ELSE offset[t]

Length(t, op, size) == Lib!ReadLength(t, size, Position(t, op))
ChunkAt(t, op) == Lookup(heap, nvf[t].root, nvf[t].height, Position(t, op))

(* The call has returned n bytes. *)
Iterated(t, op, size, n) ==
    /\ errors' = IF n = size THEN errors ELSE errors \cup {<<t, size>>}
    /\ left' = [left EXCEPT ![t] = @ - 1]
    /\ offset' = [offset EXCEPT ![t] = @ + size]
    /\ step' = [step EXCEPT ![t] = CALL]

(* write1 and pwrite1 do nothing, and so do reads behind the file. *)
NoEffect(t, op, size) ==
    /\ step[t] = CALL
    /\ op \in {"write", "pwrite"} \/ Length(t, op, size) = 0
    /\ Iterated(t, op, size, IF op \in {"write", "pwrite"} THEN size ELSE 0)
    /\ UNCHANGED <<lvars, reg, found>>

(* get_mmap_address finds the chunk, and loads hit_count; *)
FindChunk(t, op, size) ==
    /\ step[t] = CALL
    /\ op \in {"read", "pread"}
    /\ Length(t, op, size) > 0
    /\ ChunkAt(t, op) # NULL
    /\ step' = [step EXCEPT ![t] = FOUND]
    /\ reg' = [reg EXCEPT ![t] = hit_count]
    /\ found' = found + 1
    /\ UNCHANGED <<lvars, left, offset, errors>>

(* or it maps the chunk, and loads mmap_count; *)
MapChunk(t, op, size) ==
    /\ step[t] = CALL
    /\ op \in {"read", "pread"}
    /\ Length(t, op, size) > 0
    /\ ChunkAt(t, op) = NULL
    /\ maps' = Append(maps, [path |-> file, chunk |-> Position(t, op) \div CHUNK,
                             prot |-> {"r", "w"}])
    /\ step' = [step EXCEPT ![t] = Mapping(Len(maps) + 1)]
    /\ reg' = [reg EXCEPT ![t] = mmap_count]
    /\ UNCHANGED <<nvf, heap, hit_count, mmap_count, left, offset, errors, found>>

(* Mutant: hit_count++ has moved behind the label done. *)
CountedTwice(t, isNew) ==
    /\ hit_count' = reg[t] + 1
    /\ mmap_count' = IF isNew THEN reg[t] + 1 ELSE mmap_count

Counted(t, isNew) ==
    /\ hit_count' = IF isNew THEN hit_count ELSE reg[t] + 1
    /\ mmap_count' = IF isNew THEN reg[t] + 1 ELSE mmap_count

(* the counter is stored, a new mapping entered into the tree, and the     *)
(* read returns.                                                           *)
ReturnRead(t, op, size) ==
    LET isNew == step[t] # FOUND
        mapping == IF isNew THEN step[t] ELSE ChunkAt(t, op)
        tree == WithMapping(heap, nvf[t].root, nvf[t].height, Position(t, op), mapping)
        n == Lib!Bytes(t, Position(t, op), Length(t, op, size), mapping).n
    IN
    /\ step[t] # CALL
    /\ Counted(t, isNew)
    /\ heap' = IF isNew THEN tree.heap ELSE heap
    /\ nvf' = [nvf EXCEPT ![t].offset = IF op = "read" THEN @ + n ELSE @,
                          ![t].root = IF isNew THEN tree.root ELSE @,
                          ![t].height = IF isNew THEN tree.height ELSE @]
    /\ Iterated(t, op, size, n)
    /\ reg' = [reg EXCEPT ![t] = 0]
    /\ UNCHANGED <<maps, found>>

Iterate(t, op, size) ==
    /\ left[t] > 0
    /\ \/ NoEffect(t, op, size)
       \/ FindChunk(t, op, size)
       \/ MapChunk(t, op, size)
       \/ ReturnRead(t, op, size)

-----------------------------------------------------------------------------
(* main *)

(* The warm-up: each thread's share in turn, with the selected operation.  *)
WarmSeek ==
    /\ warm /\ step[mi] = CALL /\ left[mi] = Count(START_SIZE)
    /\ fops \in {"read", "write"} /\ nvf[mi].offset # StartOffset(mi)
    /\ Seek(mi, StartOffset(mi))
    /\ UNCHANGED <<vars, heap, maps, hit_count, mmap_count, tvars, fops, warm>>

WarmIterate ==
    /\ warm = TRUE
    /\ fops \in {"read", "write"} /\ left[mi] = Count(START_SIZE) =>
           nvf[mi].offset = StartOffset(mi)
    /\ Iterate(mi, fops, START_SIZE)
    /\ UNCHANGED <<vars, fops, warm>>

(* Mutant: only the first share is warmed up. *)
WarmFirstOnly ==
    /\ warm /\ left[mi] = 0
    /\ mi' = 0
    /\ warm' = FALSE
    /\ UNCHANGED <<doorbell, mpc, mround, pc, round, timed, lvars, tvars, fops>>

WarmNext ==
    /\ warm /\ left[mi] = 0
    /\ mi' = IF mi + 1 = N THEN 0 ELSE mi + 1
    /\ warm' = (mi + 1 # N)
    /\ UNCHANGED <<doorbell, mpc, mround, pc, round, timed, lvars, tvars, fops>>

BMain ==
    \/ WarmSeek \/ WarmIterate \/ WarmNext
    \/ /\ ~warm
       /\ \/ CreateThread /\ UNCHANGED lvars
          \/ PrepareFile /\ Seek(mi, 0) /\ UNCHANGED <<heap, maps, hit_count, mmap_count>>
          \/ (Ring \/ PollUnfinished \/ PollFinished \/ DivideByZero) /\ UNCHANGED lvars
          \/ /\ Join
             /\ heap' = free_file(heap, nvf[mi].root, nvf[mi].height)
             /\ nvf' = [nvf EXCEPT ![mi].valid = FALSE, ![mi].root = NULL, ![mi].height = 0]
             /\ UNCHANGED <<maps, hit_count, mmap_count>>
       /\ UNCHANGED <<tvars, fops, warm>>

(* pthread_transfer *)

(* Mutant: the thread relies on where main or the last round left the file. *)
BBeginWithoutSeek(t) ==
    /\ Begin(t)
    /\ offset' = [offset EXCEPT ![t] = StartOffset(t)]
    /\ left' = [left EXCEPT ![t] = Count(Size(round[t]))]
    /\ UNCHANGED <<lvars, step, reg, errors, found, fops, warm>>

BBegin(t) ==
    /\ Begin(t)
    /\ IF thread_fops \in {"read", "write"} THEN Seek(t, StartOffset(t)) ELSE UNCHANGED nvf
    /\ offset' = [offset EXCEPT ![t] = StartOffset(t)]
    /\ left' = [left EXCEPT ![t] = Count(Size(round[t]))]
    /\ UNCHANGED <<heap, maps, hit_count, mmap_count, step, reg, errors, found, fops, warm>>

BIterate(t) ==
    /\ pc[t] = "transfer"
    /\ Iterate(t, thread_fops, Size(round[t]))
    /\ UNCHANGED <<vars, fops, warm>>

BTransfer(t) ==
    \/ BBegin(t)
    \/ BIterate(t)
    \/ /\ LoopTest(t) \/ (left[t] = 0 /\ Signal(t))
       /\ UNCHANGED <<lvars, tvars, fops, warm>>

BNext ==
    \/ BMain
    \/ \E t \in Threads : BTransfer(t)
    \/ mpc \in {"done", "killed"} /\ UNCHANGED bvars

BSpec == BInit /\ [][BNext]_bvars

BFairSpec ==
    /\ BSpec
    /\ WF_bvars(BMain)
    /\ \A t \in Threads : WF_bvars(BTransfer(t))

-----------------------------------------------------------------------------

(* A thread reads its own share and nothing else, in every round: main's   *)
(* rewinding of the same descriptors (line 275) never comes between the    *)
(* thread's lseek1 and its reads, and the offsets a round leaves behind do *)
(* not leak into the next (pthread_test_noposix.c:93-120,274-275).         *)
ReadsOwnShare ==
    \A t \in Threads :
        pc[t] = "transfer" /\ left[t] > 0 =>
            /\ StartOffset(t) <= nvf[t].offset
            /\ nvf[t].offset + Size(round[t]) <= StartOffset(t) + FILE_SIZE \div N

(* What the warm-up is sure to map: a share with read1, which steps from   *)
(* one chunk into the next, however short the file is; with pread1, whose  *)
(* offsets may pass over the last bytes of a file, only if the shares lie  *)
(* in the file.                                                            *)
WarmsUp == fops = "read" \/ (fops = "pread" /\ FILE_SIZE <= FILE_LENGTH)

MapsNow == \E t \in Threads : pc[t] = "transfer" /\ step[t] \notin {CALL, FOUND}

(* No mmap call is timed: the warm-up has mapped every chunk that any      *)
(* thread touches, with any size, later (pthread_test_noposix.c:227-260).  *)
NothingMappedWhenTimed == ~MapsNow

(* This holds when main has selected an operation that warms up.           *)
WarmUpMapsAll == WarmsUp => NothingMappedWhenTimed

(* Why a read on thread t's descriptor may return less than size.          *)
MayFallShort(t, size) ==
    \/ StartOffset(t) % size # 0
    \/ CHUNK % size # 0
    \/ FILE_LENGTH < StartOffset(t) + FILE_SIZE \div N

(* ERROR! does not tell of a failed read: it is printed for a size only if *)
(* the share begins off its multiples, or the size does not divide the     *)
(* chunk, so that a read is cut at a chunk's end, or if the file ends      *)
(* inside the share (pthread_test_noposix.c:101-113, 238-252,              *)
(* fileops_noposix.c:328-330,352-361).                                     *)
ErrorsExplained == \A e \in errors : MayFallShort(e[1], e[2])

(* The counts that fini prints are never too high, and mmap_count is exact *)
(* when only the warm-up changes it; increments of hit_count are lost when *)
(* two threads read at a time (fileops_noposix.c:275,284,483).             *)
CountsNeverHigh ==
    /\ hit_count <= found
    /\ WarmsUp /\ ~warm => mmap_count = Len(maps)

(* The benchmark ends, with every tree freed; or with a signal, in the     *)
(* round for whose size the file is too small                              *)
(* (pthread_test_noposix.c:269-301).                                       *)
BenchEnds ==
    <>(IF 1 .. ROUNDS = timed THEN mpc = "done" /\ heap = [a \in {} |-> 0]
                              ELSE mpc = "killed")
============================================================================
