---------------------------- MODULE NoposixFile ---------------------------
(***************************************************************************)
(* libnoposix (lib/fileops_noposix.c, the variant behind #else): open1,    *)
(* close1, read1, pread1, write1, pwrite1 and lseek1 answer reads with     *)
(* pointers into memory-mapped chunks of the file.  A call is one action;  *)
(* NoposixBench takes calls of several threads apart.                      *)
(*                                                                         *)
(* Offsets, sizes and lengths are unsigned words of WORD values; the       *)
(* upper half reads as negative where the code looks at it as signed.      *)
(***************************************************************************)
EXTENDS MmapTree, Sequences

CONSTANTS
    Fds,        \* 0 .. n: the descriptors the kernel can hand out
    Paths,
    FileLength, \* FileLength[p]: the size of file p
    WORD,       \* 2^64 in the code
    Sizes,      \* what the callers pass: sizes to read1 and pread1,
    Offsets,    \* offsets to pread1,
    Seeks,      \* pairs of offset and whence to lseek1,
    Openings,   \* pairs of path and flag to open1
    MaxOpens,   \* bound: calls of open1
    MaxMmaps,   \* bound: calls of mmap
    MaxHits     \* bound: reads that find their chunk mapped

O_RDONLY == 0
O_WRONLY == 1
O_RDWR == 2
OpenFlags == {O_RDONLY, O_WRONLY, O_RDWR}

ASSUME WordAssumption == WORD \in Nat \ {0} /\ WORD % 2 = 0
ASSUME PathsAssumption == Paths # {} /\ NULL \notin Paths
ASSUME LengthAssumption == FileLength \in [Paths -> 0 .. (WORD \div 2) - 1]
ASSUME CallersAssumption ==
    /\ Sizes \subseteq 0 .. WORD - 1
    /\ Offsets \subseteq 0 .. WORD - 1
    /\ \A seek \in Seeks : seek[1] \in 0 .. WORD - 1
    /\ \A opening \in Openings : opening[1] \in Paths /\ opening[2] \in OpenFlags

VARIABLES
    nvf,        \* fd_lookup[fd]: the struct NVFile of each descriptor
    heap,       \* the tables in use
    maps,       \* what each mapping maps, in the order of the mmap calls
    hit_count,
    mmap_count,
    kernel,     \* what open left behind each descriptor: path and flag
    ret,        \* the outcome of the last read
    opens,      \* bound only: calls of open1 so far
    aborted     \* assert(0) has ended the process

vars == <<nvf, heap, maps, hit_count, mmap_count, kernel, ret, opens, aborted>>

CLOSED == [path |-> NULL, oflag |-> O_RDONLY]
NoRead == [fd |-> -1, from |-> 0, n |-> 0, map |-> NULL, at |-> 0]

NVFile == [valid : BOOLEAN, canRead : BOOLEAN, canWrite : BOOLEAN,
           offset : 0 .. WORD - 1, length : 0 .. WORD - 1,
           root : {NULL} \cup DOMAIN heap, height : Nat]

TypeOK ==
    /\ \A a \in DOMAIN heap : DOMAIN heap[a] = Slots
    /\ nvf \in [Fds -> NVFile]
    /\ maps \in Seq([path : Paths, chunk : Nat, prot : SUBSET {"r", "w"}])
    /\ hit_count \in Nat
    /\ mmap_count \in Nat
    /\ kernel \in [Fds -> {CLOSED} \cup [path : Paths, oflag : OpenFlags]]
    /\ ret.n \in 0 .. CHUNK
    /\ aborted \in BOOLEAN

(* calloc of fd_lookup *)
Init ==
    /\ nvf = [fd \in Fds |-> [valid |-> FALSE, canRead |-> FALSE, canWrite |-> FALSE,
                              offset |-> 0, length |-> 0, root |-> NULL, height |-> 0]]
    /\ heap = [a \in {} |-> EmptyTable]
    /\ maps = <<>>
    /\ hit_count = 0
    /\ mmap_count = 0
    /\ kernel = [fd \in Fds |-> CLOSED]
    /\ ret = NoRead
    /\ opens = 0
    /\ aborted = FALSE

IsOpen(fd) == kernel[fd] # CLOSED

-----------------------------------------------------------------------------
(* Reading *)

(* oflag & flag *)
HasFlag(oflag, flag) == flag # 0 /\ (oflag \div flag) % 2 = 1

Perms(fd) ==
    (IF nvf[fd].canRead THEN {"r"} ELSE {}) \cup (IF nvf[fd].canWrite THEN {"w"} ELSE {})

(* mmap of a shared file mapping: the descriptor must be readable, and     *)
(* writable too if the mapping is.                                         *)
MmapAllowed(fd, prot) ==
    /\ kernel[fd].oflag # O_WRONLY
    /\ "w" \in prot => kernel[fd].oflag = O_RDWR

(* do_pread, the length: what the file has from offset on, at most size.   *)
(* The sum wraps around, and a length that is negative as ssize_t reads    *)
(* nothing.                                                                *)
ReadLength(fd, size, offset) ==
    LET length == IF nvf[fd].length >= (offset + size) % WORD THEN size
                  ELSE nvf[fd].length - offset
    IN  IF offset >= nvf[fd].length \/ length >= WORD \div 2 THEN 0 ELSE length

LookupChunk(fd, offset) == Lookup(heap, nvf[fd].root, nvf[fd].height, offset)

TreeWith(fd, offset, mapping) ==
    WithMapping(heap, nvf[fd].root, nvf[fd].height, offset, mapping)

(* Mutant: the length is not cut at the end of the chunk. *)
BytesUncut(fd, offset, length, mapping) ==
    [fd |-> fd, from |-> offset, n |-> length, map |-> mapping, at |-> offset % CHUNK]

(* What get_mmap_address returns for a read of length bytes in a mapping.  *)
Bytes(fd, offset, length, mapping) ==
    LET rest == CHUNK - (offset % CHUNK)
    IN  [fd |-> fd, from |-> offset, n |-> IF rest > length THEN length ELSE rest,
         map |-> mapping, at |-> offset % CHUNK]

(* do_pread: Reads(fd, size, offset, advance) is the whole call, advance   *)
(* whether the descriptor's offset moves by the bytes read (read1).        *)
Nothing(fd, size, offset) ==
    /\ ReadLength(fd, size, offset) = 0
    /\ ret' = NoRead
    /\ UNCHANGED <<nvf, heap, maps, hit_count, mmap_count, kernel, opens, aborted>>

Advanced(f, n, advance) == IF advance THEN (f.offset + n) % WORD ELSE f.offset

Hit(fd, size, offset, advance) ==
    LET length == ReadLength(fd, size, offset) IN
    /\ hit_count < MaxHits
    /\ length # 0
    /\ LookupChunk(fd, offset) # NULL
    /\ hit_count' = hit_count + 1
    /\ ret' = Bytes(fd, offset, length, LookupChunk(fd, offset))
    /\ nvf' = [nvf EXCEPT ![fd].offset = Advanced(nvf[fd], ret'.n, advance)]
    /\ UNCHANGED <<heap, maps, mmap_count, kernel, opens, aborted>>

Miss(fd, size, offset, advance) ==
    LET length == ReadLength(fd, size, offset)
        mapping == Mapping(Len(maps) + 1)
        tree == TreeWith(fd, offset, mapping)
    IN
    /\ Len(maps) < MaxMmaps
    /\ length # 0
    /\ LookupChunk(fd, offset) = NULL
    /\ MmapAllowed(fd, Perms(fd))
    /\ mmap_count' = mmap_count + 1
    /\ maps' = Append(maps, [path |-> kernel[fd].path, chunk |-> offset \div CHUNK,
                             prot |-> Perms(fd)])
    /\ heap' = tree.heap
    /\ ret' = Bytes(fd, offset, length, mapping)
    /\ nvf' = [nvf EXCEPT ![fd].root = tree.root, ![fd].height = tree.height,
                          ![fd].offset = Advanced(nvf[fd], ret'.n, advance)]
    /\ UNCHANGED <<hit_count, kernel, opens, aborted>>

MmapFails(fd, size, offset) ==
    /\ ReadLength(fd, size, offset) # 0
    /\ LookupChunk(fd, offset) = NULL
    /\ ~MmapAllowed(fd, Perms(fd))
    /\ mmap_count' = mmap_count + 1
    /\ aborted' = TRUE
    /\ ret' = NoRead
    /\ UNCHANGED <<nvf, heap, maps, hit_count, kernel, opens>>

do_pread(fd, size, offset, advance) ==
    \/ Nothing(fd, size, offset)
    \/ Hit(fd, size, offset, advance)
    \/ Miss(fd, size, offset, advance)
    \/ MmapFails(fd, size, offset)

read1(fd, size) == IsOpen(fd) /\ do_pread(fd, size, nvf[fd].offset, TRUE)

pread1(fd, size, offset) == IsOpen(fd) /\ do_pread(fd, size, offset, FALSE)

(* write1 and pwrite1 return size and do nothing. *)
write1(fd) == IsOpen(fd) /\ ret' = NoRead
              /\ UNCHANGED <<nvf, heap, maps, hit_count, mmap_count, kernel, opens, aborted>>

-----------------------------------------------------------------------------
(* The other calls *)

lseek1(fd, offset, whence) ==
    /\ IsOpen(fd)
    /\ nvf' = [nvf EXCEPT ![fd].offset =
                  CASE whence = "SEEK_SET" -> offset
                    [] whence = "SEEK_CUR" -> (@ + offset) % WORD
                    [] whence = "SEEK_END" -> (nvf[fd].length + offset) % WORD
                    [] OTHER -> @]
    /\ ret' = NoRead
    /\ UNCHANGED <<heap, maps, hit_count, mmap_count, kernel, opens, aborted>>

(* open returns the lowest descriptor that is not in use. *)
LowestFd(fd) == ~IsOpen(fd) /\ \A g \in Fds : g < fd => IsOpen(g)

(* init_file: the root a slot still has is used again, a new one otherwise. *)
open1(fd, path, oflag) ==
    LET root == IF nvf[fd].root # NULL THEN nvf[fd].root ELSE Fresh(heap) IN
    /\ opens < MaxOpens
    /\ opens' = opens + 1
    /\ LowestFd(fd)
    /\ kernel' = [kernel EXCEPT ![fd] = [path |-> path, oflag |-> oflag]]
    /\ heap' = WithTable(heap, root)
    /\ nvf' = [nvf EXCEPT ![fd] =
                  [valid |-> TRUE, offset |-> 0, length |-> FileLength[path],
                   canRead |-> HasFlag(oflag, O_RDWR) \/
                               (~HasFlag(oflag, O_WRONLY) /\ HasFlag(oflag, O_RDONLY)),
                   canWrite |-> HasFlag(oflag, O_RDWR) \/ HasFlag(oflag, O_WRONLY),
                   root |-> root, height |-> @.height]]
    /\ ret' = NoRead
    /\ UNCHANGED <<maps, hit_count, mmap_count, aborted>>

(* Mutant: the freed root stays in the slot. *)
closeKeepsRoot(fd) ==
    /\ IsOpen(fd)
    /\ heap' = free_file(heap, nvf[fd].root, nvf[fd].height)
    /\ nvf' = [nvf EXCEPT ![fd].valid = FALSE, ![fd].height = 0]
    /\ kernel' = [kernel EXCEPT ![fd] = CLOSED]
    /\ ret' = NoRead
    /\ UNCHANGED <<maps, hit_count, mmap_count, opens, aborted>>

(* The mappings stay: nothing is ever unmapped. *)
close1(fd) ==
    /\ IsOpen(fd)
    /\ heap' = free_file(heap, nvf[fd].root, nvf[fd].height)
    /\ nvf' = [nvf EXCEPT ![fd].valid = FALSE, ![fd].root = NULL, ![fd].height = 0]
    /\ kernel' = [kernel EXCEPT ![fd] = CLOSED]
    /\ ret' = NoRead
    /\ UNCHANGED <<maps, hit_count, mmap_count, opens, aborted>>

Call ==
    \E fd \in Fds :
        \/ \E size \in Sizes : read1(fd, size)
        \/ \E size \in Sizes, offset \in Offsets : pread1(fd, size, offset)
        \/ write1(fd)
        \/ \E seek \in Seeks : lseek1(fd, seek[1], seek[2])
        \/ \E opening \in Openings : open1(fd, opening[1], opening[2])
        \/ close1(fd)

(* A process that has aborted, or has left, calls nothing any more. *)
Next == (~aborted /\ Call) \/ UNCHANGED vars

Spec == Init /\ [][Next]_vars

-----------------------------------------------------------------------------

OpenFds == {fd \in Fds : nvf[fd].valid}
TreeOf(fd) == TablesOf(heap, nvf[fd].root, nvf[fd].height)
Reachable == UNION {TreeOf(fd) : fd \in OpenFds}

(* No descriptor's tree uses a table that has been freed, and no table     *)
(* belongs to two trees or hangs in two places of one: the walk that adds  *)
(* a chunk writes into this file's tables only, whatever was freed and     *)
(* handed out again before (fileops_noposix.c:198-221,291-326).            *)
TreesApart ==
    /\ \A fd \in OpenFds : TreeOf(fd) \subseteq DOMAIN heap
    /\ \A fd, g \in OpenFds : fd # g => TreeOf(fd) \cap TreeOf(g) = {}
    /\ \A a \in Reachable :
           Cardinality({w \in Reachable \X Slots : heap[w[1]][w[2]] = a})
               = IF \E fd \in OpenFds : nvf[fd].root = a THEN 0 ELSE 1

(* What a read hands out is the bytes it was asked for: the pointer lies   *)
(* in a mapping of this descriptor's file and of the chunk that holds the  *)
(* offset, and the bytes end before the chunk and before the file do       *)
(* (fileops_noposix.c:328-334,355-359).                                    *)
BytesAreTheFiles ==
    ret.n > 0 =>
        LET m == maps[ret.map[2]] IN
        /\ m.path = kernel[ret.fd].path
        /\ m.chunk * CHUNK + ret.at = ret.from
        /\ ret.at + ret.n <= CHUNK
        /\ ret.from + ret.n <= FileLength[m.path]

(* The memory close1 loses is leaves only: a table that is neither in a    *)
(* tree nor freed holds addresses of mappings and no tables, so closing    *)
(* loses one table for each leaf and nothing behind it                     *)
(* (fileops_noposix.c:181-196).                                            *)
OnlyLeavesLeak ==
    \A a \in DOMAIN heap \ Reachable : Range(heap[a]) \cap DOMAIN heap = {}

(* The trees implement the table of mappings.                              *)
LastByte == CHOOSE l \in Range(FileLength) : \A k \in Range(FileLength) : k <= l
Chunks == 0 .. LastByte \div CHUNK

Cached(fd) ==
    LET found == IF IsOpen(fd) THEN {c \in Chunks : LookupChunk(fd, c * CHUNK) # NULL} ELSE {}
    IN  [c \in found |-> LookupChunk(fd, c * CHUNK)]

Cache == INSTANCE ChunkCache WITH cache <- [fd \in Fds |-> Cached(fd)]

ImplementsCache == Cache!CSpec
============================================================================
