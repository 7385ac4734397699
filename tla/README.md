# Posix-vs-mmap: a TLA+ verification project

Posix-vs-mmap is a collection of C programs that compare reading and writing files
through POSIX calls with reading and writing them through mapped memory. It has a small
library that replaces the file calls (`lib/fileops_noposix.c`), benchmark drivers with
several threads, a workload harness (`Util/`), a test of the kernel's page faults
(`holetest.c`), and many short single-threaded benchmarks. There is no documentation but
the comments and the usage lines of the programs.

Paths below are relative to `src/`.

## 1. Inventory

| Part | State | Operations | Interacts with |
|---|---|---|---|
| **libnoposix** `lib/fileops_noposix.c` (the variant behind `#else`; the `#if 0` one is dead) | `fd_lookup[fd]` → `NVFile` (valid, permissions, offset, length, root, height); the tables of a radix tree of mappings; `hit_count`, `mmap_count` | `open1 close1 read1 pread1 write1 pwrite1 lseek1` | called by the noposix driver, one `NVFile` per thread, counters shared without a lock |
| **doorbell drivers** `pthread_test.c`, `pthread_test_noposix.c`, `pthread_counter.c`, `pthread_test_create.c` | one 64-bit `doorbell` cell per thread, used in both directions; main's `size`, every thread's own `size`; file descriptors and buffers shared by main and one thread each | main: create, prepare, `start_all_pthreads`, `all_pthreads_finished`, join; thread: `pthread_can_start`, transfer, `signal_pthread_finished` | shared memory only, both sides spin |
| **mmap rendezvous driver** `pthread_test_mmap.c` | bit words `waiting_threads`, `finished_threads`; `size`, `data1`; a mutex, two condition variables | main: set the bits, broadcast, wait for all bits; thread: wait for any bit, clear its own, copy, set its finished bit, signal | mutex and condition variables, some reads outside the lock |
| **harness barrier** `Util/HarnessBarrier.hpp` | `_joined`, a mutex, a condition variable | `Join` | used by the harness; also stands for `pthread_barrier_wait` with `NO_BARRIERS` |
| **workload harness** `Util/NVTMWorkloadHarness.hpp` | `_finished`, `_timingIsSuspended`, `_operationsCompleted`, start and stop time, `SIGALRM`'s action and alarm, two barriers | `Init StartTiming StopSignal SuspendTiming RunOps GenericThread isDone PrintResults` | threads, a signal handler that may run on any of them, barriers |
| **hole test** `holetest.c` | the file, shared or private mappings, the markers in each page, error counts, exit status | three tests of `test_this`; `pt_page_marker`, `pt_write_marker`, `verify_mapping` | threads or processes that fault on the same pages at the same time |
| **copy and flush routines** `memcpy.h`, `mmap_write.c` | pointers and counts | `mmx2_memcpy`, `memcpy1`, four loops over cache lines (called nowhere) | the mmap drivers |
| **random access orders** `iozone_test.c`, `random_perf_test.c`, `test_rand.c`, `Util/FastRand.hpp` | an array that is shuffled, the state of a generator | shuffles and the passes in that order; an LFSR (called nowhere) | the file |
| **atomic operations, timer** `Util/AtomicOps.hpp`, `Util/WorkloadTimer.hpp` | a word; a clock | x86 atomics | harness |
| **integrity tests** `integrity_test2_*.c` | a byte pattern | write, read back | the file |
| **single-threaded benchmarks, kernel regression tests** `latency_*.c`, `mmap_write.c`, `mmap_read.c`, `mmap_to_ram.c`, `write_to_ram.c`, `read_from_ram.c`, `rewrite.c`, `msync-test.c`, `mprotect-test.c`, `munmap-test.c`, ... | a buffer, a descriptor's offset, a mapping | loops of `read`, `write`, stores, `fsync` and `msync` | one file, `/mnt/ramdisk/test1`, that each finds as the one before has left it |
| **demonstrations, scripts** | a counter at most | straight lines of calls | the kernel |

What is hard, and what must hold:

* *doorbell*: one cell carries ring and answer, so a late look may see the answer of the
  round before; main rewinds descriptors and refills buffers with nothing but the poll
  between it and the threads; both sides count the sizes on their own. Rounds must be
  separate, with no stale answer, and all must end.
* *libnoposix*: the tree grows by several levels; freed tables are handed out again to
  other files; offsets and sizes are unsigned words compared as signed ones; a read is cut
  at the end of a chunk. Trees must stay apart and reads must return the file's bytes.
* *noposix driver*: the warm-up has to map all that is timed later, in other sizes; shares
  are computed with two divisions; counters are incremented without a lock.
* *rendezvous*: a thread waits for *any* bit, not for its own; the signal is decided on
  outside the lock; `size` and `data1` are read while main changes them.
* *barrier*: the count is reset while the threads of the round are still waking.
* *harness*: a signal may come at any moment of `StartTiming` and of the set-up; threads
  test whether the time is up without a lock; shares are rounded down.
* *hole test*: faults on one page come together; errors found by children must reach the
  exit status; a `fork` may fail.
* *copying*: a destination that is not aligned; shares that come from sizes of different
  times must still be whole and in their place.
* *programs on one file*: writer and readers must agree on the pattern; a short read or
  write leaves old data behind; what was synced must survive a crash; a mapping may be
  longer than the file; a shuffled pass must reach every block.

`PROJECT.json` lists these hazards line by line.

## 2. Modules

```
Doorbell <------ NoposixBench ------> MmapTree <------- NoposixFile --implements--> ChunkCache
  |                    |                 |                   |
  |                    |           MmapTreeProofs            |
  |                    |             |       |               |
  |            NoposixBenchProofs <--+       +-----> NoposixFileProofs
  +--implements--> ForkJoinRounds
PhaseBarrier <--implements-- HarnessBarrier <-- HarnessBarrierProofs
      ^
  WorkloadHarness (its barriers) <-- WorkloadHarnessProofs
MemCopy <-- MmapRendezvous <-- MmapRendezvousProofs          HoleTest <-- HoleTestProofs
RamdiskFile <-- StoragePrograms <-- StorageProgramsProofs
```

`MCNoposixFile`, `MCWorkloadHarness`, `MCHoleTest` and `MCStoragePrograms` only give
constants their values;
the other modules are checked with the values of their `.cfg`. Operators whose comment
begins with *Mutant* are deliberately wrong variants of the definition that follows; no
specification uses them. They name mistakes that the properties are known to catch.

**Doorbell** (abstract: **ForkJoinRounds**). `doorbell`, main's place and index (`mpc`,
`mi`), and the sizes as round numbers on both sides. Each look at, and each write to, a
cell is a step. The POSIX calls of a transfer have no effect that the other side can see
and are part of `transfer`. `PrepareFile` is `memset` and `lseek`. Behind a round main
divides its time by the `count` of its size, which is 0 when the file has less than one piece
for each thread; `DivideByZero` is the signal that then ends main and the threads. `timed`
has the rounds in which this does not happen: it follows from the `FILE_SIZE` of the command
line and never changes. `ForkJoinRounds` ends the rounds in it and no others.
`pthread_counter.c` and `pthread_test_create.c` do not divide.

**MmapTree** has the tree as functions over a heap of tables: lookup, growth, insertion
and the freeing of `close1`. `SlotIn` divides by the capacities just as the code does; in
the root the quotient is not reduced. malloc is the lowest free address, so freed tables
do come back. **NoposixFile** has one action per outcome of a library call: a read is
`Nothing`, `Hit`, `Miss` or `MmapFails` (the `assert(0)`), also when called through
`pread1`. Words wrap at `WORD`, and their upper half is negative where the code casts to
`ssize_t`. **ChunkCache** is what the trees are for: a partial function from chunks to
mappings that only grows until the file is closed.

**NoposixBench** puts `Doorbell`, `MmapTree` and what a read returns in `NoposixFile`
together: the same handshake, with the warm-up before it, and reads that take two steps
each, so that the increments of `hit_count` and `mmap_count` by several threads can
interleave. The file has the length `FILE_LENGTH` that `open1` finds, which another program
has given it, while main and the threads go by the `FILE_SIZE` of the command line.

**HarnessBarrier** (abstract: **PhaseBarrier**) splits `Join` at the lock, the count, the
wait, the wakeup and the unlock. `Join` calls `pthread_cond_wait` once and outside a loop,
and POSIX permits it to return without a broadcast (`SpuriousWakeup`): such a thread leaves
its round, `_joined` goes on counting it, and when it comes again it is counted twice. The
history variables `spurious` and `stray` count these wakeups, all of them and those since the
last broadcast. What is then left of a barrier is the number of rounds by which threads can
get apart, two for each such wakeup, and `PhaseBarrier` has the same slack (`early`); without
a spurious wakeup it is the barrier everybody expects.

**WorkloadHarness** is one run of a program that uses the harness. `StartTiming` is split
into its four assignments and calls, `SIGALRM` may come between any two steps once an
alarm is set, and `SA_RESETHAND` takes the handler away. The three `Join`s of a thread are
rounds of `PhaseBarrier` with no early wakeup: this is what `pthread_barrier_wait` gives in
the ordinary build. Built with `NO_BARRIERS` the harness has only what `HarnessBarrier` is
shown to implement, that is, the same as long as there is no spurious wakeup. Time is only an
order of events: `_stopTime` is before or after `_startTime`. Counters keep their widths:
a thread's `threadOps` and the comparison in `isDone` are taken modulo `Word` (2^32), the
sum of all threads, a `lock xaddq` of `AtomicOps.hpp`, is not.

**MmapRendezvous** has the critical sections as single steps and everything read outside
the lock (`size` twice, `data1`, `finished_threads` at line 101) as steps of its own.
`pthread_cond_wait` is a test, a sleep and a new test; both condition variables may wake
up spuriously. `transfer`, `last` and `early` are history variables; a thread is early when it
has begun a transfer with its bit of `finished_threads` still set. Each copy is a range, of
`unit` bytes to `data_begin`. Behind the mapping, or behind `buf`, it may kill the process
(`Fault`) or hit memory that is there by chance (`Copy`).
**MemCopy** says which of a copy's bytes `mmx2_memcpy` stores: it takes the `delta` bytes
that align the destination off the length but moves neither pointer past them, so that the
last `delta` bytes are never stored. MemCopy also has `memcpy1` and the loops of
`mmap_write.c` that flush cache lines.

**HoleTest** has main, the markers and, as external parts, page faults: a fault on an
absent page takes two steps, and a *sound* kernel looks again before it installs the page.
A *racy* kernel does not, a *lossy* one drops writes. Views are the file and the private
mappings of the parent and of the children; the first read of a private page shows the
file's page, the first write copies it. A `fork` may fail; `tid[i] < 0` does not see it,
`waitpid(-1)` then waits for any child, and main looks for the marker -1, unless `-F -p`
has it look for zeros.

**StoragePrograms** has nineteen single-threaded programs. A program is the sequence of the
steps it takes on the file, computed from its command line with the same conversions as in
the code (`Size`, `FileSize`, `Count`, a `FILE_SIZE / size` that may divide by 0) and with
its loops unrolled; there is one action per kind of step, not one per program. `Run` starts
a program on the file as it is. Writes may be short; what a program does about it (nothing,
a message, `exit`) is part of the step. **RamdiskFile** is the external part: what the
system calls and mappings see of the file, and what would survive a crash; the kernel may
write back any page at any time, and `Crash` may come at any time, also while nothing runs.

## 3. Runs

Passing runs:

| Run | Instance | Shows |
|---|---|---|
| `doorbell` | 3 threads, sizes 1, 2 and 4, files of 12 and of 5 bytes | main prepares alone; threads transfer with main's size; no stale `FINISHED`; main rings only for a thread that has taken its last ring, and rings are answered; `ForkJoinRounds` with fairness is implemented: all rounds end with the first file, and with the second only the first, for the signal comes behind the second round |
| `noposix_lib` | 2 descriptors, files of 11 and 3 bytes, chunks of 2 bytes, tables of 2 words, words of 5 bits | trees are apart also after tables have been reused; reads hand out the bytes asked for; only leaves leak; `ChunkCache` is implemented |
| `noposix_bench` | 2 threads, sizes 2 and 4, `FILE_SIZE` 20, a file of 15 bytes, chunks of 4 bytes, all operations | reads stay in the thread's share; a warm-up with `read` maps all; `ERROR!` is printed only where reads are cut, as the second share's are, which begins inside a chunk, or where the file ends; counters are never too high; the benchmark ends, main and every thread, with its trees freed |
| `barrier` | 3 threads, 5 joins each, up to 2 spurious wakeups | no two rounds mix, but for two rounds per spurious wakeup; the count is that of the waiters and the stray; `PhaseBarrier` is implemented; somebody passes, and without a spurious wakeup all do |
| `harness` | 3 threads; `-rt`, `-max` 0, even, uneven and -1, and both options; unsigned ints of 2 bits | results count the operations, also when their sum or a share passes 2^32; they are timed; threads stop promptly; only the race inside `StartTiming` kills; a negative time means no operations; the program ends |
| `rendezvous` | 2 threads, sizes 128 and 256, 6 transfers, spurious wakeups | no share and no wakeup is lost; nobody is more than one transfer behind; the first share a thread takes of a transfer is inside its piece and the file; shares are stored whole; main gets through, unless a copy of an early thread kills the process |
| `holetest` | 2 threads or processes, 2 pages, all 24 accepted command lines, 3 kernels, failing forks | a sound kernel is never blamed; lost markers and failed forks are reported (all modes but `-F -p`); the program ends |
| `storage` | any two of 19 programs after one another; pages of 2 bytes, `END_SIZE` 4, RAM disk of 6 bytes; short writes, write-back, a crash at any time | a silent writer is read back silently; a silent reader has seen the pattern; random passes write every block; `latency_write` loses at most the block under way and `mmap_write` nothing it has msynced and not overwritten since; bus errors have one of five causes; `iozone_test` exits only after a short write |

Runs that show where the code does not do what it says (the details are in
`PROJECT.json`, "findings"):

| Run | Violated | What happens |
|---|---|---|
| `bench_write` | `NothingMappedWhenTimed` | main's `fops` hides the global one: threads always read, and after a warm-up with `write` they map chunks inside the measurement |
| `harness_few` | `EnoughOperations` | `-max` below the number of threads: nobody reports operations before its loop is over, so the loop is not ended by them |
| `rendezvous_skip` | `NobodySkipped` | a fast thread enters a transfer twice; its late bit counts in the next transfer, whose share it has not copied |
| `holetest_children` | `ErrorsAreReported` | `errcnt =` at line 252 overwrites what the children reported |

Seen while modelling, without a run: the rendezvous threads take `offset` once, from a
`size` that main has usually not set yet, and `unit` from the size before; their loop has no
end, so main hangs in the joins; one that comes back early in the last transfer of a size
copies behind the file, which may kill the process; with shares that are no multiples of 8
bytes `mmx2_memcpy` leaves their last bytes out; `O_RDONLY` is 0, so a file opened with it
is mapped without any permission; three threads in the noposix driver print `ERROR!` because
reads are cut at chunk ends; with a file below `num_threads` times 4 MiB (2 MiB in the
noposix driver) the doorbell drivers divide by a count of 0 behind their last sizes, before
the files of results are closed; with `pread`, shares inside chunks and a file shorter than
the command line says, the warm-up can pass over the last chunk; `holetest` takes its size
in units of 1 KiB where the usage says MiB, and announces four ways to size the file where
it has three; a share of the harness that is a multiple of 2^32 operations becomes 0 and
never ends; after one spurious wakeup in the barrier's `Join` threads can get two rounds
apart, and some be stranded for good. A request size of 0, one greater than `FILE_SIZE`
where an average is printed, and `rewrite` with 0 times divide by zero, and so does
`latency_write` when its loop takes less than a microsecond (line 98); a negative one is
taken for `END_SIZE`. `mmap_write` and `mmap_to_ram` get a bus error on a file that is
shorter than what they map, `mmap_read` with a file size above `END_SIZE` and no multiple of
it, `munmap-test` with less than three pages, `msync-test` with a request size above the
file size. `mmap_write` overwrites 40 bytes after it has msynced them (line 218).
`iozone_test.c` has arrays of two for three rounds (lines 157, 457, and their declarations),
and `write_perf_test` (180-316) is called nowhere.

### Bounds

* Threads: 2 or 3. The handshakes treat threads alike, and the properties concern main
  and at most two threads; 3 doorbells give main one it has passed, one it looks at and
  one to come, and 3 threads give the barrier one that waits while one comes and one
  leaves. The theorems remove this bound.
* `ROUNDS`: 2 or 3. What a round leaves behind reaches the next round, and by the invariants
  no further. The files of `doorbell` are enough for all its rounds, or for the first only.
  `transfer` is unbounded but for the file's end.
* `noposix_bench` has a `FILE_SIZE` that is enough for its sizes. The other branch of
  `BenchEnds`, the end by a signal, adds nothing to the handshake's and is left to `doorbell`.
* `noposix_bench` has a file that ends inside a share. There a warm-up with `pread` may leave
  something out (`WarmsUp`), so that what `WarmUpMapsAll` and `CountsNeverHigh` say of `pread`
  on a file that is long enough is left to the theorems `NoMmapTimed` and `CountsBounded`.
* `MaxSpurious` 2, `JOINS` 5: the slack of two rounds per wakeup is reached for both of them, for
  a thread needs `2 * MaxSpurious + 1` joins to go beyond it.
* Chunks of 2 and tables of 2 give trees of heights 0, 1 and 2 with at most 6 chunks, so
  that a tree grows by one and by two levels at once. `MaxOpens`, `MaxMmaps` and `MaxHits`
  bound the calls; with 2 opens a slot and its tables are used twice, with 3 mappings a
  tree is used at each height.
* `MaxLoop` bounds what a thread executes before the time is up; where it stops a
  thread (`-rt`), only the alarm remains, so the fairness of the alarm is what ends it.
* `Word` is 4, so that two operations of each of three threads pass it, `MaxLoop` 4 lets a
  thread's own count wrap, and `-max -1` gives a share that does not fit.
* `rendezvous`: shares of 64 and 128 bytes, the first that `mmx2_memcpy` copies in blocks;
  two pieces of the second size and four of the first.
* `holetest`: a page is marked independently of others; two pages let the threads be on
  different ones.
* `storage`: a file of up to three pages and `END_SIZE` two pages, so that requests are
  below, at and above it, and files are shorter than a buffer, a multiple of it and
  neither. Two programs are enough for what one leaves to the next; the pattern starts at
  'y' or 'z', so that it wraps. `END_SIZE` differs between the programs and is one constant
  here.

### Fairness

* Doorbell, NoposixBench: weak fairness of main and of every thread. They spin, that is,
  they can always run, and the scheduler runs every runnable thread. Nothing is assumed
  about the order.
* HarnessBarrier: weak fairness of each thread's steps. The mutex may prefer anyone; a
  thread it keeps out keeps the others waiting in the end. Spurious wakeups have no fairness.
* MmapRendezvous: weak fairness of main and of each thread, whose critical sections are
  single steps; that a thread gets the mutex in the end is therefore assumed. Spurious
  wakeups are never relied on: they have no fairness.
* WorkloadHarness: threads are scheduled, and an alarm that is set goes off. No
  fairness makes a program end that has neither an alarm nor a count.
* HoleTest: main, threads, processes and the kernel on their behalf are scheduled.
* StoragePrograms: none; its properties are about what has happened when a program ends.

`CHECK_DEADLOCK FALSE` is used for `harness_few`, where `MaxLoop` stops the threads of a
loop that has no end, and for `storage`, where nobody need run another program.

## 4. Proofs

All theorems hold for every value of the constants that satisfies the module's `ASSUME`s.
These are what the code fixes or its callers give: positive numbers of threads, rounds and
sizes, natural lengths; for libnoposix a chunk and a table of at least one byte and two
words, an even number of words (so that a cast to `ssize_t` splits them in halves), files
shorter than half of it, and callers that pass words, paths of files and flags; for its
driver that `start_size` (4096) divides a chunk (2 MiB); for the
harness that a count comes from `-max` and without a run time, as `Init` has it (lines 84-123);
for the hole test that there are threads and pages; for the programs on one file that the
RAM disk holds a page and `iozone_test`'s file, that `END_SIZE` is more than a page, that the
pattern's first character is one from 1 to 126, and that `write_to_ram`, which does not compare
its request with its buffer, is given one that fits. TLC evaluates each of them on the
instances of section 3.

**HarnessBarrierProofs.** `Places` compares how often each thread has been counted with
`gen`, the number of broadcasts: `gen + stray + waits <= counted + spurious` and
`counted <= gen + spurious + waits`, where `waits` is 1 for a thread on the condition variable.
With `CountsWaiters` the last thread knows that all others wait, except as many as there are
stray wakeups (by the cardinality lemmas `TwoLeftOut` and `StrayForMissing`), so `gen` may
advance. `CalmPlaces` reads off that without a spurious wakeup every thread has been counted
`gen` times, or once more while it waits. From it follow `TypeOK`, `CountsWaiters`,
`Separation` and the refinement of `PhaseBarrier`, all with spurious wakeups.

**MmapRendezvousProofs.** `NoLostShare` and `NoLostWakeup` are inductive with the types.
`OneBehindAtMost` needs `Lag`: a thread that copies while its finished bit is set must
have set it in this very transfer, so its copy is of this one, and of the last one when
the bits are cleared. Spurious wakeups are included.

`SharesStoredWhole` follows from `Aligned`: when `START_SIZE` is a multiple of 8 bytes for
each thread, so are `data1`, `unit` and `offset`, whatever size each stems from, because main
only doubles and adds. The last step is `WholeIffAligned`.
`ShareInsidePiece` needs three parts: `Small`, that units and offsets stem from a size up to
main's, so that `offset + unit` is at most that size; `Pieces`, that main's piece ends inside
the file while it waits; and `Fresh`, that a thread which copies its first share of a
transfer and has not set its bit has read `data1` in that transfer. `KilledOnlyEarly`, the
safety part of `AllTransfersEnd`, adds
`OnTime`: what a thread takes without its bit set belongs to the transfer main waits for, and
main waits until it is done. So `ShareFits` and `PieceFits` apply to its copy.

The module's lemmas on the operators of MemCopy are for all addresses and lengths: what
`mmx2_memcpy` stores is all but the last `delta` bytes (the blocks, the rest and the head
are put together in `CopiedAllButDelta`), hence all just when the destination is aligned or
the copy short; `memcpy1` leaves up to three bytes out; the flush loops reach every byte of
their range.

**MmapTreeProofs** is about the functions on trees, for every chunk size, fan-out, height and
offset. A tree is described by what the code never stores: `n[h][i]` is the table that
covers the `i`-th piece of height `h` of the file, if there is one. `Tree` says that the
words of these tables point to one another accordingly, and that a leaf holds only allowed
mappings in the slots of their chunks; `Content` reads the mapping of a chunk off it. What
the recursive functions do is then a lemma each: `LookupIs` (the walk down finds
`Content`, or nothing for an offset above the capacity), `GrowIs` (new roots above the old
one change no content), `InsertIs` (only the chunk of the offset changes), `FreedTables`
(`free_file` frees all nodes but the leaves). `Extends` says what an operation does to the
rest of the heap: it only adds tables that were free, and changes no table outside its
tree. The walks are proved by induction on the height, and the capacities by induction on
their exponent; both as the statement that a set of numbers contains 0 and successors
(`Induction`, from the least number of its complement), because the library's own induction
rules take an operator. The arithmetic is that of the code: capacities are products of
`FANOUT`, slots are quotients of remainders.

**NoposixFileProofs.** The inductive invariant adds to `TypeOK` that there are nodes for
every descriptor (`Trees`): disjoint ones, a tree over them in each open descriptor, none in
a closed one, and no word that points to a table in any table outside of all trees. This is
needed because the properties speak of the tables reachable now, and the next `malloc`
takes any free one: that it is nobody's follows from the nodes, not from reachability
alone. `RetInv` remembers which mapping the last read was answered from. From it follow
`TypeOK`, `TreesApart` (each table but a root hangs in one slot, by the injectivity of
`n`), `BytesAreTheFiles` and `OnlyLeavesLeak`. The refinement `ImplementsCache` reads the
abstract table off the nodes too (`BarIs`): a read that maps a chunk changes `Content` in
this one place (`MissTrees`), whatever growth came with it, a closed descriptor has none
left (`CloseTrees`), and a mapping is new because all words of leaves are mappings made
before (`NextIsNew`).

**NoposixBenchProofs** begins with the handshake alone. Its invariant says, for each place
of main, at which of three *stations* a thread is: waiting for its ring (same round as main,
no `START`), rung (`START` in its cell), or served (`FINISHED`, one round ahead). The
properties alone are not inductive: that main sees no stale `FINISHED` while it polls needs
that all cells it passed while ringing were overwritten. From it follow `TypeOK`,
`MainPreparesAlone`, `SameSize`, `NoStaleFinish`, `RingAnswered`, and that every step is a
step of `ForkJoinRounds` or a stutter (`Refinement`, the safety part of
`ImplementsFairForkJoin`).

The driver's own proofs build on that and on MmapTreeProofs. The warm-up ends just where the
handshake begins (`Phase`), so from then on the invariant of the handshake holds of this
driver too (`HandshakeHolds`). `InShare`, that the reads a thread still makes fit
into what the size takes of its share (`Taken`), gives `ReadsOwnShare`.

`WarmUpMapsAll` and `CountsNeverHigh` hold for every number of threads and every file, also
where shares begin inside a chunk and reads are cut at its end; that the warm-up is enough
is less obvious there. `read1` then falls behind the loop, which counts with the size and
not with what was read. But it stands on a multiple of `start_size` after the first chunk,
is never cut again, and is less than one read behind (`Behind`; this is where `start_size`
must divide a chunk). `pread1` leaves out the bytes behind a cut, but any offset between two
calls lies in the chunk of one of them (`BackOneChunk`). So the warm-up has mapped
everything up to `Reached`, and in the end `Enough`: all up to where its last read was due.
A thread, whose size is `start_size` doubled some times, never takes more of its share than
the warm-up did (`TakenLess`) and always asks for at least `start_size` bytes, so it begins
each of its reads in what is mapped. Around that argument the invariant says where the
warm-up's loop is (`WarmPlace`), that there is a tree for every thread and no table in two
of them (`Forest`, with the nodes of MmapTreeProofs), what has been mapped so far
(`WarmTrees`), and that nothing is missing when it ends (`AllMapped`). `CountsNeverHigh`
also needs that a loaded `hit_count` is below `found` until it is stored (`HitsFound`), and
that only main maps, so that no increment of `mmap_count` is lost.

`ErrorsExplained` is about every size on its own. When a share begins on a multiple of the
size, the size divides a chunk and the file reaches to the end of the share, every position of
this round is a multiple of the size (`ExactShare`), so no read is cut, and none returns less
than the size; a round that is not like that may print `ERROR!`, and later rounds do not
inherit from it, as they begin with `lseek1`. `END_SIZE` is as big as a chunk, 2 MiB, so that
on a file that is long enough it takes a share that does not begin on a multiple of the size.

**WorkloadHarnessProofs.** `Places` ties each thread's place to its rounds of
`PhaseBarrier`, so that `OperationsAreTimed` follows from the two joins around the timed
part. `SignalInv` and `StopInv` say where thread 0 is in `StartTiming` when an alarm has
come; `WorkInv` that a thread which is late has taken its decision before. For
`ResultsCountOperations`, `CountInv` keeps the sum of what the threads have reported, a fold over
the threads about which `TotalAdd` says that adding to one adds to the sum; a thread's own
counter is its executed operations modulo `Word`.

**HoleTestProofs.** The invariant relates pages and markers (`PageInv`): a marker is only in
the view its thread writes to and on pages the thread has passed, and on all of those when
the kernel is sound, also while a fault is half way through. `StageInv` says which threads
exist at each place of main. `NoFalseAlarm` is then that a sound kernel leaves nothing for
`Verify` to find, and `LossReported` that trouble stays visible until it has been counted
(`LossInv`), in all modes but `-F -p`, where a child's finding may be overwritten.

**StorageProgramsProofs.** A program is a sequence of steps that its command line gives, and
its loops are unrolled by `FlattenSeq`. So the module first proves what stands where in each
of the scripts: `FlattenIs` puts a loop's blocks of equal length one behind the other, and a
lemma per program (`MmapWriteScript`, `IntegrityReadScript`, ...) reads the steps off. The
invariant shared by all (`Underway`) is that what a program has still to do is its script
without the first `Taken` steps; after it an invariant about a program only has to say what
holds after each number of steps. The lemmas on `RamdiskFile` (`StoredIs`, `SplicedIs`,
`FlushedIs`) say byte by byte what a write, a store, a sync and the kernel's write-back do.

* `AckedSurvives`: `LatencyInv` has the file one block ahead of what would survive, between the
  write and the sync of a round, and level with it after the sync; `MmapInv` has the stripes up
  to the loop's index before the `msync`, and on the disk behind it.
* `SilenceMeansPattern`: `ReaderInv`, that the blocks before the reader's offset are as it
  has compared them, for reads that are short are reported.
* `WrittenIsReadBack`: `WriterInv` carries the writer's pattern from block to block, together
  with its buffer, which already holds the next character; `TrustInv` hands it over to the
  reader, which has the same arguments and so the same sizes.
* `BusErrorsExplained`: `FillInv`, that after each write the file reaches the offset, which
  gives its length when it is mapped. Which access then comes first behind the end is arithmetic:
  the theorem states that the five causes listed are all, for every size.
* `ExitsOnlyAfterError`: `IozoneInv` follows the offset through its passes, and `OrderInv`
  keeps it in the file where the order is random.
* `RandomPassWritesAll`: `OrderInv`, that whatever `lrand48` returns the swaps leave a
  permutation, and `PassInv`, that the blocks of the order's first entries are written in the
  last pass, while the buffer stays as the last read has left it.

Write-back, crashes and short writes may come in between everywhere.

The type invariants of the modules other than libnoposix are proved and not repeated in the
runs.

Checked by TLC only: all liveness properties and the fair part of refinements (they need
fairness and ENABLED), `BenchEnds` among them; and the four properties that do not hold. Every
other invariant and action property of the passing runs is the subject of a theorem.

## 5. Not modelled

Command-line parsing, printing and the reading of clocks everywhere. Failing system calls
but for the `mmap` that libnoposix asserts on. Files that change their length while
libnoposix has them open. A second `RunOps`, `-hang`, and `SIGINT` of the harness.
The contents of transfers, where they are neither shared nor checked. Spurious wakeups of the
barrier inside the harness, where they occur only in a build with `NO_BARRIERS`. In the
rendezvous, a file that is shorter than the mapping (`test.sh` fills it with 1 GiB). In
StoragePrograms: the division of `latency_write.c:98`, the arrays of `iozone_test.c` that are
one entry too short, memory that cannot be allocated, a file system that
is full for a later write but not for an earlier one in any other way than a short write, the
bytes inside a block that the readers do not look at, characters above 126, and the
durability of `rm`. `write_to_ram_warm.c`, `mmap_to_ram_multithread.c`, `test_io_unalign.c` and
the like repeat one of the modelled programs; `write_files.c`, `fs-write.c` and
`bankshot2/` work on files or devices of their own; `mmap-truncate.c`, `mmap_stale_pmd.c`,
`nvp-test.c`, `test_fallocate.c` and `cache_test.c` ask the kernel a question to which only
the kernel has the answer. `mutex_test.c` and `test_thread_jump.c` show one schedule that
sleeps keep apart. The other operations of `AtomicOps.hpp` and the generator of
`FastRand.hpp` are called nowhere; `test_rand.c` only prints. The scripts mount file systems,
start programs and collect figures.

## 6. Plan

Done, in this order: Doorbell and its proofs; the tree, libnoposix and the noposix
driver; the barrier and its proofs; the harness; the rendezvous and its proofs; the hole
test; the programs on one file; the copy and flush routines, their proofs, and what they
mean for the rendezvous; the proofs of the harness, of the hole test, of the trees, of
libnoposix and of the noposix driver; the proofs of the programs on one file. What is left is
outside the prover's reach (section 4) or of the model's (section 5).
