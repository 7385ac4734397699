------------------------------ MODULE MemCopy ------------------------------
(***************************************************************************)
(* The copy routines of memcpy.h and the cache flushing of mmap_write.c,   *)
(* as the sets of bytes they reach.  A copy is of len bytes to the address *)
(* to; CopiedBytes is the set of offsets k < len at which the destination  *)
(* ends up with the byte of the source that has the same offset.           *)
(***************************************************************************)
EXTENDS Integers

MIN_LEN == 64           \* MMX2_MEMCPY_MIN_LEN
MMREG_SIZE == 8         \* MMX_MMREG_SIZE
CACHELINE_SIZE == 64    \* FLUSH_ALIGN, too

-----------------------------------------------------------------------------
(* mmx2_memcpy *)

(* How far the destination is from the next multiple of MMREG_SIZE, if the *)
(* copy is long enough for anybody to care.                                *)
Delta(to, len) ==
    IF len >= MIN_LEN /\ to % MMREG_SIZE # 0 THEN MMREG_SIZE - (to % MMREG_SIZE) ELSE 0

(* What is left of len once those bytes have been copied: they are taken   *)
(* off the length, but neither pointer is moved past them.                 *)
Left(to, len) == len - Delta(to, len)

Blocks(to, len) == Left(to, len) \div 64

Block(i) == 64 * i .. 64 * i + 63

Rest(to, len) == 64 * Blocks(to, len) .. Left(to, len) - 1

(* Mutant: for (i = (len >> 6) - 1; i > 0; i--). *)
CopiedBytesShort(to, len) ==
    (UNION {Block(i) : i \in 0 .. Blocks(to, len) - 2})
        \cup Rest(to, len) \cup (0 .. Delta(to, len) - 1)

CopiedBytes(to, len) ==
    (UNION {Block(i) : i \in 0 .. Blocks(to, len) - 1})
        \cup Rest(to, len) \cup (0 .. Delta(to, len) - 1)

(* rep movsl: n / 4 words *)
CopiedBytes1(n) == 0 .. 4 * (n \div 4) - 1

-----------------------------------------------------------------------------
(* The flush loops.  clflush, clflushopt and clwb work on whole lines;     *)
(* flush_movnti rewrites 64 bytes wherever they begin.                     *)

FirstLine(addr) == addr - (addr % CACHELINE_SIZE)

FlushedLines(addr, len) ==
    {uptr \in FirstLine(addr) .. addr + len - 1 : uptr % CACHELINE_SIZE = 0}

LineAt(uptr) == uptr .. uptr + CACHELINE_SIZE - 1

Rewritten(addr, len) ==
    UNION {LineAt(addr + i) : i \in {j \in 0 .. len - 1 : j % CACHELINE_SIZE = 0}}
============================================================================
