---------------------------- MODULE RamdiskFile ----------------------------
(***************************************************************************)
(* The file /mnt/ramdisk/test1 as the single-threaded programs use it:     *)
(* what system calls and mappings see of it, and what would be left of it  *)
(* after a crash.  Both are sequences of bytes; a hole reads as 0, and a   *)
(* file that does not exist is empty, since every program creates it.      *)
(***************************************************************************)
EXTENDS Integers, SequencesExt

CONSTANT Page           \* bytes in a page

ASSUME PageAssumption == Page \in Nat \ {0}

VARIABLES
    file,       \* the contents the programs see
    disk        \* the contents that survive a crash

Least(m, n) == IF m < n THEN m ELSE n

Greatest(m, n) == IF m < n THEN n ELSE m

(* The bytes of s with those of t in place from offset at on. *)
Spliced(s, at, t) ==
    [k \in 1 .. IF t = <<>> THEN Len(s) ELSE Greatest(Len(s), at + Len(t)) |->
        IF k - at \in DOMAIN t THEN t[k - at] ELSE IF k \in DOMAIN s THEN s[k] ELSE 0]

(* A mapping reaches to the end of the last page that holds a byte. *)
Mapped == ((Len(file) + Page - 1) \div Page) * Page

(* What a read of n bytes from offset at on returns. *)
Piece(at, n) == SubSeq(file, at + 1, Least(at + n, Len(file)))

(* A mapping stores n times c, as far as the file reaches. *)
Stored(at, n, c) == [k \in DOMAIN file |-> IF k - at \in 1 .. n THEN c ELSE file[k]]

(* What survives once the bytes from lo to hi have been written back. *)
Flushed(lo, hi) == Spliced(disk, lo, Piece(lo, hi - lo))

(* The kernel writes a page back when it likes. *)
Writeback ==
    /\ \E p \in 0 .. Len(file) \div Page : disk' = Flushed(p * Page, (p + 1) * Page)
    /\ disk' # disk
    /\ UNCHANGED file

Lost == file' = disk /\ UNCHANGED disk
============================================================================
