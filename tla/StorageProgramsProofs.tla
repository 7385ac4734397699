----------------------- MODULE StorageProgramsProofs -----------------------
(***************************************************************************)
(* The programs on one file, for every page and buffer size, every size of *)
(* the RAM disk, and all command lines.                                    *)
(*                                                                         *)
(* A program is the sequence of its steps, so an invariant about it says   *)
(* what holds after each number of steps: what stands in its script there  *)
(* comes first, then what the steps do to the file and to what survives a  *)
(* crash, then an invariant for each kind of program.                      *)
(***************************************************************************)
EXTENDS StoragePrograms, SequenceTheorems, WellFoundedInduction, TLAPS

-----------------------------------------------------------------------------
(* Numbers *)

(* The ordering of the natural numbers, as a relation. *)
Less == {ss \in Nat \X Nat : ss[1] < ss[2]}

(* Every set of numbers that is not empty has a least one. *)
LEMMA LeastNumber ==
    ASSUME NEW T \in SUBSET Nat, T # {}
    PROVE  \E n \in T : \A m \in T : n <= m
<1>1. IsWellFoundedOn(Less, Nat)
  BY NatLessThanWellFounded DEF OpToRel, Less
<1>2. PICK n \in T : \A m \in T : <<m, n>> \notin Less
  BY <1>1, WFMin
<1>3. ASSUME NEW m \in T PROVE n <= m
  <2>1. ~(n <= m) => <<m, n>> \in Less
    BY DEF Less
  <2> QED
    BY <1>2, <2>1
<1> QED
  BY <1>3

(* Induction over the natural numbers, for a set. *)
LEMMA Induction ==
    ASSUME NEW T \in SUBSET Nat, 0 \in T, \A n \in T : n + 1 \in T
    PROVE  T = Nat
<1> SUFFICES ASSUME Nat \ T # {} PROVE FALSE
  OBVIOUS
<1>1. PICK n \in Nat \ T : \A m \in Nat \ T : n <= m
  BY LeastNumber
<1>2. n - 1 \in Nat /\ n - 1 \in T
  BY <1>1
<1> QED
  BY <1>1, <1>2

(* A number is its quotient and its remainder. *)
LEMMA Divided ==
    ASSUME NEW c \in Nat, c > 0, NEW x \in Nat
    PROVE  /\ x \div c \in Nat /\ x % c \in Nat /\ x % c < c
           /\ x = c * (x \div c) + (x % c)
OBVIOUS

(* There is only one quotient. *)
LEMMA Quotient ==
    ASSUME NEW c \in Nat, c > 0, NEW q \in Nat, NEW r \in Nat, r < c, NEW x, x = c * q + r
    PROVE  x \div c = q /\ x % c = r
OBVIOUS

(* More times a number is more. *)
LEMMA TimesMonotone ==
    ASSUME NEW m \in Nat, NEW n \in Nat, m <= n, NEW c \in Nat
    PROVE  m * c \in Nat /\ n * c \in Nat /\ m * c <= n * c
<1>1. (n - m) \in Nat /\ (n - m) * c \in Nat
  OBVIOUS
<1>2. n * c = m * c + (n - m) * c
  OBVIOUS
<1> QED
  BY <1>1, <1>2

(* Blocks of c lie one behind the other: the i-th of them ends where the   *)
(* next one begins, and not behind the n-th.                               *)
LEMMA Blocks ==
    ASSUME NEW n \in Nat, NEW c \in Nat, NEW i \in 1 .. n
    PROVE  /\ (i - 1) * c \in Nat /\ i * c \in Nat /\ n * c \in Nat
           /\ (i - 1) * c + c = i * c
           /\ i * c <= n * c
           /\ c * (i - 1) = (i - 1) * c
<1>1. i \in Nat /\ i - 1 \in Nat /\ i <= n
  OBVIOUS
<1>2. i * c <= n * c /\ i * c \in Nat /\ n * c \in Nat
  BY <1>1, TimesMonotone
<1>3. (i - 1) * c \in Nat /\ c * (i - 1) = (i - 1) * c
  BY <1>1
<1>4. (i - 1) * c + c = i * c
  BY <1>1
<1> QED
  BY <1>2, <1>3, <1>4

(* The bytes of block j + 1, and of no other, have this quotient.          *)
LEMMA InBlock ==
    ASSUME NEW c \in Nat \ {0}, NEW j \in Nat, NEW k \in Nat, j * c < k, k <= j * c + c
    PROVE  (k - 1) \div c = j
<1>1. k - 1 = c * j + (k - 1 - j * c) /\ k - 1 - j * c \in Nat /\ k - 1 - j * c < c
  OBVIOUS
<1> QED
  BY <1>1, Quotient

(* What the sizes of the module are. *)
LEMMA Constants ==
    /\ Page \in Nat /\ Page > 0
    /\ EndSize \in Nat /\ EndSize > Page
    /\ MaxFile \in Nat /\ MaxFile >= Page
    /\ Records \in Nat /\ Records > 0 /\ Records * Page \in Nat /\ Records * Page <= MaxFile
BY PageAssumption, StorageAssumption

(* What a command line holds. *)
LEMMA CommandFields ==
    ASSUME NEW x \in Commands
    PROVE  /\ x.prog \in Programs /\ x.req \in Int /\ x.file \in Nat
           /\ x.c \in 1 .. 126 /\ x.at \in Nat /\ x.times \in Nat
           /\ x.prog = "write_to_ram" => x.req \in 0 .. EndSize
           /\ x # NoCommand
<1>1. x \in [prog : Programs, req : Int, file : Nat, c : 1 .. 126, at : Nat, times : Nat]
  BY StorageAssumption
<1>2. "none" \notin Programs
  BY DEF Programs
<1> QED
  BY <1>1, <1>2, StorageAssumption DEF NoCommand

(* The sizes computed from a command line: whole requests fit into the     *)
(* file, the buffer and the RAM disk.                                      *)
LEMMA SizeFacts ==
    ASSUME NEW x \in Commands
    PROVE  /\ Size(x) \in 0 .. EndSize
           /\ FileSize(x) \in Page .. MaxFile
           /\ Count(x) \in Nat
           /\ Count(x) * Size(x) \in Nat /\ Count(x) * Size(x) <= FileSize(x)
           /\ Count(x) > 0 => Size(x) > 0
           /\ Count(x) <= MaxFile
           /\ Count(x) = 0 => Size(x) = 0 \/ Size(x) > FileSize(x)
<1>1. Size(x) \in 0 .. EndSize
  BY CommandFields, Constants DEF Size
<1>2. FileSize(x) \in Page .. MaxFile
  BY CommandFields, Constants DEF FileSize, Greatest, Least
<1>3. CASE Size(x) = 0
  <2>1. Count(x) = 0 /\ 0 * Size(x) = 0
    BY <1>3 DEF Count
  <2> QED
    BY <1>1, <1>2, <1>3, <2>1, Constants
<1>4. CASE Size(x) > 0
  <2> DEFINE s == Size(x)
             f == FileSize(x)
             q == f \div s
  <2>1. Count(x) = q
    BY <1>4 DEF Count
  <2>2. s \in Nat /\ s > 0 /\ f \in Nat /\ f <= MaxFile
    BY <1>1, <1>2, <1>4, Constants
  <2> HIDE DEF s, f
  <2>3. q \in Nat /\ f % s \in Nat /\ f = s * q + (f % s) /\ f % s < s
    BY <2>2, Divided
  <2> HIDE DEF q
  <2>4. s * q \in Nat /\ q * s = s * q /\ q * s <= f
    BY <2>2, <2>3
  <2>5. q <= q * s
    <3>1. q * 1 <= q * s
      BY <2>2, <2>3
    <3> QED
      BY <2>3, <3>1
  <2>6. q = 0 => f < s
    BY <2>2, <2>3
  <2>7. q <= MaxFile
    BY <2>2, <2>3, <2>4, <2>5, Constants
  <2> QED
    BY <1>1, <1>2, <1>4, <2>1, <2>3, <2>4, <2>6, <2>7 DEF s, f
<1> QED
  BY <1>1, <1>3, <1>4

-----------------------------------------------------------------------------
(* Loops unrolled *)

Joined(n, blocks) ==
    CHOOSE f : f = [i \in 1 .. n |-> IF i = 1 THEN blocks[i] ELSE f[i - 1] \o blocks[i]]

(* The blocks of a loop are joined one after the other.                    *)
LEMMA JoinedDef ==
    ASSUME NEW n \in Nat, NEW blocks
    PROVE  Joined(n, blocks) =
               [i \in 1 .. n |->
                    IF i = 1 THEN blocks[i] ELSE Joined(n, blocks)[i - 1] \o blocks[i]]
<1> DEFINE Good(m, f) ==
               f = [i \in 1 .. m |-> IF i = 1 THEN blocks[i] ELSE f[i - 1] \o blocks[i]]
           T == {m \in Nat : \E f : Good(m, f)}
<1>1. 0 \in T
  <2>1. Good(0, [i \in 1 .. 0 |-> 0])
    OBVIOUS
  <2> HIDE DEF Good
  <2> QED
    BY <2>1
<1>2. ASSUME NEW m \in T PROVE m + 1 \in T
  <2>1. PICK f : Good(m, f)
    OBVIOUS
  <2>2. m \in Nat
    OBVIOUS
  <2> DEFINE g == [i \in 1 .. m + 1 |->
                     IF i = m + 1 THEN IF i = 1 THEN blocks[i] ELSE f[m] \o blocks[i] ELSE f[i]]
  <2>3. ASSUME NEW i \in 1 .. m + 1
        PROVE  g[i] = IF i = 1 THEN blocks[i] ELSE g[i - 1] \o blocks[i]
    <3>1. CASE i = m + 1
      <4>1. i # 1 => i - 1 \in 1 .. m + 1 /\ i - 1 # m + 1 /\ i - 1 = m
        BY <2>2, <3>1
      <4>2. i # 1 => g[i - 1] = f[m]
        BY <4>1
      <4> QED
        BY <3>1, <4>2
    <3>2. CASE i # m + 1
      <4>1. i \in 1 .. m /\ (i # 1 => i - 1 \in 1 .. m + 1 /\ i - 1 # m + 1)
        BY <2>2, <3>2
      <4>2. f[i] = IF i = 1 THEN blocks[i] ELSE f[i - 1] \o blocks[i]
        BY <2>1, <4>1
      <4>3. g[i] = f[i] /\ (i # 1 => g[i - 1] = f[i - 1])
        BY <3>2, <4>1
      <4> QED
        BY <4>2, <4>3
    <3> QED
      BY <3>1, <3>2
  <2>4. g = [i \in 1 .. m + 1 |-> g[i]]
    OBVIOUS
  <2> HIDE DEF g
  <2>5. Good(m + 1, g)
    BY <2>3, <2>4
  <2> HIDE DEF Good
  <2> QED
    BY <2>2, <2>5
<1>3. T \in SUBSET Nat
  OBVIOUS
<1> HIDE DEF T
<1>4. n \in T
  BY <1>1, <1>2, <1>3, Induction
<1>5. \E f : f = [i \in 1 .. n |-> IF i = 1 THEN blocks[i] ELSE f[i - 1] \o blocks[i]]
  BY <1>4 DEF T
<1> QED
  BY <1>5 DEF Joined

(* What FlattenSeq returns is the last of the joins. *)
LEMMA FlattenIsJoined ==
    ASSUME NEW n \in Nat, NEW S, NEW blocks \in [1 .. n -> Seq(S)]
    PROVE  /\ n = 0 => FlattenSeq(blocks) = <<>>
           /\ n > 0 => FlattenSeq(blocks) = Joined(n, blocks)[n]
<1>1. Len(blocks) = n
  OBVIOUS
<1>2. CASE n = 0
  <2>1. blocks = <<>>
    BY <1>2
  <2> QED
    BY <1>1, <1>2, <2>1 DEF FlattenSeq
<1>3. CASE n > 0
  BY <1>1, <1>3 DEF FlattenSeq, Joined
<1> QED
  BY <1>2, <1>3

(* A loop over blocks of steps is a sequence of steps. *)
LEMMA FlattenType ==
    ASSUME NEW n \in Nat, NEW S, NEW blocks \in [1 .. n -> Seq(S)]
    PROVE  FlattenSeq(blocks) \in Seq(S)
<1> DEFINE J == Joined(n, blocks)
           T == {i \in Nat : i \in 1 .. n => J[i] \in Seq(S)}
<1> HIDE DEF T
<1>0. \A i \in 1 .. n : J[i] = IF i = 1 THEN blocks[i] ELSE J[i - 1] \o blocks[i]
  <2>1. J = [i \in 1 .. n |-> IF i = 1 THEN blocks[i] ELSE J[i - 1] \o blocks[i]]
    BY JoinedDef
  <2> HIDE DEF J
  <2> QED
    BY <2>1
<1> HIDE DEF J
<1> USE DEF T
<1>1. 0 \in T
  OBVIOUS
<1>2. ASSUME NEW i \in T PROVE i + 1 \in T
  <2>1. SUFFICES ASSUME i + 1 \in 1 .. n PROVE J[i + 1] \in Seq(S)
    OBVIOUS
  <2>2. i + 1 - 1 = i /\ (i # 0 => i \in 1 .. n)
        /\ J[i + 1] = IF i = 0 THEN blocks[i + 1] ELSE J[i] \o blocks[i + 1]
    BY <1>0, <2>1
  <2>3. blocks[i + 1] \in Seq(S)
    BY <2>1
  <2>4. CASE i = 0
    BY <2>2, <2>3, <2>4
  <2>5. CASE i # 0
    <3>1. J[i] \in Seq(S) /\ J[i + 1] = J[i] \o blocks[i + 1]
      BY <2>1, <2>2, <2>5
    <3> QED
      BY <2>3, <3>1, ConcatProperties
  <2> QED
    BY <2>4, <2>5
<1>3. T \in SUBSET Nat
  OBVIOUS
<1> HIDE DEF T
<1>4. T = Nat
  BY <1>1, <1>2, <1>3, Induction
<1>5. CASE n = 0
  <2>1. FlattenSeq(blocks) = <<>>
    BY <1>5, FlattenIsJoined
  <2> QED
    BY <2>1
<1>6. CASE n > 0
  <2>1. n \in T /\ n \in 1 .. n
    BY <1>4, <1>6
  <2>2. J[n] \in Seq(S)
    BY <2>1 DEF T
  <2>3. FlattenSeq(blocks) = J[n]
    BY <1>6, FlattenIsJoined DEF J
  <2> QED
    BY <2>2, <2>3
<1> QED
  BY <1>5, <1>6

(* Where step k of block i is in a loop over blocks of m steps: *)
Nth(m, i, k) == (i - 1) * m + k

IsLoop(s, n, m, blocks) ==
    /\ Len(s) = n * m
    /\ \A i \in 1 .. n, k \in 1 .. m :
           Nth(m, i, k) \in 1 .. n * m /\ s[Nth(m, i, k)] = blocks[i][k]

(* that is how FlattenSeq puts them together. *)
LEMMA FlattenIs ==
    ASSUME NEW n \in Nat, NEW m \in Nat, NEW S, NEW blocks \in [1 .. n -> Seq(S)],
           \A i \in 1 .. n : Len(blocks[i]) = m
    PROVE  /\ FlattenSeq(blocks) \in Seq(S)
           /\ IsLoop(FlattenSeq(blocks), n, m, blocks)
<1> USE DEF Nth, IsLoop
<1> DEFINE J == Joined(n, blocks)
           Good(j) == /\ J[j] \in Seq(S) /\ Len(J[j]) = j * m
                      /\ \A i \in 1 .. j, k \in 1 .. m :
                             J[j][(i - 1) * m + k] = blocks[i][k]
           T == {j \in Nat : j \in 1 .. n => Good(j)}
<1> HIDE DEF T
<1>0. \A i \in 1 .. n : J[i] = IF i = 1 THEN blocks[i] ELSE J[i - 1] \o blocks[i]
  <2>1. J = [i \in 1 .. n |-> IF i = 1 THEN blocks[i] ELSE J[i - 1] \o blocks[i]]
    BY JoinedDef
  <2> HIDE DEF J
  <2> QED
    BY <2>1
<1> HIDE DEF J
<1>1. 0 \in T
  BY DEF T
<1>2. ASSUME NEW j \in T PROVE j + 1 \in T
  <2>0. SUFFICES ASSUME j + 1 \in 1 .. n PROVE Good(j + 1)
    <3> HIDE DEF Good
    <3>1. j \in Nat /\ j + 1 \in Nat
      BY DEF T
    <3> QED
      BY <3>1 DEF T, Good
  <2>1. j \in Nat /\ j + 1 \in 1 .. n /\ (j \in 1 .. n => Good(j))
    BY <2>0 DEF T
  <2>2. (j # 0 => j \in 1 .. n)
        /\ J[j + 1] = IF j = 0 THEN blocks[j + 1] ELSE J[j] \o blocks[j + 1]
    <3>1. j + 1 - 1 = j /\ (j + 1 = 1 <=> j = 0) /\ (j # 0 => j \in 1 .. n)
      BY <2>1
    <3>2. J[j + 1] = IF j + 1 = 1 THEN blocks[j + 1] ELSE J[j + 1 - 1] \o blocks[j + 1]
      BY <1>0, <2>1
    <3> QED
      BY <3>1, <3>2
  <2>3. blocks[j + 1] \in Seq(S) /\ Len(blocks[j + 1]) = m
    BY <2>1
  <2>4. CASE j = 0
    <3>1. J[1] = blocks[1] /\ j + 1 = 1 /\ 1 * m = m
      BY <2>2, <2>4
    <3>2. \A i \in 1 .. 1 : i = 1
      OBVIOUS
    <3>3. \A k \in 1 .. m : (1 - 1) * m + k = k
      OBVIOUS
    <3>4. Good(1)
      BY <2>3, <3>1, <3>2, <3>3
    <3> QED
      BY <3>1, <3>4
  <2>5. CASE j # 0
    <3>1. /\ J[j] \in Seq(S) /\ Len(J[j]) = j * m /\ J[j + 1] = J[j] \o blocks[j + 1]
          /\ \A i \in 1 .. j, k \in 1 .. m : J[j][(i - 1) * m + k] = blocks[i][k]
      BY <2>1, <2>2, <2>5
    <3>2. /\ J[j + 1] \in Seq(S) /\ Len(J[j + 1]) = j * m + m
          /\ \A k \in 1 .. j * m + m :
                 J[j + 1][k] = IF k <= j * m THEN J[j][k] ELSE blocks[j + 1][k - j * m]
      <4> DEFINE s == J[j]
                 t == blocks[j + 1]
      <4>1. s \in Seq(S) /\ t \in Seq(S) /\ Len(s) = j * m /\ Len(t) = m /\ J[j + 1] = s \o t
        BY <2>3, <3>1
      <4> HIDE DEF s, t
      <4>2. /\ s \o t \in Seq(S)
            /\ Len(s \o t) = Len(s) + Len(t)
            /\ \A k \in 1 .. Len(s) + Len(t) :
                   (s \o t)[k] = IF k <= Len(s) THEN s[k] ELSE t[k - Len(s)]
        BY <4>1, ConcatProperties
      <4> QED
        BY <4>1, <4>2 DEF s, t
    <3>3. (j + 1) * m = j * m + m /\ j * m \in Nat
      BY <2>1
    <3>4. ASSUME NEW i \in 1 .. j + 1, NEW k \in 1 .. m
          PROVE  J[j + 1][(i - 1) * m + k] = blocks[i][k]
      <4>1. CASE i = j + 1
        <5>1. (i - 1) * m + k = j * m + k
          BY <2>1, <4>1
        <5>2. j * m + k \in 1 .. j * m + m /\ ~(j * m + k <= j * m) /\ (j * m + k) - j * m = k
          <6> DEFINE a == j * m
          <6>1. a \in Nat
            BY <3>3
          <6> HIDE DEF a
          <6>2. a + k \in 1 .. a + m /\ ~(a + k <= a) /\ (a + k) - a = k
            BY <6>1
          <6> QED
            BY <6>2 DEF a
        <5> QED
          BY <3>2, <4>1, <5>1, <5>2
      <4>2. CASE i # j + 1
        <5>1. i \in 1 .. j
          BY <2>1, <4>2
        <5>2. (i - 1) * m \in Nat /\ (i - 1) * m + m <= j * m
          BY <2>1, <5>1, Blocks
        <5>3. (i - 1) * m + k \in 1 .. j * m + m /\ (i - 1) * m + k <= j * m
          <6> DEFINE a == (i - 1) * m
                     b == j * m
          <6>1. a \in Nat /\ b \in Nat /\ a + m <= b
            BY <3>3, <5>2
          <6> HIDE DEF a, b
          <6>2. a + k \in 1 .. b + m /\ a + k <= b
            BY <6>1
          <6> QED
            BY <6>2 DEF a, b
        <5> QED
          BY <3>1, <3>2, <5>1, <5>3
      <4> QED
        BY <4>1, <4>2
    <3> QED
      BY <3>2, <3>3, <3>4
  <2> QED
    BY <2>4, <2>5
<1>3. T \in SUBSET Nat
  BY DEF T
<1> HIDE DEF T
<1>4. T = Nat
  BY <1>1, <1>2, <1>3, Induction
<1>5. ASSUME NEW i \in 1 .. n, NEW k \in 1 .. m
      PROVE  (i - 1) * m + k \in 1 .. n * m
  <2> DEFINE a == (i - 1) * m
             b == n * m
  <2>1. a \in Nat /\ b \in Nat /\ a + m <= b
    BY Blocks
  <2> HIDE DEF a, b
  <2>2. a + k \in 1 .. b
    BY <2>1
  <2> QED
    BY <2>2 DEF a, b
<1>6. CASE n = 0
  <2>1. FlattenSeq(blocks) = <<>>
    BY <1>6, FlattenIsJoined
  <2>2. n * m = 0
    BY <1>6
  <2> QED
    BY <1>5, <1>6, <2>1, <2>2
<1>7. CASE n > 0
  <2>1. FlattenSeq(blocks) = J[n]
    BY <1>7, FlattenIsJoined DEF J
  <2>2. n \in 1 .. n /\ n \in T
    BY <1>4, <1>7
  <2> HIDE DEF J
  <2> QED
    BY <1>5, <2>1, <2>2 DEF T
<1> QED
  BY <1>6, <1>7

-----------------------------------------------------------------------------
(* The pattern *)

(* A character after the first is the one before it, bumped, and none is   *)
(* the 0 that stands for any byte.                                         *)
LEMMA PatternIs ==
    ASSUME NEW x \in Commands
    PROVE  /\ \A i \in 0 .. MaxFile : Pattern(x)[i] \in 1 .. 126
           /\ Pattern(x)[0] = x.c
           /\ \A i \in 1 .. MaxFile : Pattern(x)[i] = Bump(Pattern(x)[i - 1])
<1> DEFINE Good(m, f) == f = [i \in 0 .. m |-> IF i = 0 THEN x.c ELSE Bump(f[i - 1])]
           T == {m \in Nat : \E f : Good(m, f)}
<1>1. 0 \in T
  <2> DEFINE g == [i \in 0 .. 0 |-> x.c]
  <2>1. \A i \in 0 .. 0 : i = 0 /\ g[i] = x.c
    OBVIOUS
  <2>2. Good(0, g)
    BY <2>1
  <2> HIDE DEF Good
  <2> QED
    BY <2>2
<1>2. ASSUME NEW m \in T PROVE m + 1 \in T
  <2>1. PICK f : Good(m, f)
    OBVIOUS
  <2>2. m \in Nat
    OBVIOUS
  <2> DEFINE g == [i \in 0 .. m + 1 |-> IF i = m + 1 THEN Bump(f[m]) ELSE f[i]]
  <2>3. ASSUME NEW i \in 0 .. m + 1
        PROVE  g[i] = IF i = 0 THEN x.c ELSE Bump(g[i - 1])
    <3>1. CASE i = m + 1
      <4>1. i # 0 /\ i - 1 = m /\ i - 1 \in 0 .. m + 1 /\ i - 1 # m + 1
        BY <2>2, <3>1
      <4>2. g[i - 1] = f[m] /\ g[i] = Bump(f[m])
        BY <3>1, <4>1
      <4> QED
        BY <4>1, <4>2
    <3>2. CASE i # m + 1
      <4>1. i \in 0 .. m /\ (i # 0 => i - 1 \in 0 .. m + 1 /\ i - 1 # m + 1)
        BY <2>2, <3>2
      <4>2. f[i] = IF i = 0 THEN x.c ELSE Bump(f[i - 1])
        BY <2>1, <4>1
      <4>3. g[i] = f[i] /\ (i # 0 => g[i - 1] = f[i - 1])
        BY <3>2, <4>1
      <4> QED
        BY <4>2, <4>3
    <3> QED
      BY <3>1, <3>2
  <2>4. g = [i \in 0 .. m + 1 |-> g[i]]
    OBVIOUS
  <2> HIDE DEF g
  <2>5. Good(m + 1, g)
    BY <2>3, <2>4
  <2> HIDE DEF Good
  <2> QED
    BY <2>2, <2>5
<1>3. T \in SUBSET Nat
  OBVIOUS
<1> HIDE DEF T
<1>4. MaxFile \in T
  BY <1>1, <1>2, <1>3, Induction, Constants
<1>5. \E f : f = [i \in 0 .. MaxFile |-> IF i = 0 THEN x.c ELSE Bump(f[i - 1])]
  BY <1>4 DEF T
<1> DEFINE p == Pattern(x)
<1>6. p = [i \in 0 .. MaxFile |-> IF i = 0 THEN x.c ELSE Bump(p[i - 1])]
  BY <1>5 DEF Pattern
<1> HIDE DEF p
<1>7. \A i \in 0 .. MaxFile : p[i] = IF i = 0 THEN x.c ELSE Bump(p[i - 1])
  BY <1>6
<1> DEFINE U == {i \in Nat : i <= MaxFile => p[i] \in 1 .. 126}
<1>8. 0 \in U
  <2>1. p[0] = x.c /\ x.c \in 1 .. 126
    BY <1>7, CommandFields, Constants
  <2> QED
    BY <2>1
<1>9. ASSUME NEW i \in U PROVE i + 1 \in U
  <2>1. SUFFICES ASSUME i + 1 <= MaxFile PROVE p[i + 1] \in 1 .. 126
    OBVIOUS
  <2>2. i + 1 \in 0 .. MaxFile /\ i + 1 # 0 /\ i + 1 - 1 = i /\ p[i] \in 1 .. 126
    BY <2>1, Constants
  <2>3. p[i + 1] = Bump(p[i])
    BY <1>7, <2>2
  <2> QED
    BY <2>2, <2>3 DEF Bump
<1>10. U \in SUBSET Nat
  OBVIOUS
<1> HIDE DEF U
<1>11. U = Nat
  BY <1>8, <1>9, <1>10, Induction
<1>12. ASSUME NEW i \in 0 .. MaxFile PROVE p[i] \in 1 .. 126
  BY <1>11, Constants DEF U
<1>13. 0 \in 0 .. MaxFile /\ \A i \in 1 .. MaxFile : i \in 0 .. MaxFile /\ i # 0
  BY Constants
<1> QED
  BY <1>7, <1>12, <1>13 DEF p

-----------------------------------------------------------------------------
(* What fills a block is a character. *)
LEMMA PatternType ==
    ASSUME NEW x \in Commands, NEW k \in 0 .. MaxFile PROVE Pattern(x)[k] \in Int
<1>1. Pattern(x)[k] \in 1 .. 126
  BY PatternIs
<1>2. \A c \in 1 .. 126 : c \in Int
  OBVIOUS
<1> QED
  BY <1>1, <1>2

(* Steps *)

Iferr == {"ignore", "report", "exit"}

(* Steps that use system calls, *)
UnmappedSteps ==
    [op : {"open", "unlink"}]
    \cup [op : {"seek"}, at : Nat]
    \cup [op : {"seekrecord"}, i : 0 .. MaxFile]
    \cup [op : {"fill"}, c : Int, n : Int]
    \cup [op : {"read"}, n : 0 .. EndSize, want : Int, iferr : Iferr]
    \cup [op : {"write"}, n : 0 .. EndSize, iferr : Iferr]
    \cup [op : {"sync"}, lo : Nat, hi : Nat]
    \cup [op : {"divide"}, n : Int]
    \cup [op : {"swap"}, i : 0 .. MaxFile, n : 1 .. MaxFile + 1]

(* and those that use a mapping. *)
Steps ==
    UnmappedSteps
    \cup [op : {"store"}, at : Nat, n : Nat, c : Int, limit : Nat]
    \cup [op : {"load"}, at : Nat, n : Nat]

(* The steps of the programs are such steps, *)
LEMMA StepsMade ==
    /\ Open \in UnmappedSteps /\ Unlink \in UnmappedSteps /\ Fsync \in UnmappedSteps
    /\ \A at \in Nat : Seek(at) \in UnmappedSteps
    /\ \A i \in 0 .. MaxFile : SeekRecord(i) \in UnmappedSteps
    /\ \A c \in Int, n \in Int : Fill(c, n) \in UnmappedSteps
    /\ \A n \in 0 .. EndSize, want \in Int, e \in Iferr : Read(n, want, e) \in UnmappedSteps
    /\ \A n \in 0 .. EndSize, e \in Iferr : Write(n, e) \in UnmappedSteps
    /\ \A lo \in Nat, hi \in Nat : Msync(lo, hi) \in UnmappedSteps
    /\ \A n \in Int : DivideBy(n) \in UnmappedSteps
    /\ \A i \in 0 .. MaxFile, n \in 1 .. MaxFile + 1 : Swap(i, n) \in UnmappedSteps
    /\ \A at \in Nat, n \in Nat, c \in Int, limit \in Nat : Store(at, n, c, limit) \in Steps
    /\ \A at \in Nat, n \in Nat : Load(at, n) \in Steps
    /\ UnmappedSteps \subseteq Steps
<1>1. Open \in UnmappedSteps /\ Unlink \in UnmappedSteps /\ Fsync \in UnmappedSteps
  BY Constants DEF Open, Unlink, Fsync, UnmappedSteps
<1>2. /\ \A at \in Nat : Seek(at) \in UnmappedSteps
      /\ \A i \in 0 .. MaxFile : SeekRecord(i) \in UnmappedSteps
      /\ \A c \in Int, n \in Int : Fill(c, n) \in UnmappedSteps
  BY DEF Seek, SeekRecord, Fill, UnmappedSteps
<1>3. /\ \A n \in 0 .. EndSize, want \in Int, e \in Iferr : Read(n, want, e) \in UnmappedSteps
      /\ \A n \in 0 .. EndSize, e \in Iferr : Write(n, e) \in UnmappedSteps
  BY DEF Read, Write, UnmappedSteps
<1>4. /\ \A lo \in Nat, hi \in Nat : Msync(lo, hi) \in UnmappedSteps
      /\ \A n \in Int : DivideBy(n) \in UnmappedSteps
      /\ \A i \in 0 .. MaxFile, n \in 1 .. MaxFile + 1 : Swap(i, n) \in UnmappedSteps
  BY DEF Msync, DivideBy, Swap, UnmappedSteps
<1>5. /\ \A at \in Nat, n \in Nat, c \in Int, limit \in Nat : Store(at, n, c, limit) \in Steps
      /\ \A at \in Nat, n \in Nat : Load(at, n) \in Steps
  BY DEF Store, Load, Steps
<1> QED
  BY <1>1, <1>2, <1>3, <1>4, <1>5 DEF Steps

(* and have the arguments they need. *)
LEMMA StepFields ==
    ASSUME NEW s \in Steps
    PROVE  /\ s.op \in {"open", "unlink", "seek", "seekrecord", "fill", "read", "write",
                        "sync", "divide", "swap", "store", "load"}
           /\ s.op = "seek" => s.at \in Nat
           /\ s.op = "seekrecord" => s.i \in 0 .. MaxFile
           /\ s.op = "fill" => s.c \in Int
           /\ s.op = "read" => s.n \in 0 .. EndSize
           /\ s.op = "write" => s.n \in 0 .. EndSize
           /\ s.op = "sync" => s.lo \in Nat /\ s.hi \in Nat
           /\ s.op = "swap" => s.i \in 0 .. MaxFile /\ s.n \in 1 .. MaxFile + 1
           /\ s.op = "store" => s.at \in Nat /\ s.n \in Nat /\ s.c \in Int /\ s.limit \in Nat
           /\ s \in UnmappedSteps => s.op \notin {"store", "load"}
<1>1. CASE s \in UnmappedSteps
  BY <1>1 DEF UnmappedSteps
<1>2. CASE s \in [op : {"store"}, at : Nat, n : Nat, c : Int, limit : Nat]
  BY <1>2 DEF UnmappedSteps
<1>3. CASE s \in [op : {"load"}, at : Nat, n : Nat]
  BY <1>3 DEF UnmappedSteps
<1> QED
  BY <1>1, <1>2, <1>3 DEF Steps

-----------------------------------------------------------------------------
(* Scripts *)

(* What stands where in a sequence made of three. *)
LEMMA ThreeParts ==
    ASSUME NEW S, NEW r \in Seq(S), NEW s \in Seq(S), NEW t \in Seq(S)
    PROVE  /\ r \o s \o t \in Seq(S)
           /\ Len(r \o s \o t) = Len(r) + Len(s) + Len(t)
           /\ \A k \in 1 .. Len(r) : (r \o s \o t)[k] = r[k]
           /\ \A k \in 1 .. Len(s) : (r \o s \o t)[Len(r) + k] = s[k]
           /\ \A k \in 1 .. Len(t) : (r \o s \o t)[Len(r) + Len(s) + k] = t[k]
<1>1. Len(r) \in Nat /\ Len(s) \in Nat /\ Len(t) \in Nat
  OBVIOUS
<1> DEFINE q == r \o s
<1>2. /\ q \in Seq(S) /\ Len(q) = Len(r) + Len(s)
      /\ \A k \in 1 .. Len(r) + Len(s) : q[k] = IF k <= Len(r) THEN r[k] ELSE s[k - Len(r)]
  BY ConcatProperties
<1> HIDE DEF q
<1>7. q \in Seq(S)
  BY <1>2
<1>3. /\ q \o t \in Seq(S) /\ Len(q \o t) = Len(q) + Len(t)
      /\ \A k \in 1 .. Len(q) + Len(t) :
             (q \o t)[k] = IF k <= Len(q) THEN q[k] ELSE t[k - Len(q)]
  BY <1>7, ConcatProperties
<1>4. ASSUME NEW k \in 1 .. Len(r) PROVE (q \o t)[k] = r[k]
  BY <1>1, <1>2, <1>3
<1>5. ASSUME NEW k \in 1 .. Len(s) PROVE (q \o t)[Len(r) + k] = s[k]
  <2>1. /\ Len(r) + k \in 1 .. Len(r) + Len(s) /\ Len(r) + k \in 1 .. Len(q) + Len(t)
        /\ Len(r) + k <= Len(q) /\ ~(Len(r) + k <= Len(r)) /\ Len(r) + k - Len(r) = k
    BY <1>1, <1>2
  <2> QED
    BY <1>2, <1>3, <2>1
<1>6. ASSUME NEW k \in 1 .. Len(t) PROVE (q \o t)[Len(r) + Len(s) + k] = t[k]
  <2>1. /\ Len(r) + Len(s) + k \in 1 .. Len(q) + Len(t)
        /\ ~(Len(r) + Len(s) + k <= Len(q)) /\ Len(r) + Len(s) + k - Len(q) = k
    BY <1>1, <1>2
  <2> QED
    BY <1>3, <2>1
<1> QED
  BY <1>2, <1>3, <1>4, <1>5, <1>6 DEF q

(* What stands where in a loop with something before and after it. *)
IsLooped(s, r, n, m, blocks, t) ==
    /\ Len(s) = Len(r) + n * m + Len(t)
    /\ \A k \in 1 .. Len(r) : s[k] = r[k]
    /\ \A i \in 1 .. n, k \in 1 .. m : s[Len(r) + Nth(m, i, k)] = blocks[i][k]
    /\ \A k \in 1 .. Len(t) : s[Len(r) + n * m + k] = t[k]

(* That is where FlattenSeq puts the loop between the two. *)
LEMMA LoopIs ==
    ASSUME NEW S, NEW r \in Seq(S), NEW t \in Seq(S), NEW n \in Nat, NEW m \in Nat,
           NEW blocks \in [1 .. n -> Seq(S)], \A i \in 1 .. n : Len(blocks[i]) = m
    PROVE  /\ r \o FlattenSeq(blocks) \o t \in Seq(S)
           /\ IsLooped(r \o FlattenSeq(blocks) \o t, r, n, m, blocks, t)
<1> DEFINE l == FlattenSeq(blocks)
<1>0. l \in Seq(S) /\ IsLoop(l, n, m, blocks)
  BY FlattenIs
<1> HIDE DEF l
<1>1. Len(l) = n * m
      /\ \A i \in 1 .. n, k \in 1 .. m :
             Nth(m, i, k) \in 1 .. n * m /\ l[Nth(m, i, k)] = blocks[i][k]
  BY <1>0 DEF IsLoop
<1> DEFINE s == r \o l \o t
<1>2. /\ s \in Seq(S)
      /\ Len(s) = Len(r) + Len(l) + Len(t)
      /\ \A k \in 1 .. Len(r) : s[k] = r[k]
      /\ \A k \in 1 .. Len(l) : s[Len(r) + k] = l[k]
      /\ \A k \in 1 .. Len(t) : s[Len(r) + Len(l) + k] = t[k]
  BY <1>0, ThreeParts
<1> HIDE DEF s
<1>3. ASSUME NEW i \in 1 .. n, NEW k \in 1 .. m
      PROVE  s[Len(r) + Nth(m, i, k)] = blocks[i][k]
  BY <1>1, <1>2
<1>4. IsLooped(s, r, n, m, blocks, t)
  BY <1>1, <1>2, <1>3 DEF IsLooped
<1> QED
  BY <1>2, <1>4 DEF s, l

(* The same for a loop with nothing after it. *)
LEMMA LastLoopIs ==
    ASSUME NEW S, NEW r \in Seq(S), NEW n \in Nat, NEW m \in Nat,
           NEW blocks \in [1 .. n -> Seq(S)], \A i \in 1 .. n : Len(blocks[i]) = m
    PROVE  /\ r \o FlattenSeq(blocks) \in Seq(S)
           /\ IsLooped(r \o FlattenSeq(blocks), r, n, m, blocks, << >>)
<1> DEFINE s == r \o FlattenSeq(blocks)
           none == << >>
<1>1. FlattenSeq(blocks) \in Seq(S)
  BY FlattenIs
<1>2. s \in Seq(S)
  BY <1>1, ConcatProperties
<1>3. s \o none = s
  BY <1>2, ConcatEmptySeq
<1>4. none \in Seq(S)
  OBVIOUS
<1> HIDE DEF none
<1>5. IsLooped(r \o FlattenSeq(blocks) \o none, r, n, m, blocks, none)
  BY <1>4, LoopIs
<1> QED
  BY <1>2, <1>3, <1>5 DEF none

(* latency_write writes and syncs each block.                              *)
LEMMA LatencyWriteScript ==
    ASSUME NEW x \in Commands
    PROVE  LET s == LatencyWrite(x)
               n == Count(x)
           IN
           /\ s \in Seq(UnmappedSteps)
           /\ Len(s) = 4 + 2 * n
           /\ s[1] = Open /\ s[2] = Fill(x.c, Size(x)) /\ s[3] = DivideBy(Size(x))
           /\ \A i \in 1 .. n : s[2 * i + 2] = Write(Size(x), "report") /\ s[2 * i + 3] = Fsync
           /\ s[4 + 2 * n] = DivideBy(n)
<1> DEFINE s == LatencyWrite(x)
           n == Count(x)
           r == <<Open, Fill(x.c, Size(x)), DivideBy(Size(x))>>
           t == <<DivideBy(n)>>
           blocks == [i \in 1 .. n |-> <<Write(Size(x), "report"), Fsync>>]
<1>1. s = r \o FlattenSeq(blocks) \o t
  BY DEF LatencyWrite, Repeat
<1>2. /\ n \in Nat /\ Size(x) \in 0 .. EndSize /\ Size(x) \in Int /\ n \in Int /\ x.c \in Int
      /\ "report" \in Iferr
  BY SizeFacts, CommandFields, Constants DEF Iferr
<1> HIDE DEF s, n
<1>3. /\ Open \in UnmappedSteps /\ Fill(x.c, Size(x)) \in UnmappedSteps
      /\ DivideBy(Size(x)) \in UnmappedSteps /\ DivideBy(n) \in UnmappedSteps
      /\ Write(Size(x), "report") \in UnmappedSteps /\ Fsync \in UnmappedSteps
  BY <1>2, StepsMade
<1>4. /\ r \in Seq(UnmappedSteps) /\ Len(r) = 3
      /\ r[1] = Open /\ r[2] = Fill(x.c, Size(x)) /\ r[3] = DivideBy(Size(x))
      /\ t \in Seq(UnmappedSteps) /\ Len(t) = 1 /\ t[1] = DivideBy(n)
  BY <1>3
<1>5. /\ blocks \in [1 .. n -> Seq(UnmappedSteps)]
      /\ \A i \in 1 .. n : Len(blocks[i]) = 2
      /\ \A i \in 1 .. n : blocks[i][1] = Write(Size(x), "report") /\ blocks[i][2] = Fsync
  BY <1>3
<1> HIDE DEF r, t, blocks
<1>6. s \in Seq(UnmappedSteps) /\ IsLooped(s, r, n, 2, blocks, t)
  BY <1>1, <1>2, <1>4, <1>5, LoopIs
<1>7. ASSUME NEW i \in 1 .. n
      PROVE  s[2 * i + 2] = Write(Size(x), "report") /\ s[2 * i + 3] = Fsync
  <2>1. Len(r) + Nth(2, i, 1) = 2 * i + 2 /\ Len(r) + Nth(2, i, 2) = 2 * i + 3
    BY <1>4 DEF Nth
  <2> QED
    BY <1>5, <1>6, <2>1 DEF IsLooped
<1>8. /\ Len(s) = 4 + 2 * n /\ s[4 + 2 * n] = DivideBy(n)
      /\ s[1] = Open /\ s[2] = Fill(x.c, Size(x)) /\ s[3] = DivideBy(Size(x))
  BY <1>2, <1>4, <1>6 DEF IsLooped
<1> QED
  BY <1>6, <1>7, <1>8 DEF s, n

(* Whole pages fit into the file. *)
LEMMA PagesFit ==
    ASSUME NEW x \in Commands
    PROVE  LET n == FileSize(x) \div Page IN
           /\ n \in Nat /\ n > 0 /\ n * Page \in Nat /\ n * Page <= FileSize(x)
           /\ n <= MaxFile
           /\ FileSize(x) >= 3 * Page => n >= 3
<1> DEFINE f == FileSize(x)
           n == f \div Page
           r == f % Page
<1>1. f \in Nat /\ f >= Page /\ f <= MaxFile /\ Page \in Nat /\ Page > 0 /\ MaxFile \in Nat
  BY SizeFacts, Constants
<1> HIDE DEF f
<1>2. n \in Nat /\ r \in Nat /\ f = Page * n + r /\ r < Page
  BY <1>1, Divided
<1> HIDE DEF n, r
<1>3. n * Page = Page * n /\ n * Page \in Nat /\ n * Page <= f
  BY <1>1, <1>2
<1>4. n > 0
  <2>1. SUFFICES ASSUME n = 0 PROVE FALSE
    BY <1>2
  <2>2. n * Page = 0
    BY <1>1, <2>1
  <2> QED
    BY <1>1, <1>2, <1>3, <2>2
<1>5. n <= n * Page
  <2>1. n * 1 <= n * Page
    BY <1>1, <1>2
  <2> QED
    BY <1>2, <2>1
<1>6. ASSUME f >= 3 * Page PROVE n >= 3
  <2>1. SUFFICES ASSUME n <= 2 PROVE FALSE
    BY <1>2
  <2>2. n * Page <= 2 * Page
    BY <1>1, <1>2, <2>1, TimesMonotone
  <2> QED
    BY <1>1, <1>2, <1>3, <1>6, <2>2
<1>7. n <= MaxFile
  BY <1>1, <1>2, <1>3, <1>5
<1> QED
  BY <1>1, <1>2, <1>3, <1>4, <1>6, <1>7 DEF f, n

(* integrity_test2_write writes blocks and fills the next one. *)
LEMMA IntegrityWriteScript ==
    ASSUME NEW x \in Commands
    PROVE  LET s == IntegrityWrite(x)
               n == Count(x)
           IN
           /\ s \in Seq(UnmappedSteps)
           /\ Len(s) = 3 + 2 * n
           /\ s[1] = Open
           /\ s[2] = Fill(x.c, Size(x))
           /\ s[3] = DivideBy(Size(x))
           /\ \A i \in 1 .. n :
                  /\ s[2 * i + 2] = Write(Size(x), "report")
                  /\ s[2 * i + 3] = Fill(Pattern(x)[i], Size(x))
<1> DEFINE s == IntegrityWrite(x)
           n == Count(x)
           r == <<Open, Fill(x.c, Size(x)), DivideBy(Size(x))>>
           blocks == [i \in 1 .. n |-> <<Write(Size(x), "report"), Fill(Pattern(x)[i], Size(x))>>]
<1>1. s = r \o FlattenSeq(blocks)
  BY DEF IntegrityWrite, Repeat
<1>2. /\ n \in Nat /\ Size(x) \in 0 .. EndSize /\ Size(x) \in Int /\ n \in Int /\ x.c \in Int
      /\ "report" \in Iferr
  BY SizeFacts, CommandFields, Constants DEF Iferr
<1> HIDE DEF s, n
<1>3. /\ Open \in UnmappedSteps
      /\ Fill(x.c, Size(x)) \in UnmappedSteps
      /\ DivideBy(Size(x)) \in UnmappedSteps
      /\ Write(Size(x), "report") \in UnmappedSteps
  BY <1>2, StepsMade
<1>4. ASSUME NEW i \in 1 .. n
      PROVE  /\ Fill(Pattern(x)[i], Size(x)) \in UnmappedSteps
  <2>1. i \in 0 .. MaxFile
    BY SizeFacts, Constants DEF n
  <2>2. Pattern(x)[i] \in Int
    BY <2>1, PatternIs
  <2> QED
    BY <1>2, <2>2, StepsMade
<1>5. /\ r \in Seq(UnmappedSteps) /\ Len(r) = 3
      /\ r[1] = Open
      /\ r[2] = Fill(x.c, Size(x))
      /\ r[3] = DivideBy(Size(x))
  BY <1>3
<1>6. /\ blocks \in [1 .. n -> Seq(UnmappedSteps)]
      /\ \A i \in 1 .. n : Len(blocks[i]) = 2
      /\ \A i \in 1 .. n : blocks[i][1] = Write(Size(x), "report")
      /\ \A i \in 1 .. n : blocks[i][2] = Fill(Pattern(x)[i], Size(x))
  BY <1>3, <1>4
<1> HIDE DEF r, blocks
<1>7. s \in Seq(UnmappedSteps) /\ IsLooped(s, r, n, 2, blocks, << >>)
  BY <1>1, <1>2, <1>5, <1>6, LastLoopIs
<1>8. ASSUME NEW i \in 1 .. n
      PROVE  /\ s[2 * i + 2] = Write(Size(x), "report")
             /\ s[2 * i + 3] = Fill(Pattern(x)[i], Size(x))
  <2>1. /\ Len(r) + Nth(2, i, 1) = 2 * i + 2
        /\ Len(r) + Nth(2, i, 2) = 2 * i + 3
    BY <1>5 DEF Nth
  <2> QED
    BY <1>6, <1>7, <2>1 DEF IsLooped
<1>9. /\ Len(s) = 3 + 2 * n
      /\ s[1] = Open
      /\ s[2] = Fill(x.c, Size(x))
      /\ s[3] = DivideBy(Size(x))
  BY <1>2, <1>5, <1>7 DEF IsLooped
<1> QED
  BY <1>7, <1>8, <1>9 DEF s, n

(* integrity_test2_read reads blocks and compares them. *)
LEMMA IntegrityReadScript ==
    ASSUME NEW x \in Commands
    PROVE  LET s == IntegrityRead(x)
               n == Count(x)
           IN
           /\ s \in Seq(UnmappedSteps)
           /\ Len(s) = 3 + n
           /\ s[1] = Open
           /\ s[2] = Fill(x.c, Size(x))
           /\ s[3] = DivideBy(Size(x))
           /\ \A i \in 1 .. n :
                  s[i + 3] = Read(Size(x), Pattern(x)[i - 1], "report")
<1> DEFINE s == IntegrityRead(x)
           n == Count(x)
           r == <<Open, Fill(x.c, Size(x)), DivideBy(Size(x))>>
           blocks == [i \in 1 .. n |-> <<Read(Size(x), Pattern(x)[i - 1], "report")>>]
<1>1. s = r \o FlattenSeq(blocks)
  BY DEF IntegrityRead, Repeat
<1>2. /\ n \in Nat /\ Size(x) \in 0 .. EndSize /\ Size(x) \in Int /\ n \in Int /\ x.c \in Int
      /\ "report" \in Iferr
  BY SizeFacts, CommandFields, Constants DEF Iferr
<1> HIDE DEF s, n
<1>3. /\ Open \in UnmappedSteps
      /\ Fill(x.c, Size(x)) \in UnmappedSteps
      /\ DivideBy(Size(x)) \in UnmappedSteps
  BY <1>2, StepsMade
<1>4. ASSUME NEW i \in 1 .. n
      PROVE  /\ Read(Size(x), Pattern(x)[i - 1], "report") \in UnmappedSteps
  <2>1. i - 1 \in 0 .. MaxFile
    BY SizeFacts, Constants DEF n
  <2>2. Pattern(x)[i - 1] \in Int
    BY <2>1, PatternType
  <2> QED
    BY <1>2, <2>2, StepsMade
<1>5. /\ r \in Seq(UnmappedSteps) /\ Len(r) = 3
      /\ r[1] = Open
      /\ r[2] = Fill(x.c, Size(x))
      /\ r[3] = DivideBy(Size(x))
  BY <1>3
<1>6. /\ blocks \in [1 .. n -> Seq(UnmappedSteps)]
      /\ \A i \in 1 .. n : Len(blocks[i]) = 1
      /\ \A i \in 1 .. n : blocks[i][1] = Read(Size(x), Pattern(x)[i - 1], "report")
  BY <1>3, <1>4
<1> HIDE DEF r, blocks
<1>7. s \in Seq(UnmappedSteps) /\ IsLooped(s, r, n, 1, blocks, << >>)
  BY <1>1, <1>2, <1>5, <1>6, LastLoopIs
<1>8. ASSUME NEW i \in 1 .. n
      PROVE  /\ s[i + 3] = Read(Size(x), Pattern(x)[i - 1], "report")
  <2>1. /\ Len(r) + Nth(1, i, 1) = i + 3
    BY <1>5 DEF Nth
  <2> QED
    BY <1>6, <1>7, <2>1 DEF IsLooped
<1>9. /\ Len(s) = 3 + n
      /\ s[1] = Open
      /\ s[2] = Fill(x.c, Size(x))
      /\ s[3] = DivideBy(Size(x))
  BY <1>2, <1>5, <1>7 DEF IsLooped
<1> QED
  BY <1>7, <1>8, <1>9 DEF s, n

(* mmap_write stores block after block, then msyncs and overwrites. *)
LEMMA MmapWriteScript ==
    ASSUME NEW x \in Commands
    PROVE  LET s == MmapWrite(x)
               n == Count(x)
           IN
           /\ s \in Seq(Steps)
           /\ Len(s) = 5 + n
           /\ s[1] = Open
           /\ s[2] = DivideBy(Size(x))
           /\ \A i \in 1 .. n :
                  s[i + 2] = Store(Size(x) * (i - 1), Size(x), Pattern(x)[i - 1], FileSize(x))
           /\ s[3 + n] = DivideBy(n)
           /\ s[4 + n] = Msync(0, FileSize(x))
           /\ s[5 + n] = Store(0, 1, 100, FileSize(x))
<1> DEFINE s == MmapWrite(x)
           n == Count(x)
           r == <<Open, DivideBy(Size(x))>>
           t == <<DivideBy(n), Msync(0, FileSize(x)), Store(0, 1, 100, FileSize(x))>>
           blocks == [i \in 1 .. n |->
                <<Store(Size(x) * (i - 1), Size(x), Pattern(x)[i - 1], FileSize(x))>>]
<1>1. s = r \o FlattenSeq(blocks) \o t
  BY DEF MmapWrite, Repeat
<1>2. /\ n \in Nat /\ Size(x) \in Nat /\ Size(x) \in Int /\ n \in Int
      /\ FileSize(x) \in Nat /\ 0 \in Nat /\ 1 \in Nat /\ 100 \in Int
  BY SizeFacts, CommandFields, Constants
<1> HIDE DEF s, n
<1>3. /\ Open \in Steps
      /\ DivideBy(Size(x)) \in Steps
      /\ DivideBy(n) \in Steps
      /\ Msync(0, FileSize(x)) \in Steps
      /\ Store(0, 1, 100, FileSize(x)) \in Steps
  BY <1>2, StepsMade
<1>4. ASSUME NEW i \in 1 .. n
      PROVE  /\ Store(Size(x) * (i - 1), Size(x), Pattern(x)[i - 1], FileSize(x)) \in Steps
  <2>1. i - 1 \in 0 .. MaxFile
    BY SizeFacts, Constants DEF n
  <2>2. Pattern(x)[i - 1] \in Int
    BY <2>1, PatternType
  <2>3. Size(x) * (i - 1) \in Nat
    BY <1>2, Blocks
  <2> QED
    BY <1>2, <2>2, <2>3, StepsMade
<1>5. /\ r \in Seq(Steps) /\ Len(r) = 2
      /\ r[1] = Open
      /\ r[2] = DivideBy(Size(x))
      /\ t \in Seq(Steps) /\ Len(t) = 3
      /\ t[1] = DivideBy(n)
      /\ t[2] = Msync(0, FileSize(x))
      /\ t[3] = Store(0, 1, 100, FileSize(x))
  BY <1>3
<1>6. /\ blocks \in [1 .. n -> Seq(Steps)]
      /\ \A i \in 1 .. n : Len(blocks[i]) = 1
      /\ \A i \in 1 .. n :
             blocks[i][1] = Store(Size(x) * (i - 1), Size(x), Pattern(x)[i - 1], FileSize(x))
  BY <1>3, <1>4
<1> HIDE DEF r, t, blocks
<1>7. s \in Seq(Steps) /\ IsLooped(s, r, n, 1, blocks, t)
  BY <1>1, <1>2, <1>5, <1>6, LoopIs
<1>8. ASSUME NEW i \in 1 .. n
      PROVE  /\ s[i + 2] = Store(Size(x) * (i - 1), Size(x), Pattern(x)[i - 1], FileSize(x))
  <2>1. /\ Len(r) + Nth(1, i, 1) = i + 2
    BY <1>5 DEF Nth
  <2> QED
    BY <1>6, <1>7, <2>1 DEF IsLooped
<1>9. /\ Len(s) = 5 + n
      /\ s[1] = Open
      /\ s[2] = DivideBy(Size(x))
      /\ s[3 + n] = DivideBy(n)
      /\ s[4 + n] = Msync(0, FileSize(x))
      /\ s[5 + n] = Store(0, 1, 100, FileSize(x))
  BY <1>2, <1>5, <1>7 DEF IsLooped
<1> QED
  BY <1>7, <1>8, <1>9 DEF s, n

(* mmap_to_ram stores page after page. *)
LEMMA MmapToRamScript ==
    ASSUME NEW x \in Commands
    PROVE  LET s == MmapToRam(x)
               n == FileSize(x) \div Page
           IN
           /\ s \in Seq(Steps)
           /\ Len(s) = 1 + n
           /\ s[1] = Open
           /\ \A i \in 1 .. n :
                  s[i + 1] = Store(Page * (i - 1), Page, 65, FileSize(x))
<1> DEFINE s == MmapToRam(x)
           n == FileSize(x) \div Page
           r == <<Open>>
           blocks == [i \in 1 .. n |-> <<Store(Page * (i - 1), Page, 65, FileSize(x))>>]
<1>1. s = r \o FlattenSeq(blocks)
  BY DEF MmapToRam, Repeat
<1>2. /\ n \in Nat /\ FileSize(x) \in Nat /\ Page \in Nat /\ 65 \in Int
  BY SizeFacts, PagesFit, Constants
<1> HIDE DEF s, n
<1>3. /\ Open \in Steps
  BY <1>2, StepsMade
<1>4. ASSUME NEW i \in 1 .. n
      PROVE  /\ Store(Page * (i - 1), Page, 65, FileSize(x)) \in Steps
  <2>1. Page * (i - 1) \in Nat
    BY <1>2, Blocks
  <2> QED
    BY <1>2, <2>1, StepsMade
<1>5. /\ r \in Seq(Steps) /\ Len(r) = 1
      /\ r[1] = Open
  BY <1>3
<1>6. /\ blocks \in [1 .. n -> Seq(Steps)]
      /\ \A i \in 1 .. n : Len(blocks[i]) = 1
      /\ \A i \in 1 .. n : blocks[i][1] = Store(Page * (i - 1), Page, 65, FileSize(x))
  BY <1>3, <1>4
<1> HIDE DEF r, blocks
<1>7. s \in Seq(Steps) /\ IsLooped(s, r, n, 1, blocks, << >>)
  BY <1>1, <1>2, <1>5, <1>6, LastLoopIs
<1>8. ASSUME NEW i \in 1 .. n
      PROVE  /\ s[i + 1] = Store(Page * (i - 1), Page, 65, FileSize(x))
  <2>1. /\ Len(r) + Nth(1, i, 1) = i + 1
    BY <1>5 DEF Nth
  <2> QED
    BY <1>6, <1>7, <2>1 DEF IsLooped
<1>9. /\ Len(s) = 1 + n
      /\ s[1] = Open
  BY <1>2, <1>5, <1>7 DEF IsLooped
<1> QED
  BY <1>7, <1>8, <1>9 DEF s, n

(* munmap-test fills whole pages and stores into the first and the third. *)
LEMMA MunmapTestScript ==
    ASSUME NEW x \in Commands
    PROVE  LET s == MunmapTest(x)
               n == FileSize(x) \div Page
           IN
           /\ s \in Seq(Steps)
           /\ Len(s) = 5 + n
           /\ s[1] = Open
           /\ s[2] = Fill(97, Page)
           /\ \A i \in 1 .. n :
                  s[i + 2] = Write(Page, "ignore")
           /\ s[3 + n] = Store(0, Page, 98, Page)
           /\ s[4 + n] = Store(2 * Page, Page, 99, 3 * Page)
           /\ s[5 + n] = Msync(2 * Page, 3 * Page)
<1> DEFINE s == MunmapTest(x)
           n == FileSize(x) \div Page
           r == <<Open, Fill(97, Page)>>
           t == <<Store(0, Page, 98, Page), Store(2 * Page, Page, 99, 3 * Page),
                  Msync(2 * Page, 3 * Page)>>
           blocks == [i \in 1 .. n |-> <<Write(Page, "ignore")>>]
<1>1. s = r \o FlattenSeq(blocks) \o t
  BY DEF MunmapTest, Repeat
<1>2. /\ n \in Nat /\ Page \in 0 .. EndSize /\ Page \in Nat /\ Page \in Int
      /\ 2 * Page \in Nat /\ 3 * Page \in Nat /\ 0 \in Nat
      /\ 97 \in Int /\ 98 \in Int /\ 99 \in Int /\ "ignore" \in Iferr
  BY SizeFacts, PagesFit, Constants DEF Iferr
<1> HIDE DEF s, n
<1>3. /\ Open \in Steps
      /\ Fill(97, Page) \in Steps
      /\ Store(0, Page, 98, Page) \in Steps
      /\ Store(2 * Page, Page, 99, 3 * Page) \in Steps
      /\ Msync(2 * Page, 3 * Page) \in Steps
      /\ Write(Page, "ignore") \in Steps
  BY <1>2, StepsMade
<1>5. /\ r \in Seq(Steps) /\ Len(r) = 2
      /\ r[1] = Open
      /\ r[2] = Fill(97, Page)
      /\ t \in Seq(Steps) /\ Len(t) = 3
      /\ t[1] = Store(0, Page, 98, Page)
      /\ t[2] = Store(2 * Page, Page, 99, 3 * Page)
      /\ t[3] = Msync(2 * Page, 3 * Page)
  BY <1>3
<1>6. /\ blocks \in [1 .. n -> Seq(Steps)]
      /\ \A i \in 1 .. n : Len(blocks[i]) = 1
      /\ \A i \in 1 .. n : blocks[i][1] = Write(Page, "ignore")
  BY <1>3
<1> HIDE DEF r, t, blocks
<1>7. s \in Seq(Steps) /\ IsLooped(s, r, n, 1, blocks, t)
  BY <1>1, <1>2, <1>5, <1>6, LoopIs
<1>8. ASSUME NEW i \in 1 .. n
      PROVE  /\ s[i + 2] = Write(Page, "ignore")
  <2>1. /\ Len(r) + Nth(1, i, 1) = i + 2
    BY <1>5 DEF Nth
  <2> QED
    BY <1>6, <1>7, <2>1 DEF IsLooped
<1>9. /\ Len(s) = 5 + n
      /\ s[1] = Open
      /\ s[2] = Fill(97, Page)
      /\ s[3 + n] = Store(0, Page, 98, Page)
      /\ s[4 + n] = Store(2 * Page, Page, 99, 3 * Page)
      /\ s[5 + n] = Msync(2 * Page, 3 * Page)
  BY <1>2, <1>5, <1>7 DEF IsLooped
<1> QED
  BY <1>7, <1>8, <1>9 DEF s, n

(* The steps of latency_direct, *)
LEMMA LatencyDirectScript ==
    ASSUME NEW x \in Commands
    PROVE  LatencyDirect(x) \in Seq(UnmappedSteps)
<1> DEFINE s == LatencyDirect(x)
           n == Count(x)
           r == <<Open, Fill(x.c, Size(x)), DivideBy(Size(x))>>
           t == <<DivideBy(n)>>
           blocks == [i \in 1 .. n |-> <<Write(Size(x), "report")>>]
<1>1. s = r \o FlattenSeq(blocks) \o t
  BY DEF LatencyDirect, Repeat
<1>2. /\ n \in Nat /\ Size(x) \in 0 .. EndSize /\ Size(x) \in Int /\ n \in Int /\ x.c \in Int
      /\ "report" \in Iferr
  BY SizeFacts, CommandFields, Constants DEF Iferr
<1> HIDE DEF s, n
<1>3. /\ Open \in UnmappedSteps
      /\ Fill(x.c, Size(x)) \in UnmappedSteps
      /\ DivideBy(Size(x)) \in UnmappedSteps
      /\ DivideBy(n) \in UnmappedSteps
      /\ Write(Size(x), "report") \in UnmappedSteps
  BY <1>2, StepsMade
<1>5. /\ r \in Seq(UnmappedSteps) /\ Len(r) = 3
      /\ r[1] = Open
      /\ r[2] = Fill(x.c, Size(x))
      /\ r[3] = DivideBy(Size(x))
      /\ t \in Seq(UnmappedSteps) /\ Len(t) = 1
      /\ t[1] = DivideBy(n)
  BY <1>3
<1>6. /\ blocks \in [1 .. n -> Seq(UnmappedSteps)]
      /\ \A i \in 1 .. n : Len(blocks[i]) = 1
  BY <1>3
<1> HIDE DEF r, t, blocks
<1>7. s \in Seq(UnmappedSteps)
  BY <1>1, <1>2, <1>5, <1>6, LoopIs
<1> QED
  BY <1>7 DEF s

(* latency_read, *)
LEMMA LatencyReadScript ==
    ASSUME NEW x \in Commands
    PROVE  LatencyRead(x) \in Seq(UnmappedSteps)
<1> DEFINE s == LatencyRead(x)
           n == Count(x)
           r == <<Open, Fill(x.c, Size(x)), DivideBy(Size(x))>>
           t == <<DivideBy(n)>>
           blocks == [i \in 1 .. n |-> <<Read(Size(x), AnyByte, "report")>>]
<1>1. s = r \o FlattenSeq(blocks) \o t
  BY DEF LatencyRead, Repeat
<1>2. /\ n \in Nat /\ Size(x) \in 0 .. EndSize /\ Size(x) \in Int /\ n \in Int /\ x.c \in Int
      /\ "report" \in Iferr /\ AnyByte \in Int
  BY SizeFacts, CommandFields, Constants DEF Iferr, AnyByte
<1> HIDE DEF s, n
<1>3. /\ Open \in UnmappedSteps
      /\ Fill(x.c, Size(x)) \in UnmappedSteps
      /\ DivideBy(Size(x)) \in UnmappedSteps
      /\ DivideBy(n) \in UnmappedSteps
      /\ Read(Size(x), AnyByte, "report") \in UnmappedSteps
  BY <1>2, StepsMade
<1>5. /\ r \in Seq(UnmappedSteps) /\ Len(r) = 3
      /\ r[1] = Open
      /\ r[2] = Fill(x.c, Size(x))
      /\ r[3] = DivideBy(Size(x))
      /\ t \in Seq(UnmappedSteps) /\ Len(t) = 1
      /\ t[1] = DivideBy(n)
  BY <1>3
<1>6. /\ blocks \in [1 .. n -> Seq(UnmappedSteps)]
      /\ \A i \in 1 .. n : Len(blocks[i]) = 1
  BY <1>3
<1> HIDE DEF r, t, blocks
<1>7. s \in Seq(UnmappedSteps)
  BY <1>1, <1>2, <1>5, <1>6, LoopIs
<1> QED
  BY <1>7 DEF s

(* write_to_ram, whose requests fit its buffer, *)
LEMMA WriteToRamScript ==
    ASSUME NEW x \in Commands, x.prog = "write_to_ram"
    PROVE  WriteToRam(x) \in Seq(UnmappedSteps)
<1> DEFINE s == WriteToRam(x)
           n == Count(x)
           r == <<Unlink, Open, Fill(97, x.req), DivideBy(x.req)>>
           t == <<DivideBy(n)>>
           blocks == [i \in 1 .. n |-> <<Write(x.req, "ignore")>>]
<1>1. s = r \o FlattenSeq(blocks) \o t
  BY DEF WriteToRam, Repeat
<1>2. /\ n \in Nat /\ n \in Int /\ x.req \in 0 .. EndSize /\ x.req \in Int /\ 97 \in Int
      /\ "ignore" \in Iferr
  BY SizeFacts, CommandFields, Constants DEF Iferr
<1> HIDE DEF s, n
<1>3. /\ Unlink \in UnmappedSteps
      /\ Open \in UnmappedSteps
      /\ Fill(97, x.req) \in UnmappedSteps
      /\ DivideBy(x.req) \in UnmappedSteps
      /\ DivideBy(n) \in UnmappedSteps
      /\ Write(x.req, "ignore") \in UnmappedSteps
  BY <1>2, StepsMade
<1>5. /\ r \in Seq(UnmappedSteps) /\ Len(r) = 4
      /\ r[1] = Unlink
      /\ r[2] = Open
      /\ r[3] = Fill(97, x.req)
      /\ r[4] = DivideBy(x.req)
      /\ t \in Seq(UnmappedSteps) /\ Len(t) = 1
      /\ t[1] = DivideBy(n)
  BY <1>3
<1>6. /\ blocks \in [1 .. n -> Seq(UnmappedSteps)]
      /\ \A i \in 1 .. n : Len(blocks[i]) = 1
  BY <1>3
<1> HIDE DEF r, t, blocks
<1>7. s \in Seq(UnmappedSteps)
  BY <1>1, <1>2, <1>5, <1>6, LoopIs
<1> QED
  BY <1>7 DEF s

(* rewrite, *)
LEMMA RewriteScript ==
    ASSUME NEW x \in Commands
    PROVE  Rewrite(x) \in Seq(UnmappedSteps)
<1> DEFINE s == Rewrite(x)
           n == x.times
           r == <<Open, Fill(97 + (x.times % 26), Size(x))>>
           t == <<DivideBy(n)>>
           blocks == [i \in 1 .. n |-> <<Seek(x.at), Write(Size(x), "report")>>]
<1>1. s = r \o FlattenSeq(blocks) \o t
  BY DEF Rewrite, Repeat
<1>2. /\ n \in Nat /\ n \in Int /\ 97 + (x.times % 26) \in Int
      /\ Size(x) \in 0 .. EndSize /\ Size(x) \in Int /\ x.at \in Nat /\ "report" \in Iferr
  BY SizeFacts, CommandFields, Constants DEF Iferr
<1> HIDE DEF s, n
<1>3. /\ Open \in UnmappedSteps
      /\ Fill(97 + (x.times % 26), Size(x)) \in UnmappedSteps
      /\ DivideBy(n) \in UnmappedSteps
      /\ Seek(x.at) \in UnmappedSteps
      /\ Write(Size(x), "report") \in UnmappedSteps
  BY <1>2, StepsMade
<1>5. /\ r \in Seq(UnmappedSteps) /\ Len(r) = 2
      /\ r[1] = Open
      /\ r[2] = Fill(97 + (x.times % 26), Size(x))
      /\ t \in Seq(UnmappedSteps) /\ Len(t) = 1
      /\ t[1] = DivideBy(n)
  BY <1>3
<1>6. /\ blocks \in [1 .. n -> Seq(UnmappedSteps)]
      /\ \A i \in 1 .. n : Len(blocks[i]) = 2
  BY <1>3
<1> HIDE DEF r, t, blocks
<1>7. s \in Seq(UnmappedSteps)
  BY <1>1, <1>2, <1>5, <1>6, LoopIs
<1> QED
  BY <1>7 DEF s

(* mmap_read writes the file from its buffer, then loads block after block. *)
LEMMA MmapReadScript ==
    ASSUME NEW x \in Commands
    PROVE  LET s == MmapRead(x)
               n == Count(x)
               g == Greatest(1, FileSize(x) \div EndSize)
           IN
           /\ s \in Seq(Steps)
           /\ g \in Nat /\ g > 0
           /\ Len(s) = 4 + g + n
           /\ s[1] = Open
           /\ \A i \in 1 .. g : s[1 + i] = Write(EndSize, "ignore")
           /\ s[2 + g] = DivideBy(Size(x))
           /\ \A i \in 1 .. n : s[2 + g + i] = Load(Size(x) * (i - 1), Size(x))
           /\ s[3 + g + n] = DivideBy(n)
           /\ s[4 + g + n] = Msync(0, FileSize(x))
<1> DEFINE s == MmapRead(x)
           n == Count(x)
           g == Greatest(1, FileSize(x) \div EndSize)
           q == <<Open>>
           v == <<DivideBy(Size(x))>>
           t == <<DivideBy(n), Msync(0, FileSize(x))>>
           writes == [i \in 1 .. g |-> <<Write(EndSize, "ignore")>>]
           loads == [i \in 1 .. n |-> <<Load(Size(x) * (i - 1), Size(x))>>]
           r == q \o FlattenSeq(writes) \o v
<1>1. s = r \o FlattenSeq(loads) \o t
  BY DEF MmapRead, Repeat
<1>2. /\ n \in Nat /\ Size(x) \in Nat /\ Size(x) \in Int /\ n \in Int
      /\ FileSize(x) \in Nat /\ 0 \in Nat /\ EndSize \in 0 .. EndSize /\ "ignore" \in Iferr
  BY SizeFacts, Constants DEF Iferr
<1>3. g \in Nat /\ g > 0
  <2> DEFINE d == FileSize(x) \div EndSize
  <2>1. d \in Nat
    BY <1>2, Constants, Divided
  <2> HIDE DEF d
  <2> QED
    BY <2>1 DEF Greatest, d
<1> HIDE DEF s, n, g
<1>4. /\ Open \in Steps /\ DivideBy(Size(x)) \in Steps /\ DivideBy(n) \in Steps
      /\ Msync(0, FileSize(x)) \in Steps /\ Write(EndSize, "ignore") \in Steps
  BY <1>2, StepsMade
<1>5. ASSUME NEW i \in 1 .. n
      PROVE  Load(Size(x) * (i - 1), Size(x)) \in Steps
  <2>1. Size(x) * (i - 1) \in Nat
    BY <1>2, Blocks
  <2> QED
    BY <1>2, <2>1, StepsMade
<1>6. /\ q \in Seq(Steps) /\ Len(q) = 1 /\ q[1] = Open
      /\ v \in Seq(Steps) /\ Len(v) = 1 /\ v[1] = DivideBy(Size(x))
      /\ t \in Seq(Steps) /\ Len(t) = 2 /\ t[1] = DivideBy(n) /\ t[2] = Msync(0, FileSize(x))
  BY <1>4
<1>7. /\ writes \in [1 .. g -> Seq(Steps)]
      /\ \A i \in 1 .. g : Len(writes[i]) = 1 /\ writes[i][1] = Write(EndSize, "ignore")
  BY <1>4
<1>8. /\ loads \in [1 .. n -> Seq(Steps)]
      /\ \A i \in 1 .. n : Len(loads[i]) = 1
      /\ \A i \in 1 .. n : loads[i][1] = Load(Size(x) * (i - 1), Size(x))
  BY <1>5
<1> HIDE DEF q, v, t, writes, loads
<1>9. r \in Seq(Steps) /\ IsLooped(r, q, g, 1, writes, v)
  BY <1>3, <1>6, <1>7, LoopIs
<1> HIDE DEF r
<1>10. s \in Seq(Steps) /\ IsLooped(s, r, n, 1, loads, t)
  BY <1>1, <1>2, <1>6, <1>8, <1>9, LoopIs
<1>11. /\ Len(r) = 2 + g /\ r[1] = Open /\ r[2 + g] = DivideBy(Size(x))
       /\ \A i \in 1 .. g : r[1 + i] = Write(EndSize, "ignore")
  <2>1. ASSUME NEW i \in 1 .. g PROVE r[1 + i] = Write(EndSize, "ignore")
    <3>1. Len(q) + Nth(1, i, 1) = 1 + i
      BY <1>6 DEF Nth
    <3> QED
      BY <1>7, <1>9, <3>1 DEF IsLooped
  <2>2. Len(r) = 2 + g /\ r[1] = Open /\ r[2 + g] = DivideBy(Size(x))
    BY <1>3, <1>6, <1>9 DEF IsLooped
  <2> QED
    BY <2>1, <2>2
<1>12. \A k \in 1 .. 2 + g : s[k] = r[k]
  BY <1>10, <1>11 DEF IsLooped
<1>13. ASSUME NEW i \in 1 .. n PROVE s[2 + g + i] = Load(Size(x) * (i - 1), Size(x))
  <2>1. Len(r) + Nth(1, i, 1) = 2 + g + i
    BY <1>3, <1>11 DEF Nth
  <2> QED
    BY <1>8, <1>10, <2>1 DEF IsLooped
<1>14. /\ Len(s) = 4 + g + n
       /\ s[3 + g + n] = DivideBy(n) /\ s[4 + g + n] = Msync(0, FileSize(x))
  BY <1>2, <1>3, <1>6, <1>10, <1>11 DEF IsLooped
<1>15. /\ s[1] = Open /\ s[2 + g] = DivideBy(Size(x))
       /\ \A i \in 1 .. g : s[1 + i] = Write(EndSize, "ignore")
  BY <1>3, <1>11, <1>12
<1> QED
  BY <1>3, <1>10, <1>13, <1>14, <1>15 DEF s, n, g

(* The size of the buffer msync-test and mprotect-test fill the file from. *)
LEMMA BufSizeFacts ==
    ASSUME NEW x \in Commands
    PROVE  LET b == BufSize(x)
               g == FileSize(x) \div b
           IN  /\ b \in 0 .. EndSize /\ b > 0 /\ b <= FileSize(x)
               /\ b = EndSize \/ b = FileSize(x)
               /\ g \in Nat /\ g > 0
               /\ g * b \in Nat /\ b <= g * b
<1> DEFINE b == BufSize(x)
           f == FileSize(x)
           g == f \div b
           r == f % b
<1>1. f \in Nat /\ f >= Page /\ Page > 0
  BY SizeFacts, Constants
<1> HIDE DEF f
<1>2. b \in Nat /\ b > 0 /\ b <= EndSize /\ b <= f /\ (b = EndSize \/ b = f)
  BY <1>1, Constants DEF BufSize, Least, f
<1> HIDE DEF b
<1>3. g \in Nat /\ r \in Nat /\ f = b * g + r /\ r < b
  BY <1>1, <1>2, Divided
<1> HIDE DEF g, r
<1>4. g > 0
  <2>1. SUFFICES ASSUME g = 0 PROVE FALSE
    BY <1>3
  <2>2. b * g = 0
    BY <1>2, <2>1
  <2> QED
    BY <1>2, <1>3, <2>2
<1>5. 1 * b <= g * b /\ g * b \in Nat
  BY <1>2, <1>3, <1>4, TimesMonotone
<1> QED
  BY <1>2, <1>3, <1>4, <1>5, Constants DEF b, f, g

(* They do nothing, or write the file from the buffer first.               *)
LEMMA FilledWithAScript ==
    ASSUME NEW x \in Commands, NEW steps \in Seq(Steps)
    PROVE  LET s == FilledWithA(x, steps)
               b == BufSize(x)
               g == FileSize(x) \div b
           IN
           /\ s \in Seq(Steps)
           /\ \/ s = << >>
              \/ /\ Len(s) = 3 + g + Len(steps)
                 /\ s[1] = Open /\ s[2] = Fill(97, b)
                 /\ \A i \in 1 .. g : s[2 + i] = Write(b, "ignore")
                 /\ s[3 + g] = DivideBy(Size(x))
                 /\ \A k \in 1 .. Len(steps) : s[3 + g + k] = steps[k]
<1> DEFINE s == FilledWithA(x, steps)
           b == BufSize(x)
           g == FileSize(x) \div b
           q == <<Open, Fill(97, b)>>
           v == <<DivideBy(Size(x))>>
           writes == [i \in 1 .. g |-> <<Write(b, "ignore")>>]
           r == q \o FlattenSeq(writes) \o v
<1>1. s = << >> \/ s = r \o steps
  BY DEF FilledWithA, Repeat
<1>2. /\ b \in 0 .. EndSize /\ b \in Int /\ g \in Nat /\ Size(x) \in Int /\ 97 \in Int
      /\ "ignore" \in Iferr
  BY SizeFacts, BufSizeFacts, Constants DEF Iferr
<1> HIDE DEF s, g, b
<1>3. /\ Open \in Steps /\ Fill(97, b) \in Steps /\ DivideBy(Size(x)) \in Steps
      /\ Write(b, "ignore") \in Steps
  BY <1>2, StepsMade
<1>4. /\ q \in Seq(Steps) /\ Len(q) = 2 /\ q[1] = Open /\ q[2] = Fill(97, b)
      /\ v \in Seq(Steps) /\ Len(v) = 1 /\ v[1] = DivideBy(Size(x))
  BY <1>3
<1>5. /\ writes \in [1 .. g -> Seq(Steps)]
      /\ \A i \in 1 .. g : Len(writes[i]) = 1 /\ writes[i][1] = Write(b, "ignore")
  BY <1>3
<1> HIDE DEF q, v, writes
<1>6. r \in Seq(Steps) /\ IsLooped(r, q, g, 1, writes, v)
  BY <1>2, <1>4, <1>5, LoopIs
<1> HIDE DEF r
<1>7. /\ Len(r) = 3 + g /\ r[1] = Open /\ r[2] = Fill(97, b) /\ r[3 + g] = DivideBy(Size(x))
      /\ \A i \in 1 .. g : r[2 + i] = Write(b, "ignore")
  <2>1. ASSUME NEW i \in 1 .. g PROVE r[2 + i] = Write(b, "ignore")
    <3>1. Len(q) + Nth(1, i, 1) = 2 + i
      BY <1>4 DEF Nth
    <3> QED
      BY <1>5, <1>6, <3>1 DEF IsLooped
  <2>2. /\ Len(r) = 3 + g /\ r[1] = Open /\ r[2] = Fill(97, b)
        /\ r[3 + g] = DivideBy(Size(x))
    BY <1>2, <1>4, <1>6 DEF IsLooped
  <2> QED
    BY <2>1, <2>2
<1>8. CASE s = << >>
  BY <1>8 DEF s
<1>9. CASE s = r \o steps
  <2>1. /\ s \in Seq(Steps) /\ Len(s) = Len(r) + Len(steps)
        /\ \A k \in 1 .. Len(r) + Len(steps) :
               s[k] = IF k <= Len(r) THEN r[k] ELSE steps[k - Len(r)]
    BY <1>6, <1>9, ConcatProperties
  <2>2. Len(steps) \in Nat
    OBVIOUS
  <2>3. \A k \in 1 .. 3 + g : s[k] = r[k]
    BY <1>2, <1>7, <2>1, <2>2
  <2>4. ASSUME NEW k \in 1 .. Len(steps) PROVE s[3 + g + k] = steps[k]
    <3> DEFINE m == 3 + g + k
    <3>1. m \in 1 .. Len(r) + Len(steps) /\ ~(m <= Len(r)) /\ m - Len(r) = k
      BY <1>2, <1>7, <2>2
    <3> HIDE DEF m
    <3>2. s[m] = steps[k]
      BY <2>1, <3>1
    <3> QED
      BY <3>2 DEF m
  <2>5. /\ s[1] = Open /\ s[2] = Fill(97, b) /\ s[3 + g] = DivideBy(Size(x))
        /\ \A i \in 1 .. g : s[2 + i] = Write(b, "ignore")
    BY <1>2, <1>7, <2>3
  <2> QED
    BY <1>7, <2>1, <2>4, <2>5 DEF s, g, b
<1> QED
  BY <1>1, <1>8, <1>9

(* What msync-test and mprotect-test do then. *)
MsyncTestSteps(x) ==
    <<Store(0, Size(x), x.c, FileSize(x)), Msync(0, FileSize(x)), DivideBy(Count(x)),
      Store(0, 1, 100, FileSize(x)), Msync(0, FileSize(x)),
      Store(0, 1, 97, FileSize(x)), Msync(0, FileSize(x)), Msync(0, FileSize(x))>>

MprotectTestSteps(x) ==
    <<Seek(0), DivideBy(Count(x)), Msync(0, FileSize(x)), Store(0, 1, 100, FileSize(x)),
      Fill(122, BufSize(x)), Write(BufSize(x), "ignore")>>

(* msync-test stores a request first, which may be longer than the file, and *)
(* both then store single bytes at the beginning.                          *)
LEMMA FilledPrograms ==
    ASSUME NEW x \in Commands
    PROVE  /\ MsyncTestSteps(x) \in Seq(Steps) /\ Len(MsyncTestSteps(x)) = 8
           /\ MprotectTestSteps(x) \in Seq(Steps) /\ Len(MprotectTestSteps(x)) = 6
           /\ MsyncTest(x) = FilledWithA(x, MsyncTestSteps(x))
           /\ MprotectTest(x) = FilledWithA(x, MprotectTestSteps(x))
<1>1. /\ Size(x) \in Nat /\ x.c \in Int /\ FileSize(x) \in Nat /\ Count(x) \in Int
      /\ 0 \in Nat /\ 1 \in Nat /\ 100 \in Int /\ 97 \in Int /\ 122 \in Int
      /\ BufSize(x) \in 0 .. EndSize /\ BufSize(x) \in Int /\ "ignore" \in Iferr
  BY SizeFacts, CommandFields, BufSizeFacts, Constants DEF Iferr
<1>2. /\ Store(0, Size(x), x.c, FileSize(x)) \in Steps
      /\ Msync(0, FileSize(x)) \in Steps
      /\ DivideBy(Count(x)) \in Steps
      /\ Store(0, 1, 100, FileSize(x)) \in Steps
      /\ Store(0, 1, 97, FileSize(x)) \in Steps
      /\ Seek(0) \in Steps /\ Fill(122, BufSize(x)) \in Steps
      /\ Write(BufSize(x), "ignore") \in Steps
  BY <1>1, StepsMade
<1>3. MsyncTestSteps(x) \in Seq(Steps) /\ Len(MsyncTestSteps(x)) = 8
  BY <1>2 DEF MsyncTestSteps
<1>4. MprotectTestSteps(x) \in Seq(Steps) /\ Len(MprotectTestSteps(x)) = 6
  BY <1>2 DEF MprotectTestSteps
<1> QED
  BY <1>3, <1>4 DEF MsyncTest, MprotectTest, MsyncTestSteps, MprotectTestSteps

(* read_from_ram, pwrite and fsync use no mapping either. *)
LEMMA ReadFromRamScript ==
    ASSUME NEW x \in Commands
    PROVE  ReadFromRam(x) \in Seq(UnmappedSteps)
<1> DEFINE n == FileSize(x) \div Page
           r == <<Open, Read(Page, AnyByte, "report"), Seek(0)>>
           reads == [i \in 1 .. n |-> <<Read(Page, AnyByte, "ignore")>>]
           b == r \o FlattenSeq(reads)
           blocks == [j \in 1 .. 3 |-> b]
<1>1. ReadFromRam(x) = FlattenSeq(blocks)
  BY DEF ReadFromRam, Repeat
<1>2. /\ n \in Nat /\ Page \in 0 .. EndSize /\ AnyByte \in Int /\ 0 \in Nat
      /\ "ignore" \in Iferr /\ "report" \in Iferr
  BY PagesFit, Constants DEF Iferr, AnyByte
<1> HIDE DEF n
<1>3. /\ Open \in UnmappedSteps /\ Seek(0) \in UnmappedSteps
      /\ Read(Page, AnyByte, "report") \in UnmappedSteps
      /\ Read(Page, AnyByte, "ignore") \in UnmappedSteps
  BY <1>2, StepsMade
<1>4. r \in Seq(UnmappedSteps)
  BY <1>3
<1>5. reads \in [1 .. n -> Seq(UnmappedSteps)] /\ \A i \in 1 .. n : Len(reads[i]) = 1
  BY <1>3
<1> HIDE DEF r, reads
<1>6. b \in Seq(UnmappedSteps)
  BY <1>2, <1>4, <1>5, LastLoopIs
<1> HIDE DEF b
<1>7. blocks \in [1 .. 3 -> Seq(UnmappedSteps)]
  BY <1>6
<1> HIDE DEF blocks
<1> QED
  BY <1>1, <1>7, FlattenType

LEMMA ShortScripts ==
    ASSUME NEW x \in Commands
    PROVE  Pwrite(x) \in Seq(UnmappedSteps) /\ FsyncOnly(x) \in Seq(UnmappedSteps)
<1>1. /\ Page \in 0 .. EndSize /\ 97 \in Int /\ 1 \in Int /\ "ignore" \in Iferr
  BY Constants DEF Iferr
<1>2. /\ Open \in UnmappedSteps /\ Fsync \in UnmappedSteps /\ Fill(97, 1) \in UnmappedSteps
      /\ Write(Page, "ignore") \in UnmappedSteps
  BY <1>1, StepsMade
<1> QED
  BY <1>2 DEF Pwrite, FsyncOnly

(* Every step of a loop is in one of its blocks. *)
LEMMA LoopCovered ==
    ASSUME NEW n \in Nat, NEW m \in Nat, m > 0, NEW k \in 1 .. n * m
    PROVE  \E i \in 1 .. n, j \in 1 .. m : k = Nth(m, i, j)
<1> DEFINE q == (k - 1) \div m
           r == (k - 1) % m
<1>1. k - 1 \in Nat /\ n * m \in Nat
  OBVIOUS
<1>2. q \in Nat /\ r \in Nat /\ k - 1 = m * q + r /\ r < m
  BY <1>1, Divided
<1> HIDE DEF q, r
<1>3. q < n
  <2>1. SUFFICES ASSUME n <= q PROVE FALSE
    BY <1>2
  <2>2. n * m <= q * m /\ q * m \in Nat
    BY <1>2, <2>1, TimesMonotone
  <2>3. q * m = m * q
    BY <1>2
  <2> QED
    BY <1>1, <1>2, <2>2, <2>3
<1>4. q + 1 \in 1 .. n /\ r + 1 \in 1 .. m
  BY <1>2, <1>3
<1>5. (q + 1 - 1) * m = m * q
  BY <1>2
<1>6. k = Nth(m, q + 1, r + 1)
  <2>1. m * q \in Nat
    BY <1>2
  <2> QED
    BY <1>2, <1>5, <2>1 DEF Nth
<1> QED
  BY <1>4, <1>6

(* The steps of the programs that shuffle n blocks: each swaps two of them, *)
(* and each write that fails is reported.                                  *)
ShuffledSteps(n) ==
    {s \in UnmappedSteps : /\ s.op # "unlink"
                           /\ s.op = "swap" => s.i < n /\ s.n = n
                           /\ s.op = "write" => s.iferr = "report"}

LEMMA ShuffledMade ==
    ASSUME NEW n \in Nat
    PROVE  /\ Open \in ShuffledSteps(n) /\ Fsync \in ShuffledSteps(n)
           /\ \A at \in Nat : Seek(at) \in ShuffledSteps(n)
           /\ \A i \in 0 .. MaxFile : SeekRecord(i) \in ShuffledSteps(n)
           /\ \A c \in Int, k \in Int : Fill(c, k) \in ShuffledSteps(n)
           /\ \A k \in 0 .. EndSize, want \in Int, e \in Iferr :
                  Read(k, want, e) \in ShuffledSteps(n)
           /\ \A k \in 0 .. EndSize : Write(k, "report") \in ShuffledSteps(n)
           /\ \A i \in 0 .. n - 1 : n <= MaxFile => Swap(i, n) \in ShuffledSteps(n)
<1> USE StepsMade DEF ShuffledSteps
<1>1. Open \in ShuffledSteps(n) /\ Fsync \in ShuffledSteps(n)
  BY DEF Open, Fsync
<1>2. /\ \A at \in Nat : Seek(at) \in ShuffledSteps(n)
      /\ \A i \in 0 .. MaxFile : SeekRecord(i) \in ShuffledSteps(n)
      /\ \A c \in Int, k \in Int : Fill(c, k) \in ShuffledSteps(n)
  BY DEF Seek, SeekRecord, Fill
<1>3. /\ \A k \in 0 .. EndSize, want \in Int, e \in Iferr :
             Read(k, want, e) \in ShuffledSteps(n)
      /\ \A k \in 0 .. EndSize : Write(k, "report") \in ShuffledSteps(n)
  BY DEF Read, Write, Iferr
<1>4. ASSUME NEW i \in 0 .. n - 1, n <= MaxFile
      PROVE  Swap(i, n) \in ShuffledSteps(n)
  <2>1. i \in 0 .. MaxFile /\ n \in 1 .. MaxFile + 1 /\ i < n
    BY <1>4, Constants
  <2>2. Swap(i, n) \in UnmappedSteps
    BY <2>1
  <2> QED
    BY <2>1, <2>2 DEF Swap
<1> QED
  BY <1>1, <1>2, <1>3, <1>4

(* The shuffle swaps each of the n blocks with one of them. *)
LEMMA ShuffleIs ==
    ASSUME NEW n \in Nat, n <= MaxFile
    PROVE  /\ Shuffle(n) \in Seq(ShuffledSteps(n)) /\ Len(Shuffle(n)) = n
           /\ \A i \in 1 .. n : Shuffle(n)[i] = Swap(i - 1, n)
<1> DEFINE s == Shuffle(n)
           blocks == [i \in 1 .. n |-> <<Swap(i - 1, n)>>]
<1>1. s = FlattenSeq(blocks)
  BY DEF Shuffle, Repeat
<1> HIDE DEF s
<1>2. \A i \in 1 .. n : Swap(i - 1, n) \in ShuffledSteps(n)
  BY ShuffledMade
<1>3. /\ blocks \in [1 .. n -> Seq(ShuffledSteps(n))]
      /\ \A i \in 1 .. n : Len(blocks[i]) = 1 /\ blocks[i][1] = Swap(i - 1, n)
  BY <1>2
<1> HIDE DEF blocks
<1>4. s \in Seq(ShuffledSteps(n)) /\ IsLoop(s, n, 1, blocks)
  BY <1>1, <1>3, FlattenIs
<1>5. ASSUME NEW i \in 1 .. n PROVE s[i] = Swap(i - 1, n)
  <2>1. Nth(1, i, 1) = i
    BY DEF Nth
  <2> QED
    BY <1>3, <1>4, <2>1 DEF IsLoop
<1>6. Len(s) = n
  BY <1>4 DEF IsLoop
<1> QED
  BY <1>4, <1>5, <1>6 DEF s

(* The last pass over the n blocks writes each of them, in the random order. *)
LastPass(s, z, n) ==
    /\ z \in Nat
    /\ \A i \in 1 .. n :
           s[z + 2 * i - 1] = SeekRecord(i - 1) /\ s[z + 2 * i] = Write(Page, "report")
    /\ \/ Len(s) = z + 2 * n
       \/ Len(s) = z + 2 * n + 1 /\ s[z + 2 * n + 1] = Fsync

(* So it is in random_perf_test. *)
LEMMA RandomPerfTestScript ==
    ASSUME NEW x \in Commands
    PROVE  LET s == RandomPerfTest(x)
               n == FileSize(x) \div Page
           IN  /\ s \in Seq(ShuffledSteps(n))
               /\ LastPass(s, n + 2 * (4 + 2 * n) + 4, n)
<1> DEFINE s == RandomPerfTest(x)
           n == FileSize(x) \div Page
           S == ShuffledSteps(n)
           m == 4 + 2 * n
           z == n + 2 * m + 4
           Move(j) == IF j < 3 THEN Read(Page, AnyByte, "report") ELSE Write(Page, "report")
           r == <<Open, Fill(0, Page), Read(Page, AnyByte, "report"), Seek(0)>>
           moves == [j \in 1 .. 3 |-> [i \in 1 .. n |-> <<SeekRecord(i - 1), Move(j)>>]]
           passes == [j \in 1 .. 3 |-> r \o FlattenSeq(moves[j])]
           f == Shuffle(n)
<1>1. s = f \o FlattenSeq(passes)
  <2>1. passes = [j \in 1 .. 3 |->
                     r \o FlattenSeq([i \in 1 .. n |-> <<SeekRecord(i - 1), Move(j)>>])]
    OBVIOUS
  <2> QED
    BY <2>1 DEF RandomPerfTest, Repeat
<1>2. /\ n \in Nat /\ n <= MaxFile /\ Page \in 0 .. EndSize /\ Page \in Int /\ AnyByte \in Int
      /\ 0 \in Nat /\ 0 \in Int /\ "report" \in Iferr
  BY PagesFit, Constants DEF Iferr, AnyByte
<1> HIDE DEF s, n
<1>3. /\ Open \in S /\ Fill(0, Page) \in S /\ Read(Page, AnyByte, "report") \in S /\ Seek(0) \in S
      /\ Write(Page, "report") \in S
  BY <1>2, ShuffledMade
<1>4. \A i \in 1 .. n : SeekRecord(i - 1) \in S
  BY <1>2, ShuffledMade, Constants
<1>5. r \in Seq(S) /\ Len(r) = 4
  BY <1>3
<1>6. f \in Seq(S) /\ Len(f) = n
  BY <1>2, ShuffleIs
<1> HIDE DEF S, r, f
<1>7. ASSUME NEW j \in 1 .. 3
      PROVE  /\ moves[j] \in [1 .. n -> Seq(S)]
             /\ \A i \in 1 .. n : Len(moves[j][i]) = 2
             /\ \A i \in 1 .. n : moves[j][i][1] = SeekRecord(i - 1) /\ moves[j][i][2] = Move(j)
  BY <1>3, <1>4
<1> HIDE DEF moves
<1>8. ASSUME NEW j \in 1 .. 3
      PROVE  passes[j] \in Seq(S) /\ Len(passes[j]) = m
             /\ IsLooped(passes[j], r, n, 2, moves[j], << >>)
  <2>1. passes[j] = r \o FlattenSeq(moves[j])
    OBVIOUS
  <2> HIDE DEF passes
  <2> DEFINE blocks == moves[j]
  <2>2. blocks \in [1 .. n -> Seq(S)] /\ \A i \in 1 .. n : Len(blocks[i]) = 2
    BY <1>7
  <2>3. passes[j] \in Seq(S) /\ IsLooped(passes[j], r, n, 2, moves[j], << >>)
    <3>1. passes[j] = r \o FlattenSeq(blocks)
      BY <2>1
    <3>2. n \in Nat /\ 2 \in Nat /\ r \in Seq(S)
      BY <1>2, <1>5
    <3> HIDE DEF blocks
    <3>3. /\ r \o FlattenSeq(blocks) \in Seq(S)
          /\ IsLooped(r \o FlattenSeq(blocks), r, n, 2, blocks, << >>)
      BY <2>2, <3>2, LastLoopIs
    <3> QED
      BY <3>1, <3>3 DEF blocks
  <2>4. Len(passes[j]) = m
    BY <1>2, <1>5, <2>3 DEF IsLooped
  <2> QED
    BY <2>3, <2>4
<1>9. passes = [j \in 1 .. 3 |-> passes[j]]
  OBVIOUS
<1> HIDE DEF passes
<1>10. passes \in [1 .. 3 -> Seq(S)] /\ \A j \in 1 .. 3 : Len(passes[j]) = m
  BY <1>8, <1>9
<1>11. m \in Nat
  BY <1>2
<1> HIDE DEF m
<1>12. s \in Seq(S) /\ IsLooped(s, f, 3, m, passes, << >>)
  BY <1>1, <1>6, <1>10, <1>11, LastLoopIs
<1>13. \A k \in 1 .. m : s[n + Nth(m, 3, k)] = passes[3][k]
  BY <1>6, <1>12 DEF IsLooped
<1>14. ASSUME NEW i \in 1 .. n
       PROVE  s[z + 2 * i - 1] = SeekRecord(i - 1) /\ s[z + 2 * i] = Write(Page, "report")
  <2>1. /\ passes[3][4 + Nth(2, i, 1)] = SeekRecord(i - 1)
        /\ passes[3][4 + Nth(2, i, 2)] = Write(Page, "report")
    BY <1>5, <1>7, <1>8 DEF IsLooped
  <2>2. /\ 4 + Nth(2, i, 1) \in 1 .. m /\ 4 + Nth(2, i, 2) \in 1 .. m
        /\ n + Nth(m, 3, 4 + Nth(2, i, 1)) = z + 2 * i - 1
        /\ n + Nth(m, 3, 4 + Nth(2, i, 2)) = z + 2 * i
    BY <1>2 DEF Nth, m
  <2> QED
    BY <1>13, <2>1, <2>2
<1>15. Len(s) = z + 2 * n /\ z \in Nat
  <2>1. Len(s) = n + 3 * m
    BY <1>2, <1>6, <1>11, <1>12 DEF IsLooped
  <2> QED
    BY <1>2, <2>1 DEF m
<1> HIDE DEF z
<1>16. LastPass(s, z, n)
  BY <1>14, <1>15 DEF LastPass
<1> QED
  BY <1>12, <1>16 DEF s, n, S, m, z

(* iozone_test writes the blocks in order three times, *)
WritesInOrder(s) ==
    /\ Len(s) = 3 * (2 + Records)
    /\ s[1] = Open /\ s[2] = Fsync
    /\ \A i \in 1 .. Records : s[2 + i] = Write(Page, "report")
    /\ \A k \in 1 .. Len(s) : s[k].op # "read"

LEMMA WritePerfTestIs ==
    write_perf_test1 \in Seq(ShuffledSteps(Records)) /\ WritesInOrder(write_perf_test1)
<1> DEFINE s == write_perf_test1
           n == Records
           S == ShuffledSteps(n)
           m == 2 + n
           r == <<Open, Fsync>>
           writes == [i \in 1 .. n |-> <<Write(Page, "report")>>]
           p == r \o FlattenSeq(writes)
           passes == [j \in 1 .. 3 |-> p]
<1>1. s = FlattenSeq(passes)
  BY DEF write_perf_test1, Repeat
<1>2. n \in Nat /\ Page \in 0 .. EndSize /\ "report" \in Iferr
  BY Constants DEF Iferr
<1> HIDE DEF s, n
<1>3. Open \in S /\ Fsync \in S /\ Write(Page, "report") \in S
  BY <1>2, ShuffledMade
<1>4. r \in Seq(S) /\ Len(r) = 2 /\ r[1] = Open /\ r[2] = Fsync
  BY <1>3
<1>5. /\ writes \in [1 .. n -> Seq(S)]
      /\ \A i \in 1 .. n : Len(writes[i]) = 1 /\ writes[i][1] = Write(Page, "report")
  BY <1>3
<1> HIDE DEF S, r, writes
<1>6. p \in Seq(S) /\ IsLooped(p, r, n, 1, writes, << >>)
  BY <1>2, <1>4, <1>5, LastLoopIs
<1> HIDE DEF p
<1>7. /\ Len(p) = m /\ p[1] = Open /\ p[2] = Fsync
      /\ \A i \in 1 .. n : p[2 + i] = Write(Page, "report")
  <2>1. ASSUME NEW i \in 1 .. n PROVE p[2 + i] = Write(Page, "report")
    <3>1. Len(r) + Nth(1, i, 1) = 2 + i
      BY <1>4 DEF Nth
    <3> QED
      BY <1>5, <1>6, <3>1 DEF IsLooped
  <2>2. Len(p) = m /\ p[1] = Open /\ p[2] = Fsync
    BY <1>2, <1>4, <1>6 DEF IsLooped
  <2> QED
    BY <2>1, <2>2
<1>8. /\ passes \in [1 .. 3 -> Seq(S)]
      /\ \A j \in 1 .. 3 : Len(passes[j]) = m /\ passes[j] = p
  BY <1>6, <1>7
<1> HIDE DEF passes
<1>9. m \in Nat /\ m > 0
  BY <1>2
<1> HIDE DEF m
<1>10. s \in Seq(S) /\ IsLoop(s, 3, m, passes)
  BY <1>1, <1>8, <1>9, FlattenIs
<1>11. Len(s) = 3 * m /\ \A j \in 1 .. 3, k \in 1 .. m : s[Nth(m, j, k)] = p[k]
  BY <1>8, <1>10 DEF IsLoop
<1>12. ASSUME NEW k \in 1 .. m PROVE p[k].op # "read" /\ s[k] = p[k]
  <2>1. CASE k > 2
    <3>1. k - 2 \in 1 .. n /\ 2 + (k - 2) = k
      BY <1>2, <2>1 DEF m
    <3>2. p[k] = Write(Page, "report")
      BY <1>7, <3>1
    <3> QED
      BY <1>9, <1>11, <3>2 DEF Write, Nth
  <2>2. CASE k <= 2
    <3>1. k = 1 \/ k = 2
      BY <2>2
    <3> QED
      BY <1>7, <1>9, <1>11, <3>1 DEF Open, Fsync, Nth
  <2> QED
    BY <2>1, <2>2
<1>13. ASSUME NEW k \in 1 .. Len(s) PROVE s[k].op # "read"
  <2>0. k \in 1 .. 3 * m /\ 3 \in Nat
    BY <1>11
  <2>1. PICK j \in 1 .. 3, l \in 1 .. m : k = Nth(m, j, l)
    BY <1>9, <2>0, LoopCovered
  <2> QED
    BY <1>11, <1>12, <2>1
<1>14. ASSUME NEW i \in 1 .. n PROVE s[2 + i] = Write(Page, "report")
  <2>1. 2 + i \in 1 .. m
    BY <1>2 DEF m
  <2> QED
    BY <1>7, <1>12, <2>1
<1>15. s[1] = Open /\ s[2] = Fsync
  <2>1. 1 \in 1 .. m /\ 2 \in 1 .. m
    BY <1>2 DEF m
  <2> QED
    BY <1>7, <1>12, <2>1
<1> QED
  BY <1>10, <1>11, <1>13, <1>14, <1>15 DEF s, n, S, m, WritesInOrder

(* then reads them in order three times, *)
PassStarts == {0, 5 + Records, 2 * (5 + Records)}

ReadsInOrder(s) ==
    /\ Len(s) = 3 * (5 + Records)
    /\ \A e \in PassStarts :
           /\ s[e + 1] = Open /\ s[e + 2] = Fsync
           /\ s[e + 3] = Read(Page, AnyByte, "exit") /\ s[e + 4] = Seek(0)
           /\ \A i \in 1 .. Records : s[e + 4 + i] = Read(Page, AnyByte, "exit")
    /\ \A k \in 1 .. Len(s) : s[k].op = "read" =>
           \E e \in PassStarts : k = e + 3 \/ \E i \in 1 .. Records : k = e + 4 + i

LEMMA ReadPerfTestIs ==
    read_perf_test \in Seq(ShuffledSteps(Records)) /\ ReadsInOrder(read_perf_test)
<1> DEFINE s == read_perf_test
           n == Records
           S == ShuffledSteps(n)
           m == 5 + n
           r == <<Open, Fsync, Read(Page, AnyByte, "exit"), Seek(0)>>
           t == <<Fsync>>
           reads == [i \in 1 .. n |-> <<Read(Page, AnyByte, "exit")>>]
           p == r \o FlattenSeq(reads) \o t
           passes == [j \in 1 .. 3 |-> p]
<1>1. s = FlattenSeq(passes)
  BY DEF read_perf_test, Repeat
<1>2. n \in Nat /\ Page \in 0 .. EndSize /\ AnyByte \in Int /\ 0 \in Nat /\ "exit" \in Iferr
  BY Constants DEF Iferr, AnyByte
<1> HIDE DEF s, n
<1>3. Open \in S /\ Fsync \in S /\ Read(Page, AnyByte, "exit") \in S /\ Seek(0) \in S
  BY <1>2, ShuffledMade
<1>4. /\ r \in Seq(S) /\ Len(r) = 4 /\ r[1] = Open /\ r[2] = Fsync
      /\ r[3] = Read(Page, AnyByte, "exit") /\ r[4] = Seek(0)
      /\ t \in Seq(S) /\ Len(t) = 1 /\ t[1] = Fsync
  BY <1>3
<1>5. /\ reads \in [1 .. n -> Seq(S)]
      /\ \A i \in 1 .. n : Len(reads[i]) = 1 /\ reads[i][1] = Read(Page, AnyByte, "exit")
  BY <1>3
<1> HIDE DEF S, r, t, reads
<1>6. p \in Seq(S) /\ IsLooped(p, r, n, 1, reads, t)
  BY <1>2, <1>4, <1>5, LoopIs
<1> HIDE DEF p
<1>7. /\ Len(p) = m /\ p[1] = Open /\ p[2] = Fsync
      /\ p[3] = Read(Page, AnyByte, "exit") /\ p[4] = Seek(0) /\ p[m] = Fsync
      /\ \A i \in 1 .. n : p[4 + i] = Read(Page, AnyByte, "exit")
  <2>1. ASSUME NEW i \in 1 .. n PROVE p[4 + i] = Read(Page, AnyByte, "exit")
    <3>1. Len(r) + Nth(1, i, 1) = 4 + i
      BY <1>4 DEF Nth
    <3> QED
      BY <1>5, <1>6, <3>1 DEF IsLooped
  <2>2. /\ Len(p) = m /\ p[1] = Open /\ p[2] = Fsync
        /\ p[3] = Read(Page, AnyByte, "exit") /\ p[4] = Seek(0) /\ p[m] = Fsync
    BY <1>2, <1>4, <1>6 DEF IsLooped
  <2> QED
    BY <2>1, <2>2
<1>8. /\ passes \in [1 .. 3 -> Seq(S)]
      /\ \A j \in 1 .. 3 : Len(passes[j]) = m /\ passes[j] = p
  BY <1>6, <1>7
<1> HIDE DEF passes
<1>9. m \in Nat /\ m > 0
  BY <1>2
<1> HIDE DEF m
<1>10. s \in Seq(S) /\ IsLoop(s, 3, m, passes)
  BY <1>1, <1>8, <1>9, FlattenIs
<1>11. Len(s) = 3 * m /\ \A j \in 1 .. 3, k \in 1 .. m : s[Nth(m, j, k)] = p[k]
  BY <1>8, <1>10 DEF IsLoop
<1> DEFINE E == {0, m, 2 * m}
<1>12. ASSUME NEW e \in E, NEW k \in 1 .. m PROVE s[e + k] = p[k]
  <2>1. \E j \in 1 .. 3 : e + k = Nth(m, j, k)
    <3>1. Nth(m, 1, k) = 0 + k /\ Nth(m, 2, k) = m + k /\ Nth(m, 3, k) = 2 * m + k
      BY <1>9 DEF Nth
    <3>2. CASE e = 0
      BY <3>1, <3>2
    <3>3. CASE e = m
      BY <3>1, <3>3
    <3>4. CASE e = 2 * m
      BY <3>1, <3>4
    <3> QED
      BY <3>2, <3>3, <3>4
  <2> QED
    BY <1>11, <2>1
<1>13. ASSUME NEW k \in 1 .. Len(s), s[k].op = "read"
       PROVE  \E e \in E : k = e + 3 \/ \E i \in 1 .. n : k = e + 4 + i
  <2>0. k \in 1 .. 3 * m /\ 3 \in Nat
    BY <1>11
  <2>1. PICK j \in 1 .. 3, l \in 1 .. m : k = Nth(m, j, l)
    BY <1>9, <2>0, LoopCovered
  <2>2. PICK e \in E : k = e + l
    <3>1. /\ j = 1 => k = 0 + l
          /\ j = 2 => k = m + l
          /\ j = 3 => k = 2 * m + l
      BY <1>9, <2>1 DEF Nth
    <3>2. j = 1 \/ j = 2 \/ j = 3
      OBVIOUS
    <3> QED
      BY <3>1, <3>2
  <2>3. p[l].op = "read"
    BY <1>11, <1>13, <2>1
  <2>4. l # 1 /\ l # 2 /\ l # 4 /\ l # m
    BY <1>7, <2>3 DEF Open, Fsync, Seek
  <2>5. l = 3 \/ l - 4 \in 1 .. n
    BY <1>2, <2>4 DEF m
  <2>6. e \in Nat
    BY <1>9
  <2>7. CASE l = 3
    BY <2>2, <2>7
  <2>8. CASE l - 4 \in 1 .. n
    <3>1. k = e + 4 + (l - 4)
      BY <2>2, <2>6
    <3> QED
      BY <2>8, <3>1
  <2> QED
    BY <2>5, <2>7, <2>8
<1>14. ASSUME NEW e \in E
       PROVE  /\ s[e + 1] = Open /\ s[e + 2] = Fsync
              /\ s[e + 3] = Read(Page, AnyByte, "exit") /\ s[e + 4] = Seek(0)
  <2>1. 1 \in 1 .. m /\ 2 \in 1 .. m /\ 3 \in 1 .. m /\ 4 \in 1 .. m
    BY <1>2 DEF m
  <2>2. /\ s[e + 1] = p[1] /\ s[e + 2] = p[2]
        /\ s[e + 3] = p[3] /\ s[e + 4] = p[4]
    BY <1>12, <2>1
  <2> QED
    BY <1>7, <2>2
<1>15. ASSUME NEW e \in E, NEW i \in 1 .. n PROVE s[e + 4 + i] = Read(Page, AnyByte, "exit")
  <2>1. 4 + i \in 1 .. m /\ e \in Nat /\ e + (4 + i) = e + 4 + i
    BY <1>2, <1>9 DEF m
  <2>2. s[e + (4 + i)] = p[4 + i]
    BY <1>12, <2>1
  <2> QED
    BY <1>7, <2>1, <2>2
<1>16. E = PassStarts
  BY DEF PassStarts, m, n
<1> HIDE DEF E
<1>17. ReadsInOrder(s)
  BY <1>11, <1>13, <1>14, <1>15, <1>16 DEF ReadsInOrder, n, m
<1> QED
  BY <1>10, <1>17 DEF s, n, S

(* and twice in random order: first it reads them, then it writes them.    *)
RandomOrder(s) ==
    LET n == Records
        z == n + 2 * n + 3
    IN
    /\ Len(s) = z + 2 * n + 1
    /\ s[n + 1] = Open
    /\ \A i \in 1 .. n :
           /\ s[n + 2 * i] = SeekRecord(i - 1)
           /\ s[n + 2 * i + 1] = Read(Page, AnyByte, "exit")
           /\ s[z + 2 * i - 1] = SeekRecord(i - 1)
           /\ s[z + 2 * i] = Write(Page, "report")
    /\ s[z + 2 * n + 1] = Fsync
    /\ \A k \in 1 .. Len(s) : s[k].op = "read" => \E i \in 1 .. n : k = n + 2 * i + 1

LEMMA RandomPerfIs ==
    random_perf_test \in Seq(ShuffledSteps(Records)) /\ RandomOrder(random_perf_test)
<1> DEFINE s == random_perf_test
           n == Records
           S == ShuffledSteps(n)
           m == 2 + 2 * n
           z == n + 2 * n + 3
           Move(j) == IF j = 1 THEN Read(Page, AnyByte, "exit") ELSE Write(Page, "report")
           r == <<Open>>
           t == <<Fsync>>
           moves == [j \in 1 .. 2 |-> [i \in 1 .. n |-> <<SeekRecord(i - 1), Move(j)>>]]
           passes == [j \in 1 .. 2 |-> r \o FlattenSeq(moves[j]) \o t]
           f == Shuffle(n)
<1>1. s = f \o FlattenSeq(passes)
  <2>1. passes = [j \in 1 .. 2 |->
                     r \o FlattenSeq([i \in 1 .. n |-> <<SeekRecord(i - 1), Move(j)>>]) \o t]
    OBVIOUS
  <2> QED
    BY <2>1 DEF random_perf_test, Repeat
<1>2. /\ n \in Nat /\ n <= MaxFile /\ Page \in 0 .. EndSize /\ AnyByte \in Int
      /\ "exit" \in Iferr /\ "report" \in Iferr
  <2>1. 1 * n <= Page * n /\ Page * n = n * Page
    BY Constants, TimesMonotone
  <2> QED
    BY <2>1, Constants DEF Iferr, AnyByte
<1> HIDE DEF s, n
<1>3. /\ Open \in S /\ Fsync \in S /\ Read(Page, AnyByte, "exit") \in S
      /\ Write(Page, "report") \in S
  BY <1>2, ShuffledMade
<1>4. \A i \in 1 .. n : SeekRecord(i - 1) \in S
  BY <1>2, ShuffledMade, Constants
<1>5. r \in Seq(S) /\ Len(r) = 1 /\ r[1] = Open /\ t \in Seq(S) /\ Len(t) = 1 /\ t[1] = Fsync
  BY <1>3
<1>6. f \in Seq(S) /\ Len(f) = n /\ \A i \in 1 .. n : f[i] = Swap(i - 1, n)
  BY <1>2, ShuffleIs
<1> HIDE DEF S, r, t, f
<1>7. ASSUME NEW j \in 1 .. 2
      PROVE  /\ moves[j] \in [1 .. n -> Seq(S)]
             /\ \A i \in 1 .. n : Len(moves[j][i]) = 2
             /\ \A i \in 1 .. n : moves[j][i][1] = SeekRecord(i - 1) /\ moves[j][i][2] = Move(j)
  BY <1>3, <1>4
<1> HIDE DEF moves
<1>8. ASSUME NEW j \in 1 .. 2
      PROVE  /\ passes[j] \in Seq(S) /\ Len(passes[j]) = m
             /\ passes[j][1] = Open /\ passes[j][m] = Fsync
             /\ \A i \in 1 .. n :
                    passes[j][2 * i] = SeekRecord(i - 1) /\ passes[j][2 * i + 1] = Move(j)
  <2>1. passes[j] = r \o FlattenSeq(moves[j]) \o t
    OBVIOUS
  <2> HIDE DEF passes
  <2>2. moves[j] \in [1 .. n -> Seq(S)] /\ \A i \in 1 .. n : Len(moves[j][i]) = 2
    BY <1>7
  <2> DEFINE mv == moves[j]
  <2> HIDE DEF mv
  <2>2a. /\ r \in Seq(S) /\ t \in Seq(S) /\ n \in Nat
         /\ mv \in [1 .. n -> Seq(S)] /\ \A i \in 1 .. n : Len(mv[i]) = 2
    BY <1>2, <1>5, <2>2 DEF mv
  <2>2b. /\ r \o FlattenSeq(mv) \o t \in Seq(S)
         /\ IsLooped(r \o FlattenSeq(mv) \o t, r, n, 2, mv, t)
    BY <2>2a, LoopIs
  <2>3. passes[j] \in Seq(S) /\ IsLooped(passes[j], r, n, 2, moves[j], t)
    BY <2>1, <2>2b DEF mv
  <2>4. Len(passes[j]) = m /\ passes[j][1] = Open /\ passes[j][m] = Fsync
    BY <1>2, <1>5, <2>3 DEF IsLooped
  <2>5. ASSUME NEW i \in 1 .. n
        PROVE  passes[j][2 * i] = SeekRecord(i - 1) /\ passes[j][2 * i + 1] = Move(j)
    <3>1. Len(r) + Nth(2, i, 1) = 2 * i /\ Len(r) + Nth(2, i, 2) = 2 * i + 1
      BY <1>5 DEF Nth
    <3>2. /\ passes[j][Len(r) + Nth(2, i, 1)] = moves[j][i][1]
          /\ passes[j][Len(r) + Nth(2, i, 2)] = moves[j][i][2]
      BY <2>3 DEF IsLooped
    <3>3. moves[j][i][1] = SeekRecord(i - 1) /\ moves[j][i][2] = Move(j)
      BY <1>7
    <3> QED
      BY <3>1, <3>2, <3>3
  <2> QED
    BY <2>3, <2>4, <2>5
<1>9. passes = [j \in 1 .. 2 |-> passes[j]]
  OBVIOUS
<1> HIDE DEF passes
<1>10. passes \in [1 .. 2 -> Seq(S)] /\ \A j \in 1 .. 2 : Len(passes[j]) = m
  BY <1>8, <1>9
<1>11. m \in Nat /\ m > 0
  BY <1>2
<1> HIDE DEF m
<1>12. s \in Seq(S) /\ IsLooped(s, f, 2, m, passes, << >>)
  BY <1>1, <1>6, <1>10, <1>11, LastLoopIs
<1>13. /\ Len(s) = n + 2 * m
       /\ \A k \in 1 .. n : s[k] = Swap(k - 1, n)
       /\ \A k \in 1 .. m : s[n + k] = passes[1][k] /\ s[n + m + k] = passes[2][k]
  <2>1. ASSUME NEW k \in 1 .. m
        PROVE  s[n + k] = passes[1][k] /\ s[n + m + k] = passes[2][k]
    <3>1. Nth(m, 1, k) = k /\ Nth(m, 2, k) = m + k /\ n + (m + k) = n + m + k
      BY <1>2, <1>11 DEF Nth
    <3>2. s[n + Nth(m, 1, k)] = passes[1][k] /\ s[n + Nth(m, 2, k)] = passes[2][k]
      BY <1>6, <1>12 DEF IsLooped
    <3> QED
      BY <3>1, <3>2
  <2>2. Len(s) = n + 2 * m /\ \A k \in 1 .. n : s[k] = f[k]
    BY <1>2, <1>6, <1>11, <1>12 DEF IsLooped
  <2> QED
    BY <1>6, <2>1, <2>2
<1>14. ASSUME NEW i \in 1 .. n
       PROVE  /\ s[n + 2 * i] = SeekRecord(i - 1)
              /\ s[n + 2 * i + 1] = Read(Page, AnyByte, "exit")
              /\ s[z + 2 * i - 1] = SeekRecord(i - 1)
              /\ s[z + 2 * i] = Write(Page, "report")
  <2>1. /\ 2 * i \in 1 .. m /\ 2 * i + 1 \in 1 .. m
        /\ n + (2 * i + 1) = n + 2 * i + 1
        /\ n + m + 2 * i = z + 2 * i - 1 /\ n + m + (2 * i + 1) = z + 2 * i
    BY <1>2 DEF m
  <2>2. /\ s[n + 2 * i] = passes[1][2 * i] /\ s[n + (2 * i + 1)] = passes[1][2 * i + 1]
        /\ s[n + m + 2 * i] = passes[2][2 * i]
        /\ s[n + m + (2 * i + 1)] = passes[2][2 * i + 1]
    BY <1>13, <2>1
  <2> QED
    BY <1>8, <2>1, <2>2
<1>15. s[n + 1] = Open /\ s[z + 2 * n + 1] = Fsync /\ Len(s) = z + 2 * n + 1
  <2>1. 1 \in 1 .. m /\ m \in 1 .. m /\ n + m + m = z + 2 * n + 1 /\ n + 2 * m = n + m + m
    BY <1>2 DEF m
  <2> QED
    BY <1>8, <1>13, <2>1
<1>16. ASSUME NEW k \in 1 .. m, NEW j \in 1 .. 2, passes[j][k].op = "read"
       PROVE  j = 1 /\ \E i \in 1 .. n : k = 2 * i + 1
  <2>1. k # 1 /\ k # m
    BY <1>8, <1>16 DEF Open, Fsync
  <2>2. ASSUME NEW i \in 1 .. n, k = 2 * i PROVE FALSE
    <3>1. passes[j][k] = SeekRecord(i - 1)
      BY <1>8, <2>2
    <3> QED
      BY <1>16, <3>1 DEF SeekRecord
  <2>3. PICK i \in 1 .. n : k = 2 * i + 1
    <3>1. PICK l \in Nat : k = 2 * l \/ k = 2 * l + 1
      <4>1. k \div 2 \in Nat /\ k = 2 * (k \div 2) + (k % 2) /\ k % 2 \in Nat /\ k % 2 < 2
        BY Divided
      <4> QED
        BY <4>1
    <3>2. l \in 1 .. n
      BY <1>2, <2>1, <3>1 DEF m
    <3> QED
      BY <2>2, <3>1, <3>2
  <2>4. passes[j][k] = Move(j)
    BY <1>8, <2>3
  <2>5. j = 1
    BY <1>16, <2>4 DEF Write
  <2> QED
    BY <2>3, <2>5
<1>17. ASSUME NEW k \in 1 .. Len(s), s[k].op = "read"
       PROVE  \E i \in 1 .. n : k = n + 2 * i + 1
  <2>1. k > n
    <3>1. SUFFICES ASSUME k \in 1 .. n PROVE FALSE
      BY <1>2
    <3>2. s[k] = Swap(k - 1, n)
      BY <1>13, <3>1
    <3> QED
      BY <1>17, <3>2 DEF Swap
  <2>2. \/ k - n \in 1 .. m /\ k = n + (k - n)
        \/ k - n - m \in 1 .. m /\ k = n + m + (k - n - m)
    BY <1>2, <1>11, <1>13, <2>1
  <2>3. CASE k - n \in 1 .. m /\ k = n + (k - n)
    <3>1. passes[1][k - n].op = "read"
      BY <1>13, <1>17, <2>3
    <3>2. PICK i \in 1 .. n : k - n = 2 * i + 1
      BY <1>16, <2>3, <3>1
    <3> QED
      BY <1>2, <3>2
  <2>4. CASE k - n - m \in 1 .. m /\ k = n + m + (k - n - m)
    <3> DEFINE l == k - n - m
    <3>1. l \in 1 .. m /\ 2 \in 1 .. 2 /\ passes[2][l].op = "read"
      BY <1>13, <1>17, <2>4
    <3> HIDE DEF l
    <3>2. 2 = 1
      BY <1>16, <3>1
    <3> QED
      BY <3>2
  <2> QED
    BY <2>2, <2>3, <2>4
<1>18. RandomOrder(s)
  BY <1>14, <1>15, <1>17 DEF RandomOrder, n
<1> QED
  BY <1>12, <1>18 DEF s, n, S

(* What iozone_test does, one after the other. *)
LEMMA IozoneScript ==
    ASSUME NEW x \in Commands
    PROVE  LET s == Iozone(x)
               n == Records
               w == 3 * (2 + n)
               u == w + 3 * (5 + n)
               z == u + n + 2 * n + 3
           IN
           /\ s \in Seq(ShuffledSteps(n))
           /\ s[1] = Open /\ s[2] = Fsync
           /\ \A i \in 1 .. n : s[2 + i] = Write(Page, "report")
           /\ \A e \in PassStarts :
                  /\ s[w + e + 1] = Open /\ s[w + e + 2] = Fsync
                  /\ s[w + e + 3] = Read(Page, AnyByte, "exit") /\ s[w + e + 4] = Seek(0)
                  /\ \A i \in 1 .. n : s[w + e + 4 + i] = Read(Page, AnyByte, "exit")
           /\ \A i \in 1 .. n :
                  /\ s[u + n + 2 * i] = SeekRecord(i - 1)
                  /\ s[u + n + 2 * i + 1] = Read(Page, AnyByte, "exit")
           /\ \A k \in 1 .. Len(s) : s[k].op = "read" =>
                  \/ \E e \in PassStarts :
                         k = w + e + 3 \/ \E i \in 1 .. n : k = w + e + 4 + i
                  \/ \E i \in 1 .. n : k = u + n + 2 * i + 1
           /\ LastPass(s, z, n)
<1> DEFINE s == Iozone(x)
           n == Records
           S == ShuffledSteps(n)
           w == 3 * (2 + n)
           b == 3 * (5 + n)
           u == w + b
           z == u + n + 2 * n + 3
           p == write_perf_test1
           q == read_perf_test
           r == random_perf_test
<1>1. s = p \o q \o r
  BY DEF Iozone
<1>2. /\ p \in Seq(S) /\ WritesInOrder(p) /\ q \in Seq(S) /\ ReadsInOrder(q)
      /\ r \in Seq(S) /\ RandomOrder(r)
  BY WritePerfTestIs, ReadPerfTestIs, RandomPerfIs
<1>3. n \in Nat
  BY Constants
<1> HIDE DEF s, S, p, q, r
<1>4. Len(p) = w /\ Len(q) = b /\ Len(r) = n + 2 * n + 3 + 2 * n + 1
  BY <1>2 DEF WritesInOrder, ReadsInOrder, RandomOrder
<1>5. w \in Nat /\ b \in Nat /\ w >= 2 + n /\ b > 0
  BY <1>3
<1>6. /\ s \in Seq(S)
      /\ Len(s) = w + b + Len(r)
      /\ \A k \in 1 .. w : s[k] = p[k]
      /\ \A k \in 1 .. b : s[w + k] = q[k]
      /\ \A k \in 1 .. Len(r) : s[w + b + k] = r[k]
  <2>1. p \in Seq(S) /\ q \in Seq(S) /\ r \in Seq(S)
    BY <1>2
  <2>2. /\ p \o q \o r \in Seq(S)
        /\ Len(p \o q \o r) = Len(p) + Len(q) + Len(r)
        /\ \A k \in 1 .. Len(p) : (p \o q \o r)[k] = p[k]
        /\ \A k \in 1 .. Len(q) : (p \o q \o r)[Len(p) + k] = q[k]
        /\ \A k \in 1 .. Len(r) : (p \o q \o r)[Len(p) + Len(q) + k] = r[k]
    BY <2>1, ThreeParts
  <2> QED
    BY <1>1, <1>4, <2>2
<1>7. /\ p[1] = Open /\ p[2] = Fsync
      /\ \A i \in 1 .. n : p[2 + i] = Write(Page, "report")
      /\ \A k \in 1 .. w : p[k].op # "read"
  BY <1>2, <1>4 DEF WritesInOrder
<1>8. /\ s[1] = Open /\ s[2] = Fsync
      /\ \A i \in 1 .. n : s[2 + i] = Write(Page, "report")
  <2>1. 1 \in 1 .. w /\ 2 \in 1 .. w /\ \A i \in 1 .. n : 2 + i \in 1 .. w
    BY <1>3, <1>5
  <2> QED
    BY <1>6, <1>7, <2>1
<1>9. ASSUME NEW e \in PassStarts
      PROVE  /\ s[w + e + 1] = Open /\ s[w + e + 2] = Fsync
             /\ s[w + e + 3] = Read(Page, AnyByte, "exit") /\ s[w + e + 4] = Seek(0)
             /\ \A i \in 1 .. n : s[w + e + 4 + i] = Read(Page, AnyByte, "exit")
  <2>1. /\ q[e + 1] = Open /\ q[e + 2] = Fsync
        /\ q[e + 3] = Read(Page, AnyByte, "exit") /\ q[e + 4] = Seek(0)
        /\ \A i \in 1 .. n : q[e + 4 + i] = Read(Page, AnyByte, "exit")
    BY <1>2 DEF ReadsInOrder
  <2>2. e \in Nat /\ e + 5 + n <= b
    BY <1>3 DEF PassStarts
  <2>3. ASSUME NEW k \in 1 .. 4 + n PROVE s[w + e + k] = q[e + k]
    <3>1. e + k \in 1 .. b /\ w + (e + k) = w + e + k
      BY <1>3, <1>5, <2>2
    <3>2. s[w + (e + k)] = q[e + k]
      BY <1>6, <3>1
    <3> QED
      BY <3>1, <3>2
  <2> HIDE DEF w, b
  <2>4. ASSUME NEW i \in 1 .. n PROVE s[w + e + 4 + i] = Read(Page, AnyByte, "exit")
    <3>1. 4 + i \in 1 .. 4 + n /\ w + e + (4 + i) = w + e + 4 + i /\ e + (4 + i) = e + 4 + i
      BY <1>3, <1>5, <2>2
    <3>2. s[w + e + (4 + i)] = q[e + (4 + i)]
      BY <2>3, <3>1
    <3> QED
      BY <2>1, <3>1, <3>2
  <2>5. 1 \in 1 .. 4 + n /\ 2 \in 1 .. 4 + n /\ 3 \in 1 .. 4 + n /\ 4 \in 1 .. 4 + n
    BY <1>3
  <2> QED
    BY <2>1, <2>3, <2>4, <2>5
<1> DEFINE y == n + 2 * n + 3
<1>10. /\ \A i \in 1 .. n :
              /\ r[n + 2 * i] = SeekRecord(i - 1)
              /\ r[n + 2 * i + 1] = Read(Page, AnyByte, "exit")
              /\ r[y + 2 * i - 1] = SeekRecord(i - 1)
              /\ r[y + 2 * i] = Write(Page, "report")
       /\ r[y + 2 * n + 1] = Fsync
  BY <1>2 DEF RandomOrder
<1> HIDE DEF w, b
<1>11. ASSUME NEW i \in 1 .. n
       PROVE  /\ s[u + n + 2 * i] = SeekRecord(i - 1)
              /\ s[u + n + 2 * i + 1] = Read(Page, AnyByte, "exit")
              /\ s[z + 2 * i - 1] = SeekRecord(i - 1)
              /\ s[z + 2 * i] = Write(Page, "report")
  <2>1. /\ n + 2 * i \in 1 .. Len(r) /\ u + (n + 2 * i) = u + n + 2 * i
        /\ n + 2 * i + 1 \in 1 .. Len(r) /\ u + (n + 2 * i + 1) = u + n + 2 * i + 1
        /\ y + 2 * i - 1 \in 1 .. Len(r) /\ u + (y + 2 * i - 1) = z + 2 * i - 1
        /\ y + 2 * i \in 1 .. Len(r) /\ u + (y + 2 * i) = z + 2 * i
    BY <1>3, <1>4, <1>5
  <2>2. /\ s[u + (n + 2 * i)] = r[n + 2 * i] /\ s[u + (n + 2 * i + 1)] = r[n + 2 * i + 1]
        /\ s[u + (y + 2 * i - 1)] = r[y + 2 * i - 1] /\ s[u + (y + 2 * i)] = r[y + 2 * i]
    <3> HIDE DEF y
    <3> QED
      BY <1>6, <2>1
  <2> QED
    BY <1>10, <2>1, <2>2
<1>12. z \in Nat /\ Len(s) = z + 2 * n + 1 /\ s[z + 2 * n + 1] = Fsync
  <2>1. z \in Nat /\ Len(s) = z + 2 * n + 1
    BY <1>3, <1>4, <1>5, <1>6
  <2>2. y + 2 * n + 1 \in 1 .. Len(r) /\ u + (y + 2 * n + 1) = z + 2 * n + 1
    BY <1>3, <1>4, <1>5
  <2>3. s[u + (y + 2 * n + 1)] = r[y + 2 * n + 1]
    <3> HIDE DEF y
    <3> QED
      BY <1>6, <2>2
  <2> QED
    BY <1>10, <2>1, <2>2, <2>3
<1>13. ASSUME NEW k \in 1 .. Len(s), s[k].op = "read"
       PROVE  \/ \E e \in PassStarts :
                     k = w + e + 3 \/ \E i \in 1 .. n : k = w + e + 4 + i
              \/ \E i \in 1 .. n : k = u + n + 2 * i + 1
  <2>1. k > w
    <3>1. SUFFICES ASSUME k \in 1 .. w PROVE FALSE
      BY <1>5
    <3> QED
      BY <1>6, <1>7, <1>13, <3>1
  <2>2. \/ k - w \in 1 .. b /\ k = w + (k - w)
        \/ k - w - b \in 1 .. Len(r) /\ k = w + b + (k - w - b)
    BY <1>5, <1>6, <2>1
  <2>3. CASE k - w \in 1 .. b /\ k = w + (k - w)
    <3>1. q[k - w].op = "read"
      BY <1>6, <1>13, <2>3
    <3>2. PICK e \in PassStarts : k - w = e + 3 \/ \E i \in 1 .. n : k - w = e + 4 + i
      BY <1>2, <1>4, <2>3, <3>1 DEF ReadsInOrder
    <3>3. e \in Nat
      BY <1>3 DEF PassStarts
    <3>4. CASE k - w = e + 3
      BY <1>5, <3>3, <3>4
    <3>5. CASE \E i \in 1 .. n : k - w = e + 4 + i
      <4>1. PICK i \in 1 .. n : k - w = e + 4 + i
        BY <3>5
      <4>2. k = w + e + 4 + i
        BY <1>5, <3>3, <4>1
      <4> QED
        BY <4>2
    <3> QED
      BY <3>2, <3>4, <3>5
  <2>4. CASE k - w - b \in 1 .. Len(r) /\ k = w + b + (k - w - b)
    <3>1. r[k - w - b].op = "read"
      BY <1>6, <1>13, <2>4
    <3>2. PICK i \in 1 .. n : k - w - b = n + 2 * i + 1
      BY <1>2, <2>4, <3>1 DEF RandomOrder
    <3>3. k = u + n + 2 * i + 1
      BY <1>3, <1>5, <3>2
    <3> QED
      BY <3>3
  <2> QED
    BY <2>2, <2>3, <2>4
<1> HIDE DEF z
<1>14. LastPass(s, z, n)
  BY <1>11, <1>12 DEF LastPass
<1> QED
  BY <1>6, <1>8, <1>9, <1>11, <1>13, <1>14 DEF s, n, S, w, b, z

(* The programs that use a mapping. *)
MappedPrograms ==
    {"mmap_write", "mmap_read", "mmap_to_ram", "msync-test", "mprotect-test", "munmap-test"}

(* Each program is its own script. *)
LEMMA ScriptOf ==
    ASSUME NEW x \in Commands
    PROVE  /\ x.prog = "integrity_test2_write" => Script(x) = IntegrityWrite(x)
           /\ x.prog = "integrity_test2_direct" => Script(x) = IntegrityWrite(x)
           /\ x.prog = "integrity_test2_read" => Script(x) = IntegrityRead(x)
           /\ x.prog = "mmap_write" => Script(x) = MmapWrite(x)
           /\ x.prog = "mmap_read" => Script(x) = MmapRead(x)
           /\ x.prog = "mmap_to_ram" => Script(x) = MmapToRam(x)
           /\ x.prog = "msync-test" => Script(x) = MsyncTest(x)
           /\ x.prog = "mprotect-test" => Script(x) = MprotectTest(x)
           /\ x.prog = "munmap-test" => Script(x) = MunmapTest(x)
           /\ x.prog = "latency_write" => Script(x) = LatencyWrite(x)
           /\ x.prog = "latency_direct" => Script(x) = LatencyDirect(x)
           /\ x.prog = "latency_read" => Script(x) = LatencyRead(x)
           /\ x.prog = "read_from_ram" => Script(x) = ReadFromRam(x)
           /\ x.prog = "write_to_ram" => Script(x) = WriteToRam(x)
           /\ x.prog = "rewrite" => Script(x) = Rewrite(x)
           /\ x.prog = "pwrite" => Script(x) = Pwrite(x)
           /\ x.prog = "fsync" => Script(x) = FsyncOnly(x)
           /\ x.prog = "random_perf_test" => Script(x) = RandomPerfTest(x)
           /\ x.prog = "iozone_test" => Script(x) = Iozone(x)
BY DEF Script, IntegrityDirect

(* Every program is a sequence of steps, and most do not use a mapping.    *)
LEMMA ScriptType ==
    ASSUME NEW x \in Commands
    PROVE  /\ Script(x) \in Seq(Steps)
           /\ x.prog \notin MappedPrograms => Script(x) \in Seq(UnmappedSteps)
<1>1. UnmappedSteps \subseteq Steps
  BY DEF Steps
<1>2. ASSUME NEW s, s \in Seq(UnmappedSteps) PROVE s \in Seq(Steps)
  BY <1>1, <1>2
<1>3. ASSUME NEW s, NEW n \in Nat, s \in Seq(ShuffledSteps(n)) PROVE s \in Seq(UnmappedSteps)
  <2>1. ShuffledSteps(n) \subseteq UnmappedSteps
    BY DEF ShuffledSteps
  <2> QED
    BY <1>3, <2>1
<1>4. CASE x.prog \in {"integrity_test2_write", "integrity_test2_direct", "integrity_test2_read"}
  <2>1. Script(x) \in Seq(UnmappedSteps)
    BY <1>4, ScriptOf, IntegrityWriteScript, IntegrityReadScript
  <2> QED
    BY <1>2, <2>1
<1>5. CASE x.prog \in {"latency_write", "latency_direct", "latency_read"}
  <2>1. Script(x) \in Seq(UnmappedSteps)
    BY <1>5, ScriptOf, LatencyWriteScript, LatencyDirectScript, LatencyReadScript
  <2> QED
    BY <1>2, <2>1
<1>6. CASE x.prog \in {"read_from_ram", "write_to_ram", "rewrite", "pwrite", "fsync"}
  <2>1. Script(x) \in Seq(UnmappedSteps)
    BY <1>6, ScriptOf, ReadFromRamScript, WriteToRamScript, RewriteScript, ShortScripts
  <2> QED
    BY <1>2, <2>1
<1>7. CASE x.prog = "random_perf_test"
  <2>1. Script(x) \in Seq(ShuffledSteps(FileSize(x) \div Page))
    BY <1>7, ScriptOf, RandomPerfTestScript
  <2>2. FileSize(x) \div Page \in Nat
    BY PagesFit
  <2> QED
    BY <1>2, <1>3, <2>1, <2>2
<1>8. CASE x.prog = "iozone_test"
  <2>1. Script(x) \in Seq(ShuffledSteps(Records))
    BY <1>8, ScriptOf, IozoneScript
  <2> QED
    BY <1>2, <1>3, <2>1, Constants
<1>9. CASE x.prog \in {"mmap_write", "mmap_read", "mmap_to_ram"}
  <2>1. Script(x) \in Seq(Steps)
    BY <1>9, ScriptOf, MmapWriteScript, MmapReadScript, MmapToRamScript
  <2> QED
    BY <1>9, <2>1 DEF MappedPrograms
<1>10. CASE x.prog \in {"msync-test", "mprotect-test", "munmap-test"}
  <2>1. FilledWithA(x, MsyncTestSteps(x)) \in Seq(Steps)
    BY FilledPrograms, FilledWithAScript
  <2>2. FilledWithA(x, MprotectTestSteps(x)) \in Seq(Steps)
    BY FilledPrograms, FilledWithAScript
  <2>3. Script(x) \in Seq(Steps)
    BY <1>10, <2>1, <2>2, ScriptOf, FilledPrograms, MunmapTestScript
  <2> QED
    BY <1>10, <2>3 DEF MappedPrograms
<1>11. x.prog \in Programs
  BY CommandFields
<1> QED
  BY <1>4, <1>5, <1>6, <1>7, <1>8, <1>9, <1>10, <1>11 DEF Programs

-----------------------------------------------------------------------------
(* What the steps do to the file *)

(* A sequence with another put into it has the bytes of both. *)
LEMMA SplicedIs ==
    ASSUME NEW s \in Seq(Int), NEW t \in Seq(Int), NEW at \in Nat
    PROVE  /\ Spliced(s, at, t) \in Seq(Int)
           /\ Len(Spliced(s, at, t)) >= Len(s)
           /\ Len(t) > 0 => Len(Spliced(s, at, t)) >= at + Len(t)
           /\ at + Len(t) <= Len(s) => Len(Spliced(s, at, t)) = Len(s)
           /\ \A k \in 1 .. Len(t) : Spliced(s, at, t)[at + k] = t[k]
           /\ \A k \in 1 .. Len(s) :
                  k <= at \/ k > at + Len(t) => Spliced(s, at, t)[k] = s[k]
<1> DEFINE n == IF t = <<>> THEN Len(s) ELSE Greatest(Len(s), at + Len(t))
           f == [k \in 1 .. n |->
                    IF k - at \in DOMAIN t THEN t[k - at] ELSE IF k \in DOMAIN s THEN s[k] ELSE 0]
<1>1. Spliced(s, at, t) = f
  BY DEF Spliced
<1>2. Len(s) \in Nat /\ Len(t) \in Nat /\ (t = <<>> <=> Len(t) = 0)
  BY EmptySeq
<1>9. DOMAIN s = 1 .. Len(s) /\ DOMAIN t = 1 .. Len(t)
  OBVIOUS
<1>3. n \in Nat /\ n >= Len(s) /\ (Len(t) > 0 => n >= at + Len(t))
      /\ (at + Len(t) <= Len(s) => n = Len(s))
  <2>1. CASE t = <<>>
    <3>1. n = Len(s)
      BY <2>1
    <3> QED
      BY <1>2, <2>1, <3>1
  <2>2. CASE t # <<>>
    <3>1. n = Greatest(Len(s), at + Len(t))
      BY <2>2
    <3> HIDE DEF n
    <3> QED
      BY <1>2, <2>2, <3>1 DEF Greatest
  <2> QED
    BY <2>1, <2>2
<1> HIDE DEF n
<1>4. ASSUME NEW k \in 1 .. n
      PROVE  f[k] = IF k - at \in 1 .. Len(t) THEN t[k - at]
                    ELSE IF k \in 1 .. Len(s) THEN s[k] ELSE 0
  BY <1>9
<1>5. ASSUME NEW k \in 1 .. n PROVE f[k] \in Int
  BY <1>4
<1>6. f \in Seq(Int) /\ Len(f) = n
  <2>1. f \in [1 .. n -> Int]
    BY <1>5
  <2> HIDE DEF f
  <2> QED
    BY <1>3, <2>1
<1>7. ASSUME NEW k \in 1 .. Len(t) PROVE f[at + k] = t[k]
  <2>1. Len(t) > 0
    BY <1>2
  <2>2. at + k \in 1 .. n /\ at + k - at = k
    BY <1>2, <1>3, <2>1
  <2> HIDE DEF f
  <2> QED
    BY <1>4, <2>2
<1>8. ASSUME NEW k \in 1 .. Len(s), k <= at \/ k > at + Len(t) PROVE f[k] = s[k]
  <2>1. k \in 1 .. n /\ k - at \notin 1 .. Len(t)
    BY <1>2, <1>3, <1>8
  <2> HIDE DEF f
  <2> QED
    BY <1>4, <2>1
<1> HIDE DEF f
<1> QED
  BY <1>1, <1>3, <1>6, <1>7, <1>8

(* A read returns bytes of the file, all if there are so many. *)
LEMMA PieceIs ==
    ASSUME file \in Seq(Int), NEW at \in Nat, NEW n \in Int
    PROVE  /\ Piece(at, n) \in Seq(Int)
           /\ n >= 0 => Len(Piece(at, n)) <= n
           /\ n < 0 => Len(Piece(at, n)) = 0
           /\ n >= 0 /\ at + n <= Len(file) => Len(Piece(at, n)) = n
           /\ at + n > Len(file) /\ Len(file) >= at => Len(Piece(at, n)) = Len(file) - at
           /\ \A k \in 1 .. Len(Piece(at, n)) : at + k <= Len(file) /\ at + k <= at + n
           /\ \A k \in 1 .. Len(Piece(at, n)) : Piece(at, n)[k] = file[at + k]
<1> DEFINE m == Least(at + n, Len(file))
           q == SubSeq(file, at + 1, m)
           Good(y) ==
               /\ y \in Seq(Int)
               /\ n >= 0 => Len(y) <= n
               /\ n < 0 => Len(y) = 0
               /\ n >= 0 /\ at + n <= Len(file) => Len(y) = n
               /\ at + n > Len(file) /\ Len(file) >= at => Len(y) = Len(file) - at
               /\ \A k \in 1 .. Len(y) : at + k <= Len(file) /\ at + k <= at + n
               /\ \A k \in 1 .. Len(y) : y[k] = file[at + k]
<1>1. Piece(at, n) = q
  BY DEF Piece
<1>2. Len(file) \in Nat
  OBVIOUS
<1>3. m \in Int /\ m <= at + n /\ m <= Len(file) /\ (m = at + n \/ m = Len(file))
  BY <1>2 DEF Least
<1> HIDE DEF m
<1>4. Good(Piece(at, n))
  <2>1. CASE at + 1 <= m
    <3>1. /\ q \in Seq(Int) /\ Len(q) = m - (at + 1) + 1
          /\ \A k \in 1 .. m - (at + 1) + 1 : q[k] = file[at + 1 + k - 1]
      BY <1>2, <1>3, <2>1, SubSeqProperties
    <3>2. Len(q) = m - at
      BY <1>3, <3>1
    <3>3. ASSUME NEW k \in 1 .. Len(q) PROVE q[k] = file[at + k]
      <4>1. k \in 1 .. m - (at + 1) + 1 /\ at + 1 + k - 1 = at + k
        BY <1>3, <3>2
      <4> QED
        BY <3>1, <4>1
    <3> HIDE DEF q
    <3>4. \A k \in 1 .. Len(q) : at + k <= Len(file) /\ at + k <= at + n
      BY <1>3, <3>2
    <3>5. Good(q)
      BY <1>2, <1>3, <2>1, <3>1, <3>2, <3>3, <3>4
    <3> HIDE DEF Good
    <3> QED
      BY <1>1, <3>5
  <2>2. CASE ~(at + 1 <= m)
    <3>1. q = <<>> /\ Len(q) = 0 /\ q \in Seq(Int)
      BY <1>2, <1>3, <2>2
    <3> HIDE DEF q
    <3>2. /\ n < 0 => Len(q) = 0
          /\ n >= 0 => Len(q) <= n
          /\ n >= 0 /\ at + n <= Len(file) => Len(q) = n
          /\ at + n > Len(file) /\ Len(file) >= at => Len(q) = Len(file) - at
      BY <1>2, <1>3, <2>2, <3>1
    <3>3. ASSUME NEW k \in 1 .. Len(q) PROVE FALSE
      BY <3>1
    <3>4. /\ \A k \in 1 .. Len(q) : at + k <= Len(file) /\ at + k <= at + n
          /\ \A k \in 1 .. Len(q) : q[k] = file[at + k]
      BY <3>3
    <3>5. Good(q)
      BY <3>1, <3>2, <3>4
    <3> HIDE DEF Good
    <3> QED
      BY <1>1, <3>5
  <2> QED
    BY <2>1, <2>2
<1> QED
  BY <1>4

(* Writing back replaces bytes that survive with those of the file.        *)
LEMMA FlushedIs ==
    ASSUME file \in Seq(Int), disk \in Seq(Int), NEW lo \in Nat, NEW hi \in Nat
    PROVE  LET d == Flushed(lo, hi)
           IN  /\ d \in Seq(Int) /\ Len(d) >= Len(disk)
               /\ \A k \in 1 .. Len(disk) :
                      d[k] = disk[k] \/ (k <= Len(file) /\ d[k] = file[k])
               /\ \A k \in 1 .. Len(file) :
                      lo < k /\ k <= hi => k <= Len(d) /\ d[k] = file[k]
<1> DEFINE n == hi - lo
           t == Piece(lo, n)
           d == Spliced(disk, lo, t)
<1>0. Flushed(lo, hi) = d
  BY DEF Flushed
<1>7. n \in Int /\ lo + n = hi
  OBVIOUS
<1> HIDE DEF n
<1>1. /\ t \in Seq(Int)
      /\ n >= 0 /\ lo + n <= Len(file) => Len(t) = n
      /\ lo + n > Len(file) /\ Len(file) >= lo => Len(t) = Len(file) - lo
      /\ \A k \in 1 .. Len(t) : lo + k <= Len(file) /\ lo + k <= lo + n
      /\ \A k \in 1 .. Len(t) : t[k] = file[lo + k]
  BY <1>7, PieceIs
<1> HIDE DEF t
<1>2. /\ d \in Seq(Int)
      /\ Len(d) >= Len(disk)
      /\ Len(t) > 0 => Len(d) >= lo + Len(t)
      /\ \A k \in 1 .. Len(t) : d[lo + k] = t[k]
      /\ \A k \in 1 .. Len(disk) : k <= lo \/ k > lo + Len(t) => d[k] = disk[k]
  BY <1>1, SplicedIs
<1> HIDE DEF d
<1>3. Len(t) \in Nat /\ Len(file) \in Nat /\ Len(disk) \in Nat
  BY <1>1
<1>4. ASSUME NEW k \in Nat, lo < k, k <= lo + Len(t)
      PROVE  k <= Len(d) /\ k <= Len(file) /\ d[k] = file[k]
  <2>1. k - lo \in 1 .. Len(t) /\ lo + (k - lo) = k /\ Len(t) > 0
    BY <1>3, <1>4
  <2>2. d[lo + (k - lo)] = t[k - lo] /\ t[k - lo] = file[lo + (k - lo)]
        /\ lo + (k - lo) <= Len(file)
    BY <1>1, <1>2, <2>1
  <2>3. k <= Len(d)
    BY <1>2, <1>3, <1>4, <2>1
  <2> QED
    BY <2>1, <2>2, <2>3
<1>5. ASSUME NEW k \in 1 .. Len(disk)
      PROVE  d[k] = disk[k] \/ (k <= Len(file) /\ d[k] = file[k])
  <2>1. CASE k <= lo \/ k > lo + Len(t)
    BY <1>2, <2>1
  <2>2. CASE lo < k /\ k <= lo + Len(t)
    BY <1>4, <2>2
  <2> QED
    BY <1>3, <2>1, <2>2
<1>6. ASSUME NEW k \in 1 .. Len(file), lo < k, k <= hi
      PROVE  k <= Len(d) /\ d[k] = file[k]
  <2>1. k <= lo + Len(t)
    BY <1>7, <1>1, <1>3, <1>6
  <2> QED
    BY <1>4, <1>6, <2>1
<1> QED
  BY <1>0, <1>2, <1>5, <1>6 DEF n

(* A mapping reaches to the end of the file, at least. *)
LEMMA MappedIs ==
    ASSUME file \in Seq(Int)
    PROVE  Mapped \in Nat /\ Mapped >= Len(file)
<1> DEFINE l == Len(file)
           q == (l + Page - 1) \div Page
           r == (l + Page - 1) % Page
<1>1. l \in Nat /\ Page \in Nat /\ Page > 0 /\ l + Page - 1 \in Nat
  BY Constants
<1> HIDE DEF l
<1>2. q \in Nat /\ r \in Nat /\ l + Page - 1 = Page * q + r /\ r < Page
  BY <1>1, Divided
<1>3. Mapped = q * Page
  BY DEF Mapped, l
<1> HIDE DEF q, r
<1>4. q * Page = Page * q /\ q * Page \in Nat
  BY <1>1, <1>2
<1> QED
  BY <1>1, <1>2, <1>3, <1>4 DEF l

(* Stores do not change the length of the file. *)
LEMMA StoredIs ==
    ASSUME file \in Seq(Int), NEW at \in Nat, NEW n \in Int, NEW c \in Int
    PROVE  /\ Stored(at, n, c) \in Seq(Int) /\ Len(Stored(at, n, c)) = Len(file)
           /\ \A k \in 1 .. Len(file) :
                  Stored(at, n, c)[k] = IF at < k /\ k <= at + n THEN c ELSE file[k]
<1> DEFINE f == Stored(at, n, c)
<1>1. DOMAIN file = 1 .. Len(file) /\ Len(file) \in Nat
  OBVIOUS
<1>2. f = [k \in 1 .. Len(file) |-> IF k - at \in 1 .. n THEN c ELSE file[k]]
  BY <1>1 DEF Stored
<1> HIDE DEF f
<1>3. ASSUME NEW k \in 1 .. Len(file)
      PROVE  f[k] \in Int /\ f[k] = IF at < k /\ k <= at + n THEN c ELSE file[k]
  BY <1>1, <1>2
<1>4. f \in [1 .. Len(file) -> Int]
  BY <1>2, <1>3
<1> QED
  BY <1>1, <1>3, <1>4 DEF f

(* mmap_write overwrites the first byte with a d. *)
LEMMA StoredFirst ==
    ASSUME file \in Seq(Int)
    PROVE  /\ Len(Stored(0, 1, 100)) = Len(file)
           /\ \A k \in 1 .. Len(file) :
                  Stored(0, 1, 100)[k] = IF 0 < k /\ k <= 0 + 1 THEN 100 ELSE file[k]
<1> DEFINE at == 0
           n == 1
           c == 100
<1>1. at \in Nat /\ n \in Int /\ c \in Int
  OBVIOUS
<1> HIDE DEF at, n, c
<1>2. /\ Len(Stored(at, n, c)) = Len(file)
      /\ \A k \in 1 .. Len(file) :
             Stored(at, n, c)[k] = IF at < k /\ k <= at + n THEN c ELSE file[k]
  BY <1>1, StoredIs
<1> QED
  BY <1>2 DEF at, n, c

-----------------------------------------------------------------------------
(* Where a program is *)

(* What is left of the script of x after d steps. *)
Ahead(x, d) == SubSeq(Script(x), d + 1, Len(Script(x)))

(* The number of steps taken. *)
Taken == Len(Script(cmd)) - Len(todo)

TypeInv ==
    /\ file \in Seq(Int) /\ disk \in Seq(Int)
    /\ pos \in Nat
    /\ buf \in [1 .. EndSize -> Int]
    /\ recnum \in [0 .. MaxFile -> 0 .. MaxFile]
    /\ reported \in BOOLEAN /\ short \in BOOLEAN
    /\ end \in {"well", "crash", "SIGBUS", "SIGFPE", "exit"}
    /\ cmd \in Commands \cup {NoCommand} /\ trusted \in Commands \cup {NoCommand}
    /\ runs \in Nat

(* A program that is not over has taken some steps of its script. *)
Underway ==
    /\ cmd = NoCommand => todo = <<>> /\ end = "well" /\ runs = 0
    /\ end # "well" => todo = <<>>
    /\ cmd \in Commands /\ end = "well" =>
           Taken \in 0 .. Len(Script(cmd)) /\ todo = Ahead(cmd, Taken)

(* The first m bytes of s are c. *)
Holds(s, m, c) == \A k \in 1 .. m : k <= Len(s) /\ s[k] = c

(* latency_write: the blocks written are in the file, and all but the one  *)
(* it is about to fsync survive.                                           *)
LatencyAt(x, d, p, b, f, k) ==
    LET S == Size(x) IN
    /\ d <= 3 => p = 0
    /\ d >= 2 => \A j \in 1 .. S : b[j] = x.c
    /\ \A i \in 0 .. Count(x) :
           d = 3 + 2 * i => p = i * S /\ Holds(f, i * S, x.c) /\ Holds(k, i * S, x.c)
    /\ \A i \in 1 .. Count(x) :
           d = 2 + 2 * i => p = i * S /\ Holds(f, i * S, x.c) /\ Holds(k, i * S - S, x.c)
    /\ d = 4 + 2 * Count(x) => Holds(f, p, x.c) /\ Holds(k, p, x.c)

LatencyInv ==
    cmd.prog = "latency_write" /\ ~short =>
        /\ Holds(file, pos - Size(cmd), cmd.c) /\ Holds(disk, pos - Size(cmd), cmd.c)
        /\ end = "well" => LatencyAt(cmd, Taken, pos, buf, file, disk)

(* mmap_write: byte k of the file, as it is or overwritten behind the msync. *)
Striped(x, k, v) == v = Pattern(x)[(k - 1) \div Size(x)] \/ (k = 1 /\ v = 100)

Stripes(x, m, s) == \A k \in 1 .. m : k <= Len(s) => Striped(x, k, s[k])

(* Those of the first m bytes that s has are safe in t. *)
Safe(x, m, s, t) == \A k \in 1 .. m : k <= Len(s) => k <= Len(t) /\ Striped(x, k, t[k])

MmapAt(x, d, f, k) ==
    LET m == Count(x) * Size(x) IN
    /\ \A i \in 0 .. Count(x) : d = 2 + i => Stripes(x, i * Size(x), f)
    /\ d >= 3 + Count(x) => Stripes(x, m, f)
    /\ d >= 4 + Count(x) => Safe(x, m, f, k)

MmapInv ==
    cmd.prog = "mmap_write" /\ end = "well" => MmapAt(cmd, Taken, file, disk)

(* The reader has found the blocks before its offset.                      *)
Found(x, j, f) ==
    /\ Len(f) >= j * Size(x) + Size(x)
    /\ f[j * Size(x) + 1] = Pattern(x)[j]
    /\ f[j * Size(x) + Size(x)] = Pattern(x)[j]

ReaderAt(x, d, p, f) ==
    /\ d <= 3 => p = 0
    /\ \A i \in 0 .. Count(x) :
           d = 3 + i => p = i * Size(x) /\ \A j \in 0 .. Count(x) - 1 : j < i => Found(x, j, f)

ReaderInv ==
    cmd.prog = "integrity_test2_read" /\ ~reported /\ end = "well" =>
        ReaderAt(cmd, Taken, pos, file)

(* The pattern fills the first m bytes of the file. *)
Full(x, m, f) == m <= Len(f) /\ \A k \in 1 .. m : f[k] = Pattern(x)[(k - 1) \div Size(x)]

(* The silent writer has written the pattern up to its offset. *)
WriterAt(x, d, p, b, f) ==
    LET S == Size(x) IN
    /\ d <= 3 => p = 0
    /\ d = 2 => \A k \in 1 .. S : b[k] = Pattern(x)[0]
    /\ \A i \in 0 .. Count(x) :
           d = 3 + 2 * i =>
               p = i * S /\ Full(x, i * S, f) /\ \A k \in 1 .. S : b[k] = Pattern(x)[i]
    /\ \A i \in 1 .. Count(x) : d = 2 + 2 * i => p = i * S /\ Full(x, i * S, f)

WriterInv ==
    cmd.prog \in Writers /\ ~reported /\ end = "well" => WriterAt(cmd, Taken, pos, buf, file)

(* So has the one the reader trusts. *)
TrustInv ==
    cmd.prog = "integrity_test2_read" /\ trusted # NoCommand
    /\ [trusted EXCEPT !.prog = cmd.prog] = cmd =>
        ~reported /\ (end = "well" => Full(cmd, Count(cmd) * Size(cmd), file))

(* A program has made g writes of b bytes behind its first h steps.        *)
FillAt(d, h, g, b, p, l) ==
    /\ d <= h => p = 0
    /\ \A i \in 0 .. g : d = h + i => p = i * b /\ l >= i * b
    /\ d >= h + g => l >= g * b

Fillers == {"mmap_read", "munmap-test", "msync-test", "mprotect-test"}

FillFirst(x) == IF x.prog = "mmap_read" THEN 1 ELSE 2

FillBlock(x) ==
    IF x.prog = "mmap_read" THEN EndSize ELSE IF x.prog = "munmap-test" THEN Page ELSE BufSize(x)

FillTimes(x) ==
    IF x.prog = "mmap_read" THEN Greatest(1, FileSize(x) \div EndSize)
    ELSE FileSize(x) \div FillBlock(x)

FillInv ==
    cmd.prog \in Fillers /\ Script(cmd) # <<>> /\ ~short /\ end = "well" =>
        FillAt(Taken, FillFirst(cmd), FillTimes(cmd), FillBlock(cmd), pos, Len(file))

(* The random order is one, for the n blocks of the program.               *)
Blocked(x) == IF x.prog = "iozone_test" THEN Records ELSE FileSize(x) \div Page

Order(n, r) ==
    /\ \A i \in 0 .. n - 1 : r[i] \in 0 .. n - 1
    /\ \A b \in 0 .. n - 1 : \E i \in 0 .. n - 1 : r[i] = b

OrderInv ==
    cmd.prog \in {"random_perf_test", "iozone_test"} => Order(Blocked(cmd), recnum)

(* iozone_test has written all blocks before it reads, and does not read   *)
(* behind them.                                                            *)
IozoneAt(d, p, l, r) ==
    LET n == Records
        w == 3 * (2 + n)
        u == w + 3 * (5 + n)
    IN
    /\ d = 1 => p = 0
    /\ \A i \in 0 .. n : d = 2 + i => p = i * Page /\ l >= i * Page
    /\ d >= 2 + n => l >= n * Page
    /\ \A e \in PassStarts : d = w + e + 1 \/ d = w + e + 2 => p = 0
    /\ \A e \in PassStarts : \A i \in 0 .. n : d = w + e + 4 + i => p = i * Page
    /\ \A i \in 1 .. n : d = u + n + 2 * i => p = r[i - 1] * Page

IozoneInv ==
    cmd.prog = "iozone_test" /\ ~reported =>
        end # "exit" /\ (end = "well" => IozoneAt(Taken, pos, Len(file), recnum))

(* In the last pass the blocks written are what the last read has left.    *)
Written(b, f, v) ==
    \A k \in 1 .. Page : b * Page + k <= Len(f) /\ f[b * Page + k] = v[k]

PassAt(z, n, d, p, v, f, r) ==
    /\ \A i \in 1 .. n : d = z + 2 * i - 1 => p = r[i - 1] * Page
    /\ \A i \in 0 .. n :
           d >= z + 2 * i => \A j \in 0 .. n - 1 : j < i => Written(r[j], f, v)

LastStart(x) ==
    LET n == Blocked(x)
    IN  IF x.prog = "iozone_test" THEN 3 * (2 + n) + 3 * (5 + n) + n + 2 * n + 3
        ELSE n + 2 * (4 + 2 * n) + 4

PassInv ==
    cmd.prog \in {"random_perf_test", "iozone_test"} /\ ~reported /\ end = "well" =>
        PassAt(LastStart(cmd), Blocked(cmd), Taken, pos, buf, file, recnum)

-----------------------------------------------------------------------------
(* Steps of a program *)

Moves ==
    \/ MoveTo \/ Memset \/ ReadBlock \/ WriteBlock \/ StoreMapped \/ LoadMapped
    \/ Sync \/ RemoveFile \/ Divide \/ SwapCards

Back == Writeback /\ UNCHANGED <<program, todo, pos, memory, outcome>>

(* What is left of a script begins with the next step. *)
LEMMA AheadIs ==
    ASSUME NEW x \in Commands
    PROVE  /\ Len(Script(x)) \in Nat
           /\ Ahead(x, 0) = Script(x)
           /\ Ahead(x, Len(Script(x))) = <<>>
           /\ \A d \in 0 .. Len(Script(x)) :
                  /\ Ahead(x, d) \in Seq(Steps) /\ Len(Ahead(x, d)) = Len(Script(x)) - d
                  /\ Ahead(x, d) # <<>> =>
                        /\ d + 1 \in 1 .. Len(Script(x))
                        /\ Head(Ahead(x, d)) = Script(x)[d + 1] /\ Script(x)[d + 1] \in Steps
                        /\ Tail(Ahead(x, d)) = Ahead(x, d + 1)
<1> DEFINE s == Script(x)
<1>1. s \in Seq(Steps)
  BY ScriptType
<1>2. \A d : Ahead(x, d) = SubSeq(s, d + 1, Len(s))
  BY DEF Ahead
<1> HIDE DEF s
<1>3. Len(s) \in Nat
  BY <1>1
<1>4. SubSeq(s, 1, Len(s)) = s
  BY <1>1
<1>5. SubSeq(s, Len(s) + 1, Len(s)) = <<>>
  BY <1>1, <1>3
<1>6. ASSUME NEW d \in 0 .. Len(s)
      PROVE  /\ Ahead(x, d) \in Seq(Steps) /\ Len(Ahead(x, d)) = Len(s) - d
             /\ Ahead(x, d) # <<>> =>
                   /\ d + 1 \in 1 .. Len(s)
                   /\ Head(Ahead(x, d)) = s[d + 1] /\ s[d + 1] \in Steps
                   /\ Tail(Ahead(x, d)) = Ahead(x, d + 1)
  <2> DEFINE t == SubSeq(s, d + 1, Len(s))
  <2>1. Ahead(x, d) = t
    BY <1>2
  <2>2. CASE d = Len(s)
    <3>1. t = <<>>
      BY <1>5, <2>2
    <3> QED
      BY <1>3, <2>1, <2>2, <3>1
  <2>3. CASE d # Len(s)
    <3>1. d \in Nat /\ d + 1 \in 1 .. Len(s) /\ s[d + 1] \in Steps
      BY <1>1, <1>3, <2>3
    <3>2. /\ t \in Seq(Steps) /\ Len(t) = Len(s) - d
          /\ \A k \in 1 .. Len(s) - d : t[k] = s[d + k]
      BY <1>1, <1>3, <3>1
    <3>5. t[1] = s[d + 1] /\ Len(t) > 0
      BY <1>3, <3>1, <3>2
    <3>3. t # <<>> /\ Head(t) = s[d + 1]
      <4> HIDE DEF t
      <4>1. t # <<>>
        BY <3>5, EmptySeq
      <4>2. Head(t) = t[1]
        BY <3>2, <4>1, HeadTailProperties
      <4> QED
        BY <3>5, <4>1, <4>2
    <3>4. Tail(t) = SubSeq(s, d + 1 + 1, Len(s))
      BY <1>1, <1>3, <3>1
    <3> QED
      BY <1>2, <2>1, <3>1, <3>2, <3>3, <3>4
  <2> QED
    BY <2>2, <2>3
<1>7. Ahead(x, 0) = s /\ Ahead(x, Len(s)) = <<>>
  BY <1>2, <1>4, <1>5
<1> QED
  BY <1>3, <1>6, <1>7 DEF s

(* Which action a step is. *)
LEMMA ByOp ==
    ASSUME Moves
    PROVE  /\ todo # <<>>
           /\ step.op \in {"open", "seek", "seekrecord"} => MoveTo
           /\ step.op = "fill" => Memset
           /\ step.op = "read" => ReadBlock
           /\ step.op = "write" => WriteBlock
           /\ step.op = "store" => StoreMapped
           /\ step.op = "load" => LoadMapped
           /\ step.op = "sync" => Sync
           /\ step.op = "unlink" => RemoveFile
           /\ step.op = "divide" => Divide
           /\ step.op = "swap" => SwapCards
<1>1. MoveTo => todo # <<>> /\ step.op \in {"open", "seek", "seekrecord"}
  BY DEF MoveTo, Takes
<1>2. Memset => todo # <<>> /\ step.op = "fill"
  BY DEF Memset, Takes
<1>3. ReadBlock => todo # <<>> /\ step.op = "read"
  BY DEF ReadBlock, Takes
<1>4. WriteBlock => todo # <<>> /\ step.op = "write"
  BY DEF WriteBlock, Takes
<1>5. StoreMapped => todo # <<>> /\ step.op = "store"
  BY DEF StoreMapped, Takes
<1>6. LoadMapped => todo # <<>> /\ step.op = "load"
  BY DEF LoadMapped, Takes
<1>7. Sync => todo # <<>> /\ step.op = "sync"
  BY DEF Sync, Takes
<1>8. RemoveFile => todo # <<>> /\ step.op = "unlink"
  BY DEF RemoveFile, Takes
<1>9. Divide => todo # <<>> /\ step.op = "divide"
  BY DEF Divide, Takes
<1>10. SwapCards => todo # <<>> /\ step.op = "swap"
  BY DEF SwapCards, Takes
<1> QED
  BY <1>1, <1>2, <1>3, <1>4, <1>5, <1>6, <1>7, <1>8, <1>9, <1>10 DEF Moves

(* A step takes the first one off, or ends the program. *)
LEMMA Onward ==
    ASSUME Moves
    PROVE  \/ Goes /\ end' = end
           \/ Dies("SIGBUS") \/ Dies("SIGFPE") \/ Dies("exit")
<1>1. CASE MoveTo
  BY <1>1 DEF MoveTo, outcome
<1>2. CASE Memset
  BY <1>2 DEF Memset, outcome
<1>3. CASE ReadBlock
  BY <1>3 DEF ReadBlock, Checks
<1>4. CASE WriteBlock
  BY <1>4 DEF WriteBlock, Checks
<1>5. CASE StoreMapped
  BY <1>5 DEF StoreMapped
<1>6. CASE LoadMapped
  BY <1>6 DEF LoadMapped
<1>7. CASE Sync
  BY <1>7 DEF Sync, outcome
<1>8. CASE RemoveFile
  BY <1>8 DEF RemoveFile, outcome
<1>9. CASE Divide
  BY <1>9 DEF Divide
<1>10. CASE SwapCards
  BY <1>10 DEF SwapCards, outcome
<1> QED
  BY <1>1, <1>2, <1>3, <1>4, <1>5, <1>6, <1>7, <1>8, <1>9, <1>10 DEF Moves

Continued(x, d) == todo' = Ahead(x, d + 1) /\ Taken' = d + 1 /\ end' = "well"

(* A program that takes a step goes on in its script or is over. *)
LEMMA Forward ==
    ASSUME TypeInv, Underway, Moves
    PROVE  /\ cmd \in Commands /\ end = "well"
           /\ Taken \in Nat /\ Taken + 1 \in 1 .. Len(Script(cmd))
           /\ step = Script(cmd)[Taken + 1] /\ step \in Steps
           /\ cmd' = cmd /\ trusted' = trusted /\ runs' = runs
           /\ \/ Continued(cmd, Taken)
              \/ end' \in {"SIGBUS", "SIGFPE", "exit"} /\ todo' = <<>>
<1> DEFINE d == Taken
<1>1. todo # <<>>
  BY ByOp
<1>2. end = "well" /\ cmd \in Commands
  BY <1>1 DEF TypeInv, Underway
<1>3. d \in 0 .. Len(Script(cmd)) /\ todo = Ahead(cmd, d)
  BY <1>2 DEF Underway
<1> HIDE DEF d
<1>4. /\ Len(Script(cmd)) \in Nat
      /\ d + 1 \in 1 .. Len(Script(cmd))
      /\ Head(todo) = Script(cmd)[d + 1] /\ Script(cmd)[d + 1] \in Steps
      /\ Tail(todo) = Ahead(cmd, d + 1)
      /\ Len(Ahead(cmd, d + 1)) = Len(Script(cmd)) - (d + 1)
  <2> DEFINE x == cmd
             l == Len(Script(x))
  <2>1. /\ l \in Nat
        /\ \A i \in 0 .. l :
               /\ Len(Ahead(x, i)) = l - i
               /\ Ahead(x, i) # <<>> =>
                     /\ i + 1 \in 1 .. l
                     /\ Head(Ahead(x, i)) = Script(x)[i + 1] /\ Script(x)[i + 1] \in Steps
                     /\ Tail(Ahead(x, i)) = Ahead(x, i + 1)
    BY <1>2, AheadIs
  <2>2. todo = Ahead(x, d) /\ d \in 0 .. l
    BY <1>3
  <2> HIDE DEF x, l
  <2>3. /\ d + 1 \in 1 .. l
        /\ Head(todo) = Script(x)[d + 1] /\ Script(x)[d + 1] \in Steps
        /\ Tail(todo) = Ahead(x, d + 1)
    BY <1>1, <2>1, <2>2
  <2>4. d + 1 \in 0 .. l
    BY <2>1, <2>2, <2>3
  <2>5. Len(Ahead(x, d + 1)) = l - (d + 1)
    BY <2>1, <2>4
  <2> QED
    BY <2>1, <2>3, <2>5 DEF x, l
<1>5. d \in Nat
  BY <1>3, <1>4
<1>6. CASE Goes /\ end' = end
  <2>1. cmd' = cmd /\ trusted' = trusted /\ runs' = runs /\ todo' = Ahead(cmd, d + 1)
        /\ end' = "well"
    BY <1>2, <1>4, <1>6 DEF Goes, program
  <2>2. Taken' = Len(Script(cmd')) - Len(todo')
    BY DEF Taken
  <2>3. Taken' = d + 1
    BY <1>4, <1>5, <2>1, <2>2
  <2> QED
    BY <1>2, <1>4, <1>5, <2>1, <2>3 DEF Continued, d, step
<1>7. CASE Dies("SIGBUS") \/ Dies("SIGFPE") \/ Dies("exit")
  <2>1. /\ cmd' = cmd /\ trusted' = trusted /\ runs' = runs
        /\ end' \in {"SIGBUS", "SIGFPE", "exit"} /\ todo' = <<>>
    BY <1>7 DEF Dies, program
  <2> QED
    BY <1>2, <1>4, <1>5, <2>1 DEF d, step
<1> QED
  BY <1>6, <1>7, Onward

(* What a read of n bytes does when it returns them all. *)
Got(n) ==
    /\ pos' = pos + n /\ (n > 0 => pos + n <= Len(file))
    /\ \A k \in 1 .. n : buf'[k] = file[pos + k]

(* A read that does not complain has returned all, and what was wanted.    *)
LEMMA ReadIs ==
    ASSUME TypeInv, ReadBlock, step \in Steps
    PROVE  /\ step.n \in 0 .. EndSize
           /\ buf' \in [1 .. EndSize -> Int] /\ pos' \in Nat
           /\ reported' \in BOOLEAN /\ (~reported' => ~reported)
           /\ file' = file /\ disk' = disk /\ recnum' = recnum /\ short' = short
           /\ ~reported' /\ step.iferr = "report" =>
                  Got(step.n) /\ (step.want # AnyByte => buf'[1] = step.want)
                              /\ (step.want # AnyByte => buf'[step.n] = step.want)
           /\ pos + step.n <= Len(file) => Got(step.n)
           /\ Got(step.n) /\ step.want = AnyByte => end' = end /\ reported' = reported
           /\ end' # "exit" /\ step.iferr = "exit" => Got(step.n)
           /\ Got(step.n)
              /\ (step.want # AnyByte => buf'[1] = step.want /\ buf'[step.n] = step.want) =>
                     end' = end /\ reported' = reported
<1> DEFINE n == step.n
           p == Piece(pos, n)
           bad == step.want # AnyByte /\ {buf'[1], buf'[n]} # {step.want}
           wrong == Len(p) # n \/ bad
<1>1. /\ buf' = Spliced(buf, 0, p) /\ pos' = pos + Len(p)
      /\ Checks(wrong)
      /\ file' = file /\ disk' = disk /\ recnum' = recnum /\ short' = short
      /\ step.op = "read"
  BY DEF ReadBlock, Takes
<1>2. n \in 0 .. EndSize /\ n \in Int
  BY <1>1, StepFields, Constants
<1>3. /\ pos \in Nat /\ file \in Seq(Int) /\ Len(file) \in Nat
      /\ buf \in Seq(Int) /\ Len(buf) = EndSize
      /\ reported \in BOOLEAN /\ EndSize \in Nat
  BY Constants DEF TypeInv
<1> HIDE DEF n
<1>4. /\ p \in Seq(Int) /\ Len(p) <= n /\ Len(p) \in Nat
      /\ pos + n <= Len(file) => Len(p) = n
      /\ \A k \in 1 .. Len(p) : pos + k <= Len(file) /\ p[k] = file[pos + k]
  <2>1. /\ p \in Seq(Int)
        /\ n >= 0 => Len(p) <= n
        /\ n >= 0 /\ pos + n <= Len(file) => Len(p) = n
        /\ \A k \in 1 .. Len(p) : pos + k <= Len(file) /\ pos + k <= pos + n
        /\ \A k \in 1 .. Len(p) : p[k] = file[pos + k]
    BY <1>2, <1>3, PieceIs
  <2> HIDE DEF p
  <2>2. Len(p) \in Nat
    BY <2>1
  <2> QED
    BY <1>2, <2>1, <2>2
<1> HIDE DEF p
<1>5. /\ buf' \in Seq(Int) /\ Len(buf') = EndSize
      /\ \A k \in 1 .. Len(p) : buf'[k] = p[k]
  <2>1. 0 \in Nat /\ 0 + Len(p) <= Len(buf)
    BY <1>2, <1>3, <1>4
  <2>2. /\ Spliced(buf, 0, p) \in Seq(Int)
        /\ Len(Spliced(buf, 0, p)) = Len(buf)
        /\ \A k \in 1 .. Len(p) : Spliced(buf, 0, p)[0 + k] = p[k]
    BY <1>3, <1>4, <2>1, SplicedIs
  <2>3. \A k \in 1 .. Len(p) : 0 + k = k
    BY <1>4
  <2> QED
    BY <1>1, <1>3, <2>2, <2>3
<1>6. (Len(p) = n => Got(n)) /\ (Got(n) => Len(p) = n)
  <2>1. CASE Len(p) = n
    <3>1. \A k \in 1 .. n : buf'[k] = file[pos + k]
      BY <1>4, <1>5, <2>1
    <3>2. n > 0 => pos + n <= Len(file)
      BY <1>2, <1>4, <2>1
    <3> QED
      BY <1>1, <2>1, <3>1, <3>2 DEF Got
  <2>2. CASE Got(n)
    BY <1>1, <1>2, <1>3, <1>4, <2>2 DEF Got
  <2> QED
    BY <2>1, <2>2
<1>7. reported' = (reported \/ (wrong /\ step.iferr = "report"))
      /\ (wrong /\ step.iferr = "exit" => end' = "exit")
      /\ (~(wrong /\ step.iferr = "exit") => end' = end)
  <2> HIDE DEF wrong
  <2> QED
    BY <1>1 DEF Checks, Dies
<1>8. ~wrong <=> (Got(n) /\ ~bad)
  <2> HIDE DEF bad
  <2> QED
    BY <1>6
<1>9. ~bad <=> (step.want # AnyByte => buf'[1] = step.want /\ buf'[n] = step.want)
  BY SMT
<1> HIDE DEF wrong, bad
<1>10. buf' \in [1 .. EndSize -> Int] /\ pos' \in Nat
  BY <1>1, <1>3, <1>4, <1>5
<1>11. pos + n <= Len(file) => Got(n)
  BY <1>4, <1>6
<1>12. reported' \in BOOLEAN /\ (~reported' => ~reported)
  BY <1>3, <1>7
<1>13. ~reported' /\ step.iferr = "report" =>
           Got(n) /\ (step.want # AnyByte => buf'[1] = step.want)
                  /\ (step.want # AnyByte => buf'[n] = step.want)
  BY <1>7, <1>8, <1>9
<1>14. Got(n) /\ step.want = AnyByte => end' = end /\ reported' = reported
  BY <1>3, <1>7, <1>8, <1>9
<1>15. end' # "exit" /\ step.iferr = "exit" => Got(n)
  BY <1>7, <1>8
<1>16. Got(n) /\ (step.want # AnyByte => buf'[1] = step.want /\ buf'[n] = step.want) =>
           end' = end /\ reported' = reported
  BY <1>3, <1>7, <1>8, <1>9
<1> QED
  BY <1>1, <1>2, <1>10, <1>11, <1>12, <1>13, <1>14, <1>15, <1>16 DEF n

(* What a write of n bytes does when it writes them all. *)
Put(n) ==
    /\ pos' = pos + n /\ (n > 0 => Len(file') >= pos + n)
    /\ \A k \in 1 .. n : file'[pos + k] = buf[k]
    /\ \A k \in 1 .. Len(file) : k <= pos \/ k > pos + n => file'[k] = file[k]

(* A write that is not short, or does not complain, has written all; no    *)
(* write makes the file shorter, or changes it before the offset.          *)
LEMMA WriteIs ==
    ASSUME TypeInv, WriteBlock, step \in Steps
    PROVE  /\ step.n \in 0 .. EndSize
           /\ file' \in Seq(Int) /\ pos' \in Nat /\ Len(file') >= Len(file)
           /\ reported' \in BOOLEAN /\ (~reported' => ~reported)
           /\ short' \in BOOLEAN /\ (~short' => ~short)
           /\ disk' = disk /\ buf' = buf /\ recnum' = recnum
           /\ \A k \in 1 .. Len(file) : k <= pos => file'[k] = file[k]
           /\ ~short' => Put(step.n)
           /\ ~reported' /\ step.iferr = "report" => Put(step.n)
           /\ step.iferr # "exit" => end' = end
<1> DEFINE n == step.n
<1>1. PICK ret \in 0 .. n :
          /\ file' = Spliced(file, pos, SubSeq(buf, 1, ret))
          /\ pos' = pos + ret
          /\ short' = (short \/ ret # n)
          /\ Checks(ret # n)
  BY DEF WriteBlock
<1>2. disk' = disk /\ buf' = buf /\ recnum' = recnum /\ step.op = "write"
  BY DEF WriteBlock, Takes, memory
<1>3. n \in 0 .. EndSize /\ ret \in Nat /\ ret <= EndSize
  BY <1>1, <1>2, StepFields, Constants
<1>4. /\ pos \in Nat /\ file \in Seq(Int) /\ Len(file) \in Nat
      /\ buf \in Seq(Int) /\ Len(buf) = EndSize
      /\ reported \in BOOLEAN /\ short \in BOOLEAN /\ EndSize \in Nat
  BY Constants DEF TypeInv
<1> HIDE DEF n
<1> DEFINE t == SubSeq(buf, 1, ret)
<1>5. t \in Seq(Int) /\ Len(t) = ret /\ \A k \in 1 .. ret : t[k] = buf[k]
  BY <1>3, <1>4
<1> HIDE DEF t
<1>6. /\ file' \in Seq(Int)
      /\ Len(file') >= Len(file)
      /\ Len(t) > 0 => Len(file') >= pos + Len(t)
      /\ \A k \in 1 .. Len(t) : file'[pos + k] = t[k]
      /\ \A k \in 1 .. Len(file) : k <= pos \/ k > pos + Len(t) => file'[k] = file[k]
  <2>1. file' = Spliced(file, pos, t)
    BY <1>1 DEF t
  <2>2. /\ Spliced(file, pos, t) \in Seq(Int)
        /\ Len(Spliced(file, pos, t)) >= Len(file)
        /\ Len(t) > 0 => Len(Spliced(file, pos, t)) >= pos + Len(t)
        /\ \A k \in 1 .. Len(t) : Spliced(file, pos, t)[pos + k] = t[k]
        /\ \A k \in 1 .. Len(file) :
               k <= pos \/ k > pos + Len(t) => Spliced(file, pos, t)[k] = file[k]
    BY <1>4, <1>5, SplicedIs
  <2> QED
    BY <2>1, <2>2
<1>7. ret = n => Put(n)
  BY <1>1, <1>5, <1>6 DEF Put
<1>8. /\ reported' = (reported \/ (ret # n /\ step.iferr = "report"))
      /\ (step.iferr # "exit" => end' = end)
  BY <1>1 DEF Checks
<1>9. pos' \in Nat
  BY <1>1, <1>3, <1>4
<1>10. /\ reported' \in BOOLEAN /\ (~reported' => ~reported)
       /\ short' \in BOOLEAN /\ (~short' => ~short)
       /\ (~short' => ret = n)
       /\ (~reported' /\ step.iferr = "report" => ret = n)
  BY <1>1, <1>4, <1>8
<1>11. \A k \in 1 .. Len(file) : k <= pos => file'[k] = file[k]
  BY <1>6
<1> QED
  BY <1>2, <1>3, <1>6, <1>7, <1>8, <1>9, <1>10, <1>11 DEF n

(* A program starts at the beginning of its script and of the file. *)
LEMMA RunIs ==
    ASSUME NEW x \in Commands, Run(x)
    PROVE  /\ cmd' = x /\ todo = <<>> /\ todo' = Script(x) /\ Taken' = 0 /\ runs' = runs + 1
           /\ pos' = 0 /\ end' = "well" /\ reported' = FALSE /\ short' = FALSE
           /\ file' = file /\ disk' = disk
           /\ buf' \in [1 .. EndSize -> Int]
           /\ recnum' = [i \in 0 .. MaxFile |-> i]
           /\ trusted' = IF end = "well" /\ ~reported /\ cmd.prog \in Writers THEN cmd
                         ELSE NoCommand
<1>1. /\ cmd' = x /\ todo = <<>> /\ todo' = Script(x) /\ runs' = runs + 1
      /\ pos' = 0 /\ end' = "well" /\ reported' = FALSE /\ short' = FALSE
      /\ file' = file /\ disk' = disk
      /\ buf' = [k \in 1 .. EndSize |-> 0]
      /\ recnum' = [i \in 0 .. MaxFile |-> i]
      /\ trusted' = IF end = "well" /\ ~reported /\ cmd.prog \in Writers THEN cmd
                    ELSE NoCommand
  BY DEF Run
<1>2. Taken' = Len(Script(x)) - Len(Script(x))
  BY <1>1 DEF Taken
<1>3. Len(Script(x)) \in Nat
  BY AheadIs
<1>4. buf' \in [1 .. EndSize -> Int]
  BY <1>1
<1> QED
  BY <1>1, <1>2, <1>3, <1>4

(* The kernel writes a page back. *)
LEMMA BackIs ==
    ASSUME TypeInv, Back
    PROVE  /\ file' = file /\ cmd' = cmd /\ trusted' = trusted /\ runs' = runs
           /\ todo' = todo /\ Taken' = Taken
           /\ pos' = pos /\ buf' = buf /\ recnum' = recnum
           /\ reported' = reported /\ end' = end /\ short' = short
           /\ \E lo \in Nat, hi \in Nat : disk' = Flushed(lo, hi)
<1>1. /\ file' = file /\ cmd' = cmd /\ trusted' = trusted /\ runs' = runs
      /\ todo' = todo
      /\ pos' = pos /\ buf' = buf /\ recnum' = recnum
      /\ reported' = reported /\ end' = end /\ short' = short
  BY DEF Back, Writeback, program, memory, outcome
<1>2. Taken' = Taken
  BY <1>1 DEF Taken
<1>3. PICK p \in 0 .. Len(file) \div Page : disk' = Flushed(p * Page, (p + 1) * Page)
  BY DEF Back, Writeback
<1>4. Len(file) \in Nat /\ Page \in Nat /\ Page > 0
  BY Constants DEF TypeInv
<1>5. Len(file) \div Page \in Nat
  BY <1>4, Divided
<1>6. p \in Nat
  BY <1>5
<1>7. p * Page \in Nat /\ (p + 1) * Page \in Nat
  BY <1>4, <1>6
<1> QED
  BY <1>1, <1>2, <1>3, <1>7

(* A crash ends the program and leaves what survives. *)
LEMMA CrashIs ==
    ASSUME Crash
    PROVE  /\ file' = disk /\ disk' = disk /\ cmd' = cmd /\ trusted' = trusted
           /\ runs' = runs /\ runs > 0
           /\ todo' = <<>> /\ end' = "crash"
           /\ pos' = pos /\ buf' = buf /\ recnum' = recnum
           /\ reported' = reported /\ short' = short
BY DEF Crash, Lost, program, memory

(* Nothing changes. *)
LEMMA StutterIs ==
    ASSUME UNCHANGED vars
    PROVE  /\ file' = file /\ disk' = disk /\ cmd' = cmd /\ trusted' = trusted /\ runs' = runs
           /\ todo' = todo /\ Taken' = Taken
           /\ pos' = pos /\ buf' = buf /\ recnum' = recnum
           /\ reported' = reported /\ end' = end /\ short' = short
<1>1. /\ file' = file /\ disk' = disk /\ cmd' = cmd /\ trusted' = trusted /\ runs' = runs
      /\ todo' = todo
      /\ pos' = pos /\ buf' = buf /\ recnum' = recnum
      /\ reported' = reported /\ end' = end /\ short' = short
  BY DEF vars, program, memory, outcome
<1> QED
  BY <1>1 DEF Taken

(* Every step is one of these. *)
LEMMA Alternatives ==
    ASSUME [Next]_vars
    PROVE  (\E x \in Commands : Run(x)) \/ Moves \/ Back \/ Crash \/ UNCHANGED vars
<1>1. ASSUME Next PROVE (\E x \in Commands : Run(x)) \/ Moves \/ Back \/ Crash
  <2> HIDE DEF vars
  <2> QED
    BY <1>1 DEF Next, Moves, Back
<1> QED
  BY <1>1

(* A step that is not a read or a write leaves the offset, or moves it. *)
LEMMA MovedIs ==
    ASSUME TypeInv, MoveTo, step \in Steps
    PROVE  /\ pos' \in Nat
           /\ step.op = "open" => pos' = 0
           /\ step.op = "seek" => pos' = step.at
           /\ step.op = "seekrecord" => pos' = recnum[step.i] * Page
           /\ file' = file /\ disk' = disk /\ buf' = buf /\ recnum' = recnum
           /\ reported' = reported /\ end' = end /\ short' = short
<1>1. /\ file' = file /\ disk' = disk /\ buf' = buf /\ recnum' = recnum
      /\ reported' = reported /\ end' = end /\ short' = short
  BY DEF MoveTo, memory, outcome
<1>2. /\ step.op \in {"open", "seek", "seekrecord"}
      /\ step.op = "open" => pos' = 0
      /\ step.op = "seek" => pos' = step.at
      /\ step.op = "seekrecord" => pos' = recnum[step.i] * Page
  BY DEF MoveTo, Takes
<1>3. /\ step.op = "seek" => step.at \in Nat
      /\ step.op = "seekrecord" => step.i \in 0 .. MaxFile
  BY StepFields
<1>4. step.op = "seekrecord" => recnum[step.i] * Page \in Nat
  <2>1. step.op = "seekrecord" => recnum[step.i] \in Nat
    BY <1>3, Constants DEF TypeInv
  <2> QED
    BY <2>1, Constants
<1> QED
  BY <1>1, <1>2, <1>3, <1>4

(* The variables keep their types. *)
LEMMA TypeKept ==
    ASSUME TypeInv, Underway, [Next]_vars
    PROVE  TypeInv'
<1> USE DEF TypeInv
<1>1. ASSUME NEW x \in Commands, Run(x) PROVE TypeInv'
  <2>5. /\ cmd' = x /\ runs' = runs + 1 /\ pos' = 0 /\ file' = file /\ disk' = disk
        /\ trusted' = cmd \/ trusted' = NoCommand
        /\ buf' \in [1 .. EndSize -> Int] /\ recnum' = [i \in 0 .. MaxFile |-> i]
        /\ end' = "well" /\ reported' = FALSE /\ short' = FALSE
    BY <1>1, RunIs
  <2>1. recnum' \in [0 .. MaxFile -> 0 .. MaxFile]
    BY <2>5
  <2>2. /\ cmd' \in Commands \cup {NoCommand} /\ trusted' \in Commands \cup {NoCommand}
        /\ runs' \in Nat
    BY <2>5
  <2>3. /\ file' \in Seq(Int) /\ disk' \in Seq(Int) /\ pos' \in Nat
        /\ buf' \in [1 .. EndSize -> Int]
    BY <2>5
  <2>4. reported' \in BOOLEAN /\ short' \in BOOLEAN /\ end' = "well"
    BY <2>5
  <2> QED
    BY <2>1, <2>2, <2>3, <2>4
<1>2. CASE Moves
  <2>1. /\ cmd' \in Commands /\ trusted' = trusted /\ runs' = runs /\ step \in Steps
        /\ end' \in {"well", "SIGBUS", "SIGFPE", "exit"}
    BY <1>2, Forward DEF Continued
  <2>2. CASE MoveTo
    BY <2>1, <2>2, MovedIs
  <2>3. CASE Memset
    <3>1. /\ buf' = [k \in DOMAIN buf |-> IF k <= step.n THEN step.c ELSE buf[k]]
          /\ step.op = "fill"
          /\ UNCHANGED <<file, disk, pos, recnum>> /\ reported' = reported /\ short' = short
      BY <2>3 DEF Memset, Takes, outcome
    <3>2. step.c \in Int
      BY <2>1, <3>1, StepFields
    <3>3. buf' \in [1 .. EndSize -> Int]
      BY <3>1, <3>2
    <3> QED
      BY <2>1, <3>1, <3>3
  <2>4. CASE ReadBlock
    BY <2>1, <2>4, ReadIs
  <2>5. CASE WriteBlock
    BY <2>1, <2>5, WriteIs
  <2>6. CASE StoreMapped
    <3>1. /\ file' = Stored(step.at, Least(step.n, step.limit - step.at), step.c)
          /\ step.op = "store"
          /\ UNCHANGED <<disk, pos, buf, recnum>> /\ reported' = reported /\ short' = short
      BY <2>6 DEF StoreMapped, Takes, memory
    <3>2. step.at \in Nat /\ step.n \in Nat /\ step.c \in Int /\ step.limit \in Nat
      BY <2>1, <3>1, StepFields
    <3>3. Least(step.n, step.limit - step.at) \in Int
      BY <3>2 DEF Least
    <3>4. file' \in Seq(Int)
      BY <3>1, <3>2, <3>3, StoredIs
    <3> QED
      BY <2>1, <3>1, <3>4
  <2>7. CASE LoadMapped
    BY <2>1, <2>7 DEF LoadMapped, memory
  <2>8. CASE Sync
    <3>1. /\ disk' = Flushed(step.lo, step.hi) /\ step.op = "sync"
          /\ UNCHANGED <<file, pos, buf, recnum>> /\ reported' = reported /\ short' = short
      BY <2>8 DEF Sync, Takes, memory, outcome
    <3>2. step.lo \in Nat /\ step.hi \in Nat
      BY <2>1, <3>1, StepFields
    <3>3. disk' \in Seq(Int)
      BY <3>1, <3>2, FlushedIs
    <3> QED
      BY <2>1, <3>1, <3>3
  <2>9. CASE RemoveFile
    BY <2>1, <2>9 DEF RemoveFile, memory, outcome
  <2>10. CASE Divide
    BY <2>1, <2>10 DEF Divide, memory
  <2>11. CASE SwapCards
    <3>1. PICK big_rand \in 0 .. step.n - 1 :
              /\ recnum' = [recnum EXCEPT ![step.i] = recnum[big_rand],
                                          ![big_rand] = recnum[step.i]]
              /\ step.op = "swap"
              /\ UNCHANGED <<file, disk, pos, buf>> /\ reported' = reported /\ short' = short
      BY <2>11 DEF SwapCards, Takes, outcome
    <3>2. step.i \in 0 .. MaxFile /\ step.n \in 1 .. MaxFile + 1
      BY <2>1, <3>1, StepFields
    <3>3. big_rand \in 0 .. MaxFile
      <4>1. step.n \in Int /\ step.n <= MaxFile + 1 /\ MaxFile \in Nat
        BY <3>2, Constants
      <4>2. big_rand \in Int /\ 0 <= big_rand /\ big_rand <= step.n - 1
        BY <4>1
      <4> QED
        BY <4>1, <4>2
    <3>4. recnum' \in [0 .. MaxFile -> 0 .. MaxFile]
      BY <3>1, <3>2, <3>3
    <3> QED
      BY <2>1, <3>1, <3>4
  <2> QED
    BY <1>2, <2>2, <2>3, <2>4, <2>5, <2>6, <2>7, <2>8, <2>9, <2>10, <2>11 DEF Moves
<1>3. CASE Back
  <2>1. PICK lo \in Nat, hi \in Nat : disk' = Flushed(lo, hi)
    BY <1>3, BackIs
  <2>2. disk' \in Seq(Int)
    BY <2>1, FlushedIs
  <2> QED
    BY <1>3, <2>2, BackIs
<1>4. CASE Crash
  BY <1>4, CrashIs
<1>5. CASE UNCHANGED vars
  BY <1>5, StutterIs
<1> QED
  BY <1>1, <1>2, <1>3, <1>4, <1>5, Alternatives

(* A program that is not over is somewhere in its script. *)
LEMMA UnderwayKept ==
    ASSUME TypeInv, Underway, [Next]_vars
    PROVE  Underway'
<1>1. ASSUME NEW x \in Commands, Run(x) PROVE Underway'
  <2>1. /\ cmd' = x /\ todo' = Ahead(x, 0) /\ Taken' = 0 /\ end' = "well"
        /\ Len(Script(x)) \in Nat /\ x # NoCommand
    BY <1>1, RunIs, AheadIs, CommandFields
  <2> QED
    BY <2>1 DEF Underway
<1>2. CASE Moves
  <2>1. /\ cmd \in Commands /\ cmd' = cmd /\ cmd # NoCommand
        /\ Taken + 1 \in 1 .. Len(Script(cmd))
        /\ \/ Continued(cmd, Taken)
           \/ end' \in {"SIGBUS", "SIGFPE", "exit"} /\ todo' = <<>>
    BY <1>2, Forward, CommandFields
  <2>2. CASE Continued(cmd, Taken)
    BY <2>1, <2>2 DEF Underway, Continued
  <2>3. CASE end' \in {"SIGBUS", "SIGFPE", "exit"} /\ todo' = <<>>
    BY <2>1, <2>3 DEF Underway
  <2> QED
    BY <2>1, <2>2, <2>3
<1>3. CASE Back
  BY <1>3, BackIs DEF Underway
<1>4. CASE Crash
  <2>1. cmd' = cmd /\ todo' = <<>> /\ end' = "crash" /\ runs > 0
    BY <1>4, CrashIs
  <2> QED
    BY <2>1 DEF Underway
<1>5. CASE UNCHANGED vars
  BY <1>5, StutterIs DEF Underway
<1> QED
  BY <1>1, <1>2, <1>3, <1>4, <1>5, Alternatives

Base == TypeInv /\ Underway

(* Both hold in the beginning. *)
LEMMA BaseInit == Init => Base
<1> SUFFICES ASSUME Init PROVE Base
  OBVIOUS
<1>1. NoCommand \notin Commands
  BY CommandFields
<1>2. /\ file = <<>> /\ disk = <<>> /\ cmd = NoCommand /\ trusted = NoCommand /\ runs = 0
      /\ todo = <<>> /\ pos = 0 /\ buf = [k \in 1 .. EndSize |-> 0]
      /\ recnum = [i \in 0 .. MaxFile |-> i]
      /\ reported = FALSE /\ end = "well" /\ short = FALSE
  BY DEF Init
<1>3. buf \in [1 .. EndSize -> Int] /\ recnum \in [0 .. MaxFile -> 0 .. MaxFile]
  BY <1>2
<1>4. TypeInv
  <2>1. file \in Seq(Int) /\ disk \in Seq(Int) /\ pos \in Nat /\ runs \in Nat
    BY <1>2
  <2> QED
    BY <1>2, <1>3, <2>1 DEF TypeInv
<1>5. Underway
  BY <1>1, <1>2 DEF Underway
<1> QED
  BY <1>4, <1>5 DEF Base

(* The variables have their types, whatever is run: offsets are not        *)
(* negative, the buffer keeps its size although reads go into it, and a    *)
(* swap finds both its blocks.                                             *)
THEOREM TypeCorrect == Spec => []TypeInv
<1>1. Base /\ [Next]_vars => Base'
  BY TypeKept, UnderwayKept DEF Base
<1>2. Base => TypeInv
  BY DEF Base
<1> QED
  BY <1>1, <1>2, BaseInit, PTL DEF Spec

LEMMA BaseInvariant == Spec => []Base
<1>1. Base /\ [Next]_vars => Base'
  BY TypeKept, UnderwayKept DEF Base
<1> QED
  BY <1>1, BaseInit, PTL DEF Spec

(* No step takes back a short write or an error message. *)
LEMMA NotTakenBack ==
    ASSUME TypeInv, Underway, Moves
    PROVE  (~short' => ~short) /\ (~reported' => ~reported)
<1>1. step \in Steps
  BY Forward
<1>2. CASE MoveTo
  BY <1>1, <1>2, MovedIs
<1>3. CASE ReadBlock
  BY <1>1, <1>3, ReadIs
<1>4. CASE WriteBlock
  BY <1>1, <1>4, WriteIs
<1>5. CASE Memset \/ Sync \/ RemoveFile \/ SwapCards
  BY <1>5 DEF Memset, Sync, RemoveFile, SwapCards, outcome
<1>6. CASE StoreMapped \/ LoadMapped \/ Divide
  BY <1>6 DEF StoreMapped, LoadMapped, Divide
<1> QED
  BY <1>2, <1>3, <1>4, <1>5, <1>6 DEF Moves

(* A memset, a division and a sync change nothing else. *)
LEMMA OthersAre ==
    ASSUME TypeInv
    PROVE  /\ Memset =>
                  /\ \A k \in 1 .. EndSize : buf'[k] = IF k <= step.n THEN step.c ELSE buf[k]
                  /\ file' = file /\ disk' = disk /\ pos' = pos /\ recnum' = recnum
                  /\ reported' = reported /\ short' = short
           /\ Divide =>
                  /\ file' = file /\ disk' = disk /\ pos' = pos /\ buf' = buf
                  /\ recnum' = recnum /\ reported' = reported /\ short' = short
                  /\ end' # end => end' = "SIGFPE"
           /\ Sync =>
                  /\ disk' = Flushed(step.lo, step.hi)
                  /\ file' = file /\ pos' = pos /\ buf' = buf /\ recnum' = recnum
                  /\ reported' = reported /\ short' = short
<1>1. ASSUME Memset
      PROVE  /\ \A k \in 1 .. EndSize : buf'[k] = IF k <= step.n THEN step.c ELSE buf[k]
             /\ file' = file /\ disk' = disk /\ pos' = pos /\ recnum' = recnum
             /\ reported' = reported /\ short' = short
  BY <1>1 DEF Memset, outcome, TypeInv
<1>2. ASSUME Divide
      PROVE  /\ file' = file /\ disk' = disk /\ pos' = pos /\ buf' = buf
             /\ recnum' = recnum /\ reported' = reported /\ short' = short
             /\ end' # end => end' = "SIGFPE"
  BY <1>2 DEF Divide, Dies, memory
<1>3. ASSUME Sync
      PROVE  /\ disk' = Flushed(step.lo, step.hi)
             /\ file' = file /\ pos' = pos /\ buf' = buf /\ recnum' = recnum
             /\ reported' = reported /\ short' = short
  BY <1>3 DEF Sync, memory, outcome
<1> QED
  BY <1>1, <1>2, <1>3

-----------------------------------------------------------------------------
(* What latency_write and mmap_write have synced survives *)

(* Writing back does not lose what is there already, *)
LEMMA HoldsBack ==
    ASSUME file \in Seq(Int), disk \in Seq(Int), NEW lo \in Nat, NEW hi \in Nat,
           NEW m \in Int, NEW c, Holds(file, m, c), Holds(disk, m, c)
    PROVE  Holds(Flushed(lo, hi), m, c)
<1> DEFINE d == Flushed(lo, hi)
<1>1. /\ d \in Seq(Int) /\ Len(d) >= Len(disk)
      /\ \A k \in 1 .. Len(disk) : d[k] = disk[k] \/ (k <= Len(file) /\ d[k] = file[k])
  BY FlushedIs
<1> HIDE DEF d
<1>2. Len(disk) \in Nat /\ Len(d) \in Nat
  BY <1>1
<1>3. ASSUME NEW k \in 1 .. m PROVE k <= Len(d) /\ d[k] = c
  <2>1. k \in 1 .. Len(disk) /\ k <= Len(disk) /\ disk[k] = c /\ file[k] = c
    BY <1>2 DEF Holds
  <2>2. d[k] = disk[k] \/ (k <= Len(file) /\ d[k] = file[k])
    BY <1>1, <2>1
  <2>3. k <= Len(d)
    BY <1>1, <1>2, <2>1
  <2> QED
    BY <2>1, <2>2, <2>3
<1> QED
  BY <1>3 DEF Holds, d

(* and a sync of the whole file saves it. *)
LEMMA HoldsSynced ==
    ASSUME file \in Seq(Int), disk \in Seq(Int), NEW hi \in Nat,
           NEW m \in Int, m <= hi, NEW c, Holds(file, m, c)
    PROVE  Holds(Flushed(0, hi), m, c)
<1> DEFINE d == Flushed(0, hi)
<1>0. 0 \in Nat
  OBVIOUS
<1>1. \A k \in 1 .. Len(file) : 0 < k /\ k <= hi => k <= Len(d) /\ d[k] = file[k]
  BY <1>0, FlushedIs
<1> HIDE DEF d
<1>2. ASSUME NEW k \in 1 .. m PROVE k <= Len(d) /\ d[k] = c
  <2>1. k <= Len(file) /\ file[k] = c
    BY DEF Holds
  <2>2. k \in 1 .. Len(file) /\ 0 < k /\ k <= hi
    BY <2>1
  <2> QED
    BY <1>1, <2>1, <2>2
<1> QED
  BY <1>2 DEF Holds, d

(* A step of latency_write keeps what its place says. *)
LEMMA LatencyStep ==
    ASSUME TypeInv, Underway, LatencyInv, Moves, cmd.prog = "latency_write", ~short'
    PROVE  /\ Holds(file', pos' - Size(cmd), cmd.c) /\ Holds(disk', pos' - Size(cmd), cmd.c)
           /\ LatencyAt(cmd, Taken + 1, pos', buf', file', disk')
<1> DEFINE x == cmd
           S == Size(x)
           n == Count(x)
           d == Taken
           Goal == /\ Holds(file', pos' - S, x.c) /\ Holds(disk', pos' - S, x.c)
                   /\ LatencyAt(x, d + 1, pos', buf', file', disk')
<1> SUFFICES Goal
  OBVIOUS
<1>1. /\ x \in Commands /\ end = "well" /\ step \in Steps /\ ~short
      /\ d \in Nat /\ d + 1 \in 1 .. Len(LatencyWrite(x)) /\ step = LatencyWrite(x)[d + 1]
  BY Forward, NotTakenBack, ScriptOf
<1>2. /\ S \in 0 .. EndSize /\ S \in Nat /\ n \in Nat /\ n * S \in Nat /\ n * S <= MaxFile
      /\ x.c \in Int /\ EndSize \in Nat /\ MaxFile \in Nat
  <2>1. /\ S \in 0 .. EndSize /\ FileSize(x) \in Page .. MaxFile /\ n \in Nat
        /\ n * S \in Nat /\ n * S <= FileSize(x)
    BY <1>1, SizeFacts
  <2>2. x.c \in 1 .. 126
    BY <1>1, CommandFields
  <2>3. EndSize \in Nat /\ MaxFile \in Nat /\ Page \in Nat
    BY Constants
  <2> HIDE DEF S, n
  <2> QED
    BY <2>1, <2>2, <2>3
<1>3. /\ Holds(file, pos - S, x.c) /\ Holds(disk, pos - S, x.c)
      /\ LatencyAt(x, d, pos, buf, file, disk)
  BY <1>1 DEF LatencyInv
<1>4. /\ Len(LatencyWrite(x)) = 4 + 2 * n
      /\ LatencyWrite(x)[1] = Open /\ LatencyWrite(x)[2] = Fill(x.c, S)
      /\ LatencyWrite(x)[3] = DivideBy(S)
      /\ \A i \in 1 .. n : LatencyWrite(x)[2 * i + 2] = Write(S, "report")
                           /\ LatencyWrite(x)[2 * i + 3] = Fsync
      /\ LatencyWrite(x)[4 + 2 * n] = DivideBy(n)
  BY <1>1, LatencyWriteScript
<1>5. file \in Seq(Int) /\ disk \in Seq(Int) /\ pos \in Nat
  BY DEF TypeInv
<1>6. d + 1 \in 1 .. 4 + 2 * n
  BY <1>1, <1>4
<1> HIDE DEF x, S, n, d
<1>7. CASE d = 0
  <2>1. step = Open
    BY <1>1, <1>4, <1>7
  <2>2. pos' = 0 /\ file' = file /\ disk' = disk
    BY <1>1, <2>1, ByOp, MovedIs DEF Open
  <2>3. LatencyAt(x, d + 1, pos', buf', file', disk')
    BY <1>2, <1>7, <2>2 DEF LatencyAt, S, n
  <2> QED
    BY <1>2, <2>2, <2>3 DEF Holds
<1>8. CASE d = 1
  <2>1. step = Fill(x.c, S)
    BY <1>1, <1>4, <1>8
  <2>2. /\ \A k \in 1 .. EndSize : buf'[k] = IF k <= S THEN x.c ELSE buf[k]
        /\ pos' = pos /\ file' = file /\ disk' = disk
    BY <1>1, <2>1, ByOp, OthersAre DEF Fill
  <2>3. pos = 0
    BY <1>3, <1>8 DEF LatencyAt
  <2>4. \A k \in 1 .. S : buf'[k] = x.c
    BY <1>2, <2>2
  <2>5. LatencyAt(x, d + 1, pos', buf', file', disk')
    BY <1>2, <1>8, <2>2, <2>3, <2>4 DEF LatencyAt, S, n
  <2> QED
    BY <1>2, <2>2, <2>3, <2>5 DEF Holds
<1>9. CASE d = 2
  <2>1. step = DivideBy(S)
    BY <1>1, <1>4, <1>9
  <2>2. buf' = buf /\ pos' = pos /\ file' = file /\ disk' = disk
    BY <1>1, <2>1, ByOp, OthersAre DEF DivideBy
  <2>3. pos = 0 /\ \A k \in 1 .. S : buf[k] = x.c
    BY <1>3, <1>9 DEF LatencyAt, S
  <2>4. Holds(file, 0 * S, x.c) /\ Holds(disk, 0 * S, x.c) /\ 0 * S = 0
    BY <1>2 DEF Holds
  <2>5. \A i \in 0 .. n : d + 1 = 3 + 2 * i => i = 0
    BY <1>2, <1>9
  <2>6. LatencyAt(x, d + 1, pos', buf', file', disk')
    BY <1>2, <1>9, <2>2, <2>3, <2>4, <2>5 DEF LatencyAt, S, n
  <2> QED
    BY <1>2, <2>2, <2>3, <2>6 DEF Holds
<1>10. ASSUME NEW i \in 1 .. n, d + 1 = 2 * i + 2
       PROVE  Goal
  <2>1. step = Write(S, "report")
    BY <1>1, <1>4, <1>10
  <2>2. /\ Put(S) /\ disk' = disk /\ buf' = buf /\ file' \in Seq(Int) /\ pos' \in Nat
        /\ Len(file') >= Len(file)
        /\ \A k \in 1 .. Len(file) : k <= pos => file'[k] = file[k]
    BY <1>1, <2>1, ByOp, WriteIs DEF Write
  <2>3. i - 1 \in 0 .. n /\ d = 3 + 2 * (i - 1) /\ d >= 2
    BY <1>1, <1>2, <1>10
  <2>4. /\ pos = (i - 1) * S
        /\ Holds(file, (i - 1) * S, x.c) /\ Holds(disk, (i - 1) * S, x.c)
        /\ \A k \in 1 .. S : buf[k] = x.c
    BY <1>3, <2>3 DEF LatencyAt, S, n
  <2>5. (i - 1) * S \in Nat /\ i * S \in Nat /\ (i - 1) * S + S = i * S
    BY <1>2, Blocks
  <2> DEFINE p == (i - 1) * S
             q == i * S
  <2>6. p \in Nat /\ q = p + S /\ pos = p /\ Holds(file, p, x.c) /\ Holds(disk, p, x.c)
    BY <2>4, <2>5
  <2> HIDE DEF p, q
  <2>7. pos' = q /\ Holds(file', q, x.c)
    <3>1. pos' = q
      BY <2>2, <2>6 DEF Put
    <3>2. ASSUME NEW k \in 1 .. q PROVE k <= Len(file') /\ file'[k] = x.c
      <4>1. Len(file) \in Nat /\ Len(file') \in Nat
        BY <1>5, <2>2
      <4>2. CASE k <= p
        <5>1. k \in 1 .. p /\ k <= Len(file) /\ file[k] = x.c
          BY <2>6, <4>2 DEF Holds
        <5> QED
          BY <2>2, <2>6, <4>1, <5>1
      <4>3. CASE k > p
        <5>1. k - p \in 1 .. S /\ pos + (k - p) = k /\ S > 0
          BY <1>2, <2>6, <4>3
        <5>2. file'[pos + (k - p)] = buf[k - p] /\ Len(file') >= pos + S
          BY <2>2, <5>1 DEF Put
        <5>3. buf[k - p] = x.c
          BY <2>4, <5>1
        <5> QED
          BY <1>2, <2>6, <4>1, <5>1, <5>2, <5>3
      <4> QED
        BY <2>6, <4>2, <4>3
    <3> QED
      BY <3>1, <3>2 DEF Holds
  <2>8. Holds(disk', q - S, x.c) /\ Holds(file', q - S, x.c)
    <3>1. q - S = p
      BY <1>2, <2>6
    <3> QED
      BY <1>2, <2>2, <2>6, <2>7, <3>1 DEF Holds
  <2>9. \A j \in 1 .. n : d + 1 = 2 + 2 * j => j = i
    BY <1>10
  <2>10. /\ ~(d + 1 <= 3) /\ \A j \in 0 .. n : d + 1 # 3 + 2 * j
         /\ d + 1 # 4 + 2 * n
    BY <1>2, <1>10
  <2>11. LatencyAt(x, d + 1, pos', buf', file', disk')
    BY <2>2, <2>4, <2>7, <2>8, <2>9, <2>10 DEF LatencyAt, S, n, q
  <2> QED
    BY <2>7, <2>8, <2>11
<1>11. ASSUME NEW i \in 1 .. n, d + 1 = 2 * i + 3
       PROVE  Goal
  <2>1. step = Fsync
    BY <1>1, <1>4, <1>11
  <2>2. /\ disk' = Flushed(0, MaxFile + EndSize)
        /\ file' = file /\ pos' = pos /\ buf' = buf
    BY <1>1, <2>1, ByOp, OthersAre DEF Fsync
  <2>3. d = 2 + 2 * i /\ d >= 2 /\ i \in 0 .. n
    BY <1>1, <1>2, <1>11
  <2>4. /\ pos = i * S /\ Holds(file, i * S, x.c)
        /\ \A k \in 1 .. S : buf[k] = x.c
    BY <1>3, <2>3 DEF LatencyAt, S, n
  <2>5. i * S \in Nat /\ i * S <= MaxFile + EndSize
    BY <1>2, Blocks
  <2>6. Holds(disk', i * S, x.c)
    BY <1>2, <1>5, <2>2, <2>4, <2>5, HoldsSynced
  <2>7. Holds(file', pos' - S, x.c) /\ Holds(disk', pos' - S, x.c)
    <3> DEFINE q == i * S
    <3>1. pos' = q /\ q \in Nat /\ Holds(file', q, x.c) /\ Holds(disk', q, x.c)
      BY <2>2, <2>4, <2>5, <2>6
    <3> HIDE DEF q
    <3> QED
      BY <1>2, <3>1 DEF Holds
  <2>8. \A j \in 0 .. n : d + 1 = 3 + 2 * j => j = i
    BY <1>11
  <2>9. ~(d + 1 <= 3) /\ (\A j \in 1 .. n : d + 1 # 2 + 2 * j) /\ d + 1 # 4 + 2 * n
    BY <1>2, <1>11
  <2>10. LatencyAt(x, d + 1, pos', buf', file', disk')
    BY <2>2, <2>4, <2>6, <2>8, <2>9 DEF LatencyAt, S, n
  <2> QED
    BY <2>7, <2>10
<1>12. CASE d + 1 = 4 + 2 * n
  <2>1. step = DivideBy(n)
    BY <1>1, <1>4, <1>12
  <2>2. buf' = buf /\ pos' = pos /\ file' = file /\ disk' = disk
    BY <1>1, <2>1, ByOp, OthersAre DEF DivideBy
  <2>3. n \in 0 .. n /\ d = 3 + 2 * n /\ d >= 2
    BY <1>1, <1>2, <1>12
  <2>4. /\ pos = n * S /\ Holds(file, n * S, x.c) /\ Holds(disk, n * S, x.c)
        /\ \A k \in 1 .. S : buf[k] = x.c
    BY <1>3, <2>3 DEF LatencyAt, S, n
  <2>5. ~(d + 1 <= 3) /\ (\A j \in 0 .. n : d + 1 # 3 + 2 * j)
        /\ (\A j \in 1 .. n : d + 1 # 2 + 2 * j)
    BY <1>2, <1>12
  <2>6. LatencyAt(x, d + 1, pos', buf', file', disk')
    BY <2>2, <2>4, <2>5 DEF LatencyAt, S, n
  <2> QED
    BY <1>3, <2>2, <2>6
<1>13. \/ d = 0 \/ d = 1 \/ d = 2 \/ d + 1 = 4 + 2 * n
       \/ \E i \in 1 .. n : d + 1 = 2 * i + 2 \/ d + 1 = 2 * i + 3
  <2>1. SUFFICES ASSUME d >= 3, d + 1 < 4 + 2 * n
                 PROVE  \E i \in 1 .. n : d + 1 = 2 * i + 2 \/ d + 1 = 2 * i + 3
    BY <1>1, <1>2, <1>6
  <2> DEFINE i == (d - 1) \div 2
  <2>2. d - 1 \in Nat
    BY <1>1, <2>1
  <2>3. i \in Nat /\ (d - 1 = 2 * i \/ d - 1 = 2 * i + 1)
    BY <2>2
  <2> HIDE DEF i
  <2>4. i \in 1 .. n /\ (d + 1 = 2 * i + 2 \/ d + 1 = 2 * i + 3)
    BY <1>1, <1>2, <2>1, <2>3
  <2> QED
    BY <2>4
<1> HIDE DEF Goal
<1> QED
  BY <1>7, <1>8, <1>9, <1>10, <1>11, <1>12, <1>13

(* In the beginning nothing has run. *)
LEMMA NoneYet ==
    ASSUME Init
    PROVE  cmd.prog = "none" /\ trusted = NoCommand /\ end = "well"
BY DEF Init, NoCommand

(* A program that has ended has taken all its steps. *)
LEMMA EndIs ==
    ASSUME TypeInv, cmd.prog # "none", todo = <<>>
    PROVE  cmd \in Commands /\ Taken \in Nat /\ Taken = Len(Script(cmd))
<1>1. cmd \in Commands
  BY DEF TypeInv, NoCommand
<1>2. Len(Script(cmd)) \in Nat /\ Len(todo) = 0
  BY <1>1, AheadIs
<1> QED
  BY <1>1, <1>2 DEF Taken

(* The invariant of latency_write is one. *)
LEMMA LatencyKept ==
    ASSUME TypeInv, Underway, LatencyInv, [Next]_vars
    PROVE  LatencyInv'
<1> DEFINE Goal == /\ Holds(file', pos' - Size(cmd'), cmd'.c)
                   /\ Holds(disk', pos' - Size(cmd'), cmd'.c)
                   /\ end' = "well" => LatencyAt(cmd', Taken', pos', buf', file', disk')
<1> SUFFICES ASSUME cmd'.prog = "latency_write", ~short' PROVE Goal
  BY DEF LatencyInv
<1>1. ASSUME NEW x \in Commands, Run(x) PROVE Goal
  <2>1. cmd' = x /\ Taken' = 0 /\ pos' = 0
    BY <1>1, RunIs
  <2>2. Size(x) \in Nat /\ Count(x) \in Nat
    BY <1>1, SizeFacts, Constants
  <2>3. Holds(file', 0 - Size(x), x.c) /\ Holds(disk', 0 - Size(x), x.c)
    BY <2>2 DEF Holds
  <2>4. LatencyAt(x, 0, 0, buf', file', disk')
    BY <2>2 DEF LatencyAt
  <2> QED
    BY <2>1, <2>3, <2>4
<1>2. CASE Moves
  <2>1. cmd' = cmd /\ (Continued(cmd, Taken) \/ end' # "well")
    BY <1>2, Forward
  <2>2. /\ Holds(file', pos' - Size(cmd), cmd.c) /\ Holds(disk', pos' - Size(cmd), cmd.c)
        /\ LatencyAt(cmd, Taken + 1, pos', buf', file', disk')
    BY <1>2, <2>1, LatencyStep
  <2> QED
    BY <2>1, <2>2 DEF Continued
<1>3. CASE Back
  <2>1. PICK lo \in Nat, hi \in Nat : disk' = Flushed(lo, hi)
    BY <1>3, BackIs
  <2>2. /\ file' = file /\ cmd' = cmd /\ Taken' = Taken /\ pos' = pos /\ buf' = buf
        /\ end' = end /\ short' = short
    BY <1>3, BackIs
  <2> DEFINE x == cmd
             S == Size(x)
             n == Count(x)
             d == Taken
  <2>3. /\ Holds(file, pos - S, x.c) /\ Holds(disk, pos - S, x.c)
        /\ end = "well" => LatencyAt(x, d, pos, buf, file, disk)
    BY <2>2 DEF LatencyInv
  <2>4. file \in Seq(Int) /\ disk \in Seq(Int) /\ pos \in Int
    BY DEF TypeInv
  <2>5. x \in Commands
    BY <2>2 DEF TypeInv, NoCommand
  <2>6. S \in Nat /\ n \in Nat
    BY <2>5, SizeFacts, Constants
  <2>7. ASSUME NEW m \in Int, Holds(file, m, x.c), Holds(disk, m, x.c)
        PROVE  Holds(disk', m, x.c)
    BY <2>1, <2>4, <2>7, HoldsBack
  <2> HIDE DEF x, S, n, d
  <2>8. Holds(disk', pos - S, x.c)
    BY <2>3, <2>4, <2>6, <2>7
  <2>9. ASSUME LatencyAt(x, d, pos, buf, file, disk)
        PROVE  LatencyAt(x, d, pos, buf, file, disk')
    <3>1. /\ d <= 3 => pos = 0
          /\ d >= 2 => \A j \in 1 .. S : buf[j] = x.c
      BY <2>9 DEF LatencyAt, S
    <3>2. ASSUME NEW i \in 0 .. n, d = 3 + 2 * i
          PROVE  pos = i * S /\ Holds(file, i * S, x.c) /\ Holds(disk', i * S, x.c)
      <4>1. pos = i * S /\ Holds(file, i * S, x.c) /\ Holds(disk, i * S, x.c)
        BY <2>9, <3>2 DEF LatencyAt, S, n
      <4> QED
        BY <2>4, <2>7, <4>1
    <3>3. ASSUME NEW i \in 1 .. n, d = 2 + 2 * i
          PROVE  pos = i * S /\ Holds(file, i * S, x.c) /\ Holds(disk', i * S - S, x.c)
      <4>1. pos = i * S /\ Holds(file, i * S, x.c)
        BY <2>9, <3>3 DEF LatencyAt, S, n
      <4>2. Holds(disk', pos - S, x.c)
        BY <2>8
      <4> QED
        BY <4>1, <4>2
    <3>4. d = 4 + 2 * n => Holds(file, pos, x.c) /\ Holds(disk', pos, x.c)
      <4>1. d = 4 + 2 * n => Holds(file, pos, x.c) /\ Holds(disk, pos, x.c)
        BY <2>9 DEF LatencyAt, n
      <4> QED
        BY <2>4, <2>7, <4>1
    <3> QED
      BY <3>1, <3>2, <3>3, <3>4 DEF LatencyAt, S, n
  <2> QED
    BY <2>2, <2>3, <2>8, <2>9 DEF x, S, d
<1>4. CASE Crash
  <2>1. /\ file' = disk /\ disk' = disk /\ cmd' = cmd /\ pos' = pos
        /\ end' = "crash" /\ short' = short
    BY <1>4, CrashIs
  <2> QED
    BY <2>1 DEF LatencyInv
<1>5. CASE UNCHANGED vars
  BY <1>5, StutterIs DEF LatencyInv
<1> HIDE DEF Goal
<1> QED
  BY <1>1, <1>2, <1>3, <1>4, <1>5, Alternatives

-----------------------------------------------------------------------------

(* A store writes into the file as far as the file and the limit reach, and *)
(* ends the program only behind the last page, or the limit.               *)
LEMMA StoreIs ==
    ASSUME TypeInv, StoreMapped, step \in Steps
    PROVE  /\ step.at \in Nat /\ step.n \in Nat /\ step.c \in Int /\ step.limit \in Nat
           /\ file' = Stored(step.at, Least(step.n, step.limit - step.at), step.c)
           /\ step.at + step.n <= step.limit => file' = Stored(step.at, step.n, step.c)
           /\ file' \in Seq(Int) /\ Len(file') = Len(file)
           /\ disk' = disk /\ pos' = pos /\ buf' = buf /\ recnum' = recnum
           /\ reported' = reported /\ short' = short
           /\ end' # end => /\ end' = "SIGBUS"
                            /\ \/ step.at + step.n > Len(file)
                               \/ step.at + step.n > step.limit
<1>1. step.op = "store"
  BY DEF StoreMapped, Takes
<1>2. step.at \in Nat /\ step.n \in Nat /\ step.c \in Int /\ step.limit \in Nat
  BY <1>1, StepFields
<1>3. file' = Stored(step.at, Least(step.n, step.limit - step.at), step.c)
  BY DEF StoreMapped
<1>4. Least(step.n, step.limit - step.at) \in Int
  BY <1>2 DEF Least
<1>5. file \in Seq(Int)
  BY DEF TypeInv
<1>6. file' \in Seq(Int) /\ Len(file') = Len(file)
  <2> DEFINE m == Least(step.n, step.limit - step.at)
  <2> HIDE DEF m
  <2>1. Stored(step.at, m, step.c) \in Seq(Int) /\ Len(Stored(step.at, m, step.c)) = Len(file)
    <3>1. m \in Int
      BY <1>4 DEF m
    <3> QED
      BY <1>2, <1>5, <3>1, StoredIs
  <2> QED
    BY <1>3, <2>1 DEF m
<1>7. step.at + step.n <= step.limit => file' = Stored(step.at, step.n, step.c)
  <2>1. step.at + step.n <= step.limit => Least(step.n, step.limit - step.at) = step.n
    BY <1>2 DEF Least
  <2> QED
    BY <1>3, <2>1
<1>8. /\ disk' = disk /\ pos' = pos /\ buf' = buf /\ recnum' = recnum
      /\ reported' = reported /\ short' = short
  BY DEF StoreMapped, memory
<1>9. end' # end => /\ end' = "SIGBUS"
                    /\ step.at + step.n > Len(file) \/ step.at + step.n > step.limit
  <2>1. end' # end =>
           end' = "SIGBUS" /\ (step.at + step.n > Mapped \/ step.at + step.n > step.limit)
    BY DEF StoreMapped, Dies
  <2>2. Mapped \in Nat /\ Mapped >= Len(file) /\ Len(file) \in Nat
    BY <1>5, MappedIs
  <2> QED
    BY <1>2, <2>1, <2>2
<1> QED
  BY <1>2, <1>3, <1>6, <1>7, <1>8, <1>9

(* A step of mmap_write keeps what its place says. *)
LEMMA MmapStep ==
    ASSUME TypeInv, Underway, MmapInv, Moves, cmd.prog = "mmap_write"
    PROVE  MmapAt(cmd, Taken + 1, file', disk')
<1> DEFINE x == cmd
           S == Size(x)
           n == Count(x)
           F == FileSize(x)
           d == Taken
           m == n * S
           Goal == MmapAt(x, d + 1, file', disk')
<1> SUFFICES Goal
  OBVIOUS
<1>1. /\ x \in Commands /\ end = "well" /\ step \in Steps
      /\ d \in Nat /\ d + 1 \in 1 .. Len(MmapWrite(x)) /\ step = MmapWrite(x)[d + 1]
  BY Forward, ScriptOf
<1>2. /\ S \in Nat /\ n \in Nat /\ m \in Nat /\ m <= F /\ F \in Nat /\ F > 0
  <2>1. /\ S \in 0 .. EndSize /\ F \in Page .. MaxFile /\ n \in Nat /\ m \in Nat /\ m <= F
    BY <1>1, SizeFacts
  <2>2. EndSize \in Nat /\ MaxFile \in Nat /\ Page \in Nat /\ Page > 0
    BY Constants
  <2> HIDE DEF S, n, F, m
  <2> QED
    BY <2>1, <2>2
<1>3. MmapAt(x, d, file, disk)
  BY <1>1 DEF MmapInv
<1>4. /\ Len(MmapWrite(x)) = 5 + n
      /\ MmapWrite(x)[1] = Open /\ MmapWrite(x)[2] = DivideBy(S)
      /\ \A i \in 1 .. n : MmapWrite(x)[i + 2] = Store(S * (i - 1), S, Pattern(x)[i - 1], F)
      /\ MmapWrite(x)[3 + n] = DivideBy(n)
      /\ MmapWrite(x)[4 + n] = Msync(0, F)
      /\ MmapWrite(x)[5 + n] = Store(0, 1, 100, F)
  BY <1>1, MmapWriteScript
<1>5. file \in Seq(Int) /\ disk \in Seq(Int) /\ Len(file) \in Nat /\ Len(disk) \in Nat
  BY DEF TypeInv
<1>6. d + 1 \in 1 .. 5 + n
  BY <1>1, <1>4
<1> HIDE DEF x, S, n, F, d, m
<1>7. CASE d = 0
  BY <1>2, <1>7 DEF MmapAt, n
<1>8. CASE d = 1
  <2>1. \A i \in 0 .. n : d + 1 = 2 + i => i = 0
    BY <1>2, <1>8
  <2>2. 0 * S = 0 /\ Stripes(x, 0, file')
    BY <1>2 DEF Stripes
  <2>3. \A i \in 0 .. n : d + 1 = 2 + i => Stripes(x, i * S, file')
    BY <2>1, <2>2
  <2>4. ~(d + 1 >= 3 + n) /\ ~(d + 1 >= 4 + n)
    BY <1>2, <1>8
  <2> QED
    BY <2>3, <2>4 DEF MmapAt, S, n
<1>9. ASSUME NEW i \in 1 .. n, d + 1 = i + 2
      PROVE  Goal
  <2>1. step = Store(S * (i - 1), S, Pattern(x)[i - 1], F)
    BY <1>1, <1>4, <1>9
  <2> DEFINE p == (i - 1) * S
             q == i * S
             c == Pattern(x)[i - 1]
  <2>2. p \in Nat /\ q \in Nat /\ p + S = q /\ q <= m /\ S * (i - 1) = p
    BY <1>2, Blocks DEF m
  <2>3. i - 1 \in 0 .. n /\ d = 2 + (i - 1) /\ i - 1 \in Nat
    BY <1>1, <1>2, <1>9
  <2>4. Stripes(x, p, file)
    BY <1>3, <2>3 DEF MmapAt, S, n
  <2> HIDE DEF p, q, c
  <2>5. step.at = p /\ step.n = S /\ step.c = c /\ step.limit = F
    BY <2>1, <2>2 DEF Store, c
  <2>6. StoreMapped
    BY <1>1, <2>1, ByOp DEF Store
  <2>7. file' = Stored(p, S, c) /\ disk' = disk /\ c \in Int
    <3>1. step.at + step.n <= step.limit => file' = Stored(step.at, step.n, step.c)
      BY <1>1, <2>6, StoreIs
    <3>2. step.c \in Int /\ disk' = disk
      BY <1>1, <2>6, StoreIs
    <3>3. p + S <= F
      BY <1>2, <2>2
    <3> QED
      BY <2>5, <3>1, <3>2, <3>3
  <2>8. /\ Len(file') = Len(file)
        /\ \A k \in 1 .. Len(file) : file'[k] = IF p < k /\ k <= p + S THEN c ELSE file[k]
    <3>1. p \in Nat /\ S \in Int /\ c \in Int
      BY <1>2, <2>2, <2>7
    <3> QED
      BY <1>5, <2>7, <3>1, StoredIs
  <2>9. Stripes(x, q, file')
    <3>1. ASSUME NEW k \in 1 .. q, k <= Len(file')
          PROVE  Striped(x, k, file'[k])
      <4>1. k \in 1 .. Len(file)
        BY <1>5, <2>2, <2>8, <3>1
      <4>2. file'[k] = IF p < k /\ k <= p + S THEN c ELSE file[k]
        BY <2>8, <4>1
      <4>3. CASE k <= p
        <5>1. k \in 1 .. p /\ k <= Len(file) /\ file'[k] = file[k]
          BY <1>5, <2>2, <4>1, <4>2, <4>3
        <5> QED
          BY <2>4, <5>1 DEF Stripes
      <4>4. CASE k > p
        <5>1. file'[k] = c
          BY <1>2, <2>2, <4>2, <4>4
        <5>2. S \in Nat \ {0} /\ k \in Nat /\ p < k /\ k <= p + S
          BY <1>2, <2>2, <4>4
        <5>3. (k - 1) \div S = i - 1
          <6>1. (i - 1) * S < k /\ k <= (i - 1) * S + S
            BY <5>2 DEF p
          <6> QED
            BY <2>3, <5>2, <6>1, InBlock
        <5> QED
          BY <5>1, <5>3 DEF Striped, c, S
      <4> QED
        BY <2>2, <4>3, <4>4
    <3> QED
      BY <3>1 DEF Stripes
  <2>10. \A j \in 0 .. n : d + 1 = 2 + j => Stripes(x, j * S, file')
    <3>1. \A j \in 0 .. n : d + 1 = 2 + j => j = i
      BY <1>9
    <3> QED
      BY <2>9, <3>1 DEF q
  <2>11. ~(d + 1 >= 3 + n) /\ ~(d + 1 >= 4 + n)
    BY <1>2, <1>9
  <2> QED
    BY <2>10, <2>11 DEF MmapAt, S, n
<1>10. CASE d = 2 + n
  <2>1. step = DivideBy(n)
    BY <1>1, <1>2, <1>4, <1>10
  <2>2. file' = file /\ disk' = disk
    BY <1>1, <2>1, ByOp, OthersAre DEF DivideBy
  <2>3. Stripes(x, m, file)
    <3>1. n \in 0 .. n /\ d = 2 + n
      BY <1>2, <1>10
    <3> QED
      BY <1>3, <3>1 DEF MmapAt, S, n, m
  <2>4. (\A i \in 0 .. n : d + 1 # 2 + i) /\ ~(d + 1 >= 4 + n)
    BY <1>2, <1>10
  <2> QED
    BY <2>2, <2>3, <2>4 DEF MmapAt, S, n, m
<1>11. CASE d = 3 + n
  <2>1. step = Msync(0, F)
    BY <1>1, <1>2, <1>4, <1>11
  <2>2. file' = file /\ disk' = Flushed(0, F)
    BY <1>1, <2>1, ByOp, OthersAre DEF Msync
  <2>3. Stripes(x, m, file)
    <3>1. d >= 3 + n
      BY <1>2, <1>11
    <3> QED
      BY <1>3, <3>1 DEF MmapAt, S, n, m
  <2>4. Safe(x, m, file, disk')
    <3> DEFINE e == Flushed(0, F)
    <3>0. 0 \in Nat
      OBVIOUS
    <3>1. \A k \in 1 .. Len(file) : 0 < k /\ k <= F => k <= Len(e) /\ e[k] = file[k]
      BY <1>2, <1>5, <3>0, FlushedIs
    <3> HIDE DEF e
    <3>2. ASSUME NEW k \in 1 .. m, k <= Len(file)
          PROVE  k <= Len(e) /\ Striped(x, k, e[k])
      <4>1. k \in 1 .. Len(file) /\ 0 < k /\ k <= F
        BY <1>2, <1>5, <3>2
      <4>2. k <= Len(e) /\ e[k] = file[k]
        BY <3>1, <4>1
      <4> QED
        BY <2>3, <3>2, <4>2 DEF Stripes
    <3> QED
      BY <2>2, <3>2 DEF Safe, e
  <2>5. \A i \in 0 .. n : d + 1 # 2 + i
    BY <1>2, <1>11
  <2> QED
    BY <2>2, <2>3, <2>4, <2>5 DEF MmapAt, S, n, m
<1>12. CASE d = 4 + n
  <2>1. step = Store(0, 1, 100, F)
    BY <1>1, <1>2, <1>4, <1>12
  <2>2. StoreMapped /\ step.at = 0 /\ step.n = 1 /\ step.c = 100 /\ step.limit = F
    BY <1>1, <2>1, ByOp DEF Store
  <2>3. file' = Stored(0, 1, 100) /\ disk' = disk
    <3>1. step.at + step.n <= step.limit => file' = Stored(step.at, step.n, step.c)
      BY <1>1, <2>2, StoreIs
    <3>2. disk' = disk
      BY <1>1, <2>2, StoreIs
    <3> QED
      BY <1>2, <2>2, <3>1, <3>2
  <2>4. /\ Len(file') = Len(file)
        /\ \A k \in 1 .. Len(file) : file'[k] = IF 0 < k /\ k <= 0 + 1 THEN 100 ELSE file[k]
    <3>1. file \in Seq(Int)
      BY <1>5
    <3>2. file' = Stored(0, 1, 100)
      BY <2>3
    <3> QED
      BY <3>1, <3>2, StoredFirst
  <2>5. Stripes(x, m, file) /\ Safe(x, m, file, disk)
    <3>1. d >= 3 + n /\ d >= 4 + n
      BY <1>2, <1>12
    <3> QED
      BY <1>3, <3>1 DEF MmapAt, S, n, m
  <2>6. Safe(x, m, file', disk')
    BY <2>3, <2>4, <2>5 DEF Safe
  <2>7. Stripes(x, m, file')
    <3>1. ASSUME NEW k \in 1 .. m, k <= Len(file')
          PROVE  Striped(x, k, file'[k])
      <4>1. k \in 1 .. Len(file)
        BY <1>2, <1>5, <2>4, <3>1
      <4>2. file'[k] = IF 0 < k /\ k <= 0 + 1 THEN 100 ELSE file[k]
        BY <2>4, <4>1
      <4>3. file'[k] = file[k] \/ (k = 1 /\ file'[k] = 100)
        BY <1>2, <4>1, <4>2
      <4>4. Striped(x, k, file[k])
        BY <2>4, <2>5, <3>1 DEF Stripes
      <4> QED
        BY <4>3, <4>4 DEF Striped
    <3> QED
      BY <3>1 DEF Stripes
  <2>8. \A i \in 0 .. n : d + 1 # 2 + i
    BY <1>2, <1>12
  <2> QED
    BY <2>6, <2>7, <2>8 DEF MmapAt, S, n, m
<1>13. \/ d = 0 \/ d = 1 \/ d = 2 + n \/ d = 3 + n \/ d = 4 + n
       \/ \E i \in 1 .. n : d + 1 = i + 2
  <2>1. SUFFICES ASSUME d >= 2, d < 2 + n PROVE \E i \in 1 .. n : d + 1 = i + 2
    BY <1>1, <1>2, <1>6
  <2>2. d - 1 \in 1 .. n /\ d + 1 = (d - 1) + 2
    BY <1>1, <1>2, <2>1
  <2> QED
    BY <2>2
<1> HIDE DEF Goal
<1> QED
  BY <1>7, <1>8, <1>9, <1>10, <1>11, <1>12, <1>13

(* The invariant of mmap_write is one. *)
LEMMA MmapKept ==
    ASSUME TypeInv, Underway, MmapInv, [Next]_vars
    PROVE  MmapInv'
<1> DEFINE Goal == MmapAt(cmd', Taken', file', disk')
<1> SUFFICES ASSUME cmd'.prog = "mmap_write", end' = "well" PROVE Goal
  BY DEF MmapInv
<1>1. ASSUME NEW x \in Commands, Run(x) PROVE Goal
  <2>1. cmd' = x /\ Taken' = 0
    BY <1>1, RunIs
  <2>2. Count(x) \in Nat
    BY <1>1, SizeFacts
  <2>3. MmapAt(x, 0, file', disk')
    BY <2>2 DEF MmapAt
  <2> QED
    BY <2>1, <2>3
<1>2. CASE Moves
  <2>1. cmd' = cmd /\ Taken' = Taken + 1
    BY <1>2, Forward DEF Continued
  <2> QED
    BY <1>2, <2>1, MmapStep
<1>3. CASE Back
  <2>1. PICK lo \in Nat, hi \in Nat : disk' = Flushed(lo, hi)
    BY <1>3, BackIs
  <2>2. file' = file /\ cmd' = cmd /\ Taken' = Taken /\ end' = end
    BY <1>3, BackIs
  <2> DEFINE x == cmd
             n == Count(x)
             m == n * Size(x)
             d == Taken
             e == Flushed(lo, hi)
  <2>3. MmapAt(x, d, file, disk)
    BY <2>2 DEF MmapInv
  <2>4. x \in Commands
    BY <2>2 DEF TypeInv, NoCommand
  <2>5. n \in Nat /\ m \in Nat
    BY <2>4, SizeFacts
  <2>6. d \in Nat
    BY <2>2, <2>4 DEF Underway
  <2>7. /\ Len(e) >= Len(disk) /\ e \in Seq(Int)
        /\ \A k \in 1 .. Len(disk) : e[k] = disk[k] \/ (k <= Len(file) /\ e[k] = file[k])
    <3>1. file \in Seq(Int) /\ disk \in Seq(Int)
      BY DEF TypeInv
    <3> QED
      BY <3>1, FlushedIs
  <2>8. Len(disk) \in Nat /\ Len(e) \in Nat
    BY <2>7 DEF TypeInv
  <2> HIDE DEF x, n, m, d, e
  <2>9. d >= 4 + n => Safe(x, m, file, e)
    <3> SUFFICES ASSUME d >= 4 + n, NEW k \in 1 .. m, k <= Len(file)
                 PROVE  k <= Len(e) /\ Striped(x, k, e[k])
      BY DEF Safe
    <3>1. d >= 3 + n
      BY <2>5, <2>6
    <3>2. Stripes(x, m, file) /\ Safe(x, m, file, disk)
      BY <2>3, <3>1 DEF MmapAt, n, m
    <3>3. k <= Len(disk) /\ Striped(x, k, disk[k]) /\ Striped(x, k, file[k])
      BY <3>2 DEF Stripes, Safe
    <3>4. k \in 1 .. Len(disk) /\ k <= Len(e)
      BY <2>5, <2>7, <2>8, <3>3
    <3> QED
      BY <2>7, <3>3, <3>4
  <2>10. MmapAt(x, d, file, e)
    BY <2>3, <2>9 DEF MmapAt, n, m
  <2> QED
    BY <2>1, <2>2, <2>10 DEF x, d, e
<1>4. CASE Crash
  BY <1>4, CrashIs
<1>5. CASE UNCHANGED vars
  BY <1>5, StutterIs DEF MmapInv
<1> HIDE DEF Goal
<1> QED
  BY <1>1, <1>2, <1>3, <1>4, <1>5, Alternatives

(* Whatever latency_write has synced, and what mmap_write has msynced,     *)
(* survives a crash: of the first all blocks but the one it is about to    *)
(* sync, of the second the pattern, but for the bytes it overwrites        *)
(* behind the msync (latency_write.c:90-94, mmap_write.c:196-218).         *)
THEOREM SyncedBlocksSurvive == Spec => []AckedSurvives
<1>1. Init => Base /\ LatencyInv /\ MmapInv
  BY BaseInit, NoneYet DEF LatencyInv, MmapInv
<1>2. Base /\ LatencyInv /\ MmapInv /\ [Next]_vars => (Base /\ LatencyInv /\ MmapInv)'
  BY TypeKept, UnderwayKept, LatencyKept, MmapKept DEF Base
<1>3. ASSUME Base, LatencyInv, MmapInv
      PROVE  AckedSurvives
  <2>1. TypeInv /\ Underway
    BY <1>3 DEF Base
  <2>2. ASSUME cmd.prog = "latency_write", ~short,
               NEW k \in 1 .. IF EndsWell({cmd.prog}) THEN pos ELSE pos - Size(cmd)
        PROVE  k <= Len(disk) /\ disk[k] = cmd.c
    <3>1. CASE EndsWell({cmd.prog})
      <4>1. /\ cmd \in Commands /\ Taken = Len(LatencyWrite(cmd)) /\ end = "well"
        BY <2>1, <2>2, <3>1, EndIs, ScriptOf DEF EndsWell
      <4>2. Taken = 4 + 2 * Count(cmd)
        BY <4>1, LatencyWriteScript
      <4>3. LatencyAt(cmd, Taken, pos, buf, file, disk)
        BY <1>3, <2>2, <4>1 DEF LatencyInv
      <4>4. Holds(disk, pos, cmd.c)
        BY <4>2, <4>3 DEF LatencyAt
      <4> QED
        BY <2>2, <3>1, <4>4 DEF Holds
    <3>2. CASE ~EndsWell({cmd.prog})
      BY <1>3, <2>2, <3>2 DEF LatencyInv, Holds
    <3> QED
      BY <3>1, <3>2
  <2>3. ASSUME EndsWell({"mmap_write"}),
               NEW k \in 1 .. Least(Count(cmd) * Size(cmd), Len(file))
        PROVE  /\ k <= Len(disk)
               /\ \/ disk[k] = Pattern(cmd)[(k - 1) \div Size(cmd)]
                  \/ k = 1 /\ disk[k] = 100
    <3>1. cmd.prog = "mmap_write" /\ todo = <<>> /\ end = "well"
      BY <2>3 DEF EndsWell
    <3>2. /\ cmd \in Commands /\ Taken = Len(MmapWrite(cmd))
      BY <2>1, <3>1, EndIs, ScriptOf
    <3>3. Taken = 5 + Count(cmd) /\ Count(cmd) \in Nat /\ Count(cmd) * Size(cmd) \in Nat
      BY <3>2, MmapWriteScript, SizeFacts
    <3>4. MmapAt(cmd, Taken, file, disk) /\ Taken >= 4 + Count(cmd)
      BY <1>3, <3>1, <3>3 DEF MmapInv
    <3>5. Safe(cmd, Count(cmd) * Size(cmd), file, disk)
      BY <3>4 DEF MmapAt
    <3>6. Len(file) \in Nat
      BY <2>1 DEF TypeInv
    <3>7. k \in 1 .. Count(cmd) * Size(cmd) /\ k <= Len(file)
      <4> DEFINE m == Count(cmd) * Size(cmd)
      <4>1. m \in Nat /\ k \in 1 .. Least(m, Len(file))
        BY <3>3
      <4> HIDE DEF m
      <4>2. k \in 1 .. m /\ k <= Len(file)
        BY <3>6, <4>1 DEF Least
      <4> QED
        BY <4>2 DEF m
    <3> QED
      BY <3>5, <3>7 DEF Safe, Striped
  <2> QED
    BY <2>2, <2>3 DEF AckedSurvives
<1>4. Base /\ LatencyInv /\ MmapInv => AckedSurvives
  BY <1>3
<1> QED
  BY <1>1, <1>2, <1>4, PTL DEF Spec

-----------------------------------------------------------------------------
(* What the integrity tests say *)

(* The reader opens the file, fills its buffer, divides, and reads.        *)
LEMMA ReaderSteps ==
    ASSUME TypeInv, Underway, Moves, cmd.prog = "integrity_test2_read"
    PROVE  LET S == Size(cmd) IN
           /\ cmd \in Commands /\ Taken \in Nat /\ end = "well" /\ step \in Steps
           /\ file' = file
           /\ \/ /\ Taken \in 0 .. 2 /\ reported' = reported
                 /\ (Taken = 0 => pos' = 0) /\ (Taken > 0 => pos' = pos)
              \/ \E i \in 1 .. Count(cmd) :
                     /\ Taken = i + 2
                     /\ ReadBlock /\ step = Read(S, Pattern(cmd)[i - 1], "report")
<1> DEFINE x == cmd
           S == Size(x)
           n == Count(x)
           d == Taken
           Goal == /\ file' = file
                   /\ \/ /\ d \in 0 .. 2 /\ reported' = reported
                         /\ (d = 0 => pos' = 0) /\ (d > 0 => pos' = pos)
                      \/ \E i \in 1 .. n :
                             /\ d = i + 2
                             /\ ReadBlock /\ step = Read(S, Pattern(x)[i - 1], "report")
<1>1. /\ x \in Commands /\ end = "well" /\ step \in Steps
      /\ d \in Nat /\ d + 1 \in 1 .. Len(IntegrityRead(x)) /\ step = IntegrityRead(x)[d + 1]
  BY Forward, ScriptOf
<1>2. n \in Nat
  BY <1>1, SizeFacts
<1>3. /\ Len(IntegrityRead(x)) = 3 + n
      /\ IntegrityRead(x)[1] = Open /\ IntegrityRead(x)[2] = Fill(x.c, S)
      /\ IntegrityRead(x)[3] = DivideBy(S)
      /\ \A i \in 1 .. n : IntegrityRead(x)[i + 3] = Read(S, Pattern(x)[i - 1], "report")
  BY <1>1, IntegrityReadScript
<1>4. Goal
  <2> HIDE DEF x, S, n, d
  <2>1. CASE d = 0
    <3>1. step = Open
      BY <1>1, <1>3, <2>1
    <3>2. pos' = 0 /\ file' = file /\ reported' = reported
      BY <1>1, <3>1, ByOp, MovedIs DEF Open
    <3> QED
      BY <2>1, <3>2
  <2>2. CASE d = 1
    <3>1. step = Fill(x.c, S)
      BY <1>1, <1>3, <2>2
    <3>2. pos' = pos /\ file' = file /\ reported' = reported
      BY <1>1, <3>1, ByOp, OthersAre DEF Fill
    <3> QED
      BY <2>2, <3>2
  <2>3. CASE d = 2
    <3>1. step = DivideBy(S)
      BY <1>1, <1>3, <2>3
    <3>2. pos' = pos /\ file' = file /\ reported' = reported
      BY <1>1, <3>1, ByOp, OthersAre DEF DivideBy
    <3> QED
      BY <2>3, <3>2
  <2>4. CASE d > 2
    <3> DEFINE i == d - 2
    <3>1. i \in 1 .. n /\ d = i + 2 /\ d + 1 = i + 3
      BY <1>1, <1>2, <1>3, <2>4
    <3> HIDE DEF i
    <3>2. step = Read(S, Pattern(x)[i - 1], "report")
      BY <1>1, <1>3, <3>1
    <3>3. ReadBlock
      BY <1>1, <3>2, ByOp DEF Read
    <3>4. file' = file
      BY <1>1, <3>3, ReadIs
    <3> QED
      BY <3>1, <3>2, <3>3, <3>4
  <2> HIDE DEF Goal
  <2> QED
    BY <1>1, <2>1, <2>2, <2>3, <2>4
<1> QED
  BY <1>1, <1>4

(* A block that was read without a complaint is the one wanted.            *)
LEMMA ReaderKept ==
    ASSUME TypeInv, Underway, ReaderInv, [Next]_vars
    PROVE  ReaderInv'
<1> DEFINE Goal == ReaderAt(cmd', Taken', pos', file')
<1> SUFFICES ASSUME cmd'.prog = "integrity_test2_read", ~reported', end' = "well" PROVE Goal
  BY DEF ReaderInv
<1>1. ASSUME NEW x \in Commands, Run(x) PROVE Goal
  <2>1. cmd' = x /\ Taken' = 0 /\ pos' = 0
    BY <1>1, RunIs
  <2>2. Count(x) \in Nat
    BY <1>1, SizeFacts
  <2>3. ReaderAt(x, 0, 0, file')
    BY <2>2 DEF ReaderAt
  <2> QED
    BY <2>1, <2>3
<1>2. CASE Moves
  <2> DEFINE x == cmd
             S == Size(x)
             n == Count(x)
             d == Taken
  <2>1. cmd' = x /\ Taken' = d + 1
    BY <1>2, Forward DEF Continued
  <2>2. /\ x \in Commands /\ d \in Nat /\ end = "well" /\ step \in Steps /\ file' = file
        /\ \/ /\ d \in 0 .. 2 /\ reported' = reported
              /\ (d = 0 => pos' = 0) /\ (d > 0 => pos' = pos)
           \/ \E i \in 1 .. n :
                  d = i + 2 /\ ReadBlock /\ step = Read(S, Pattern(x)[i - 1], "report")
    BY <1>2, <2>1, ReaderSteps
  <2>3. ~reported
    BY <1>2, NotTakenBack
  <2>4. ReaderAt(x, d, pos, file)
    BY <2>1, <2>2, <2>3 DEF ReaderInv
  <2>5. S \in 0 .. EndSize /\ n \in Nat /\ EndSize \in Nat /\ (n > 0 => S > 0) /\ n <= MaxFile
        /\ MaxFile \in Nat
    BY <2>2, SizeFacts, Constants
  <2> HIDE DEF x, S, n, d
  <2>6. CASE d \in 0 .. 2 /\ (d = 0 => pos' = 0) /\ (d > 0 => pos' = pos)
    <3>1. pos' = 0
      BY <2>4, <2>6 DEF ReaderAt
    <3>2. \A i \in 0 .. n : d + 1 = 3 + i => i = 0 /\ 0 = 0 * S
      BY <2>5, <2>6
    <3>3. \A i \in 0 .. n :
             d + 1 = 3 + i => 0 = i * S /\ \A j \in 0 .. n - 1 : j < i => Found(x, j, file)
      BY <2>5, <3>2
    <3>4. ReaderAt(x, d + 1, 0, file)
      BY <3>3 DEF ReaderAt, S, n
    <3> QED
      BY <2>1, <2>2, <3>1, <3>4
  <2>7. ASSUME NEW i \in 1 .. n,
               d = i + 2, ReadBlock, step = Read(S, Pattern(x)[i - 1], "report")
        PROVE  Goal
    <3> DEFINE p == (i - 1) * S
               q == i * S
               c == Pattern(x)[i - 1]
    <3>1. p \in Nat /\ q \in Nat /\ p + S = q
      BY <2>5, Blocks
    <3>2. pos = p /\ \A j \in 0 .. n - 1 : j < i - 1 => Found(x, j, file)
      <4>1. i - 1 \in 0 .. n /\ d = 3 + (i - 1)
        BY <2>5, <2>7
      <4> QED
        BY <2>4, <4>1 DEF ReaderAt, S, n
    <3>3. c \in 1 .. 126
      <4>1. i - 1 \in 0 .. MaxFile
        BY <2>5
      <4> QED
        BY <2>2, <4>1, PatternIs
    <3> HIDE DEF p, q, c
    <3>4. step.n = S /\ step.want = c /\ step.iferr = "report"
      BY <2>7 DEF Read, c
    <3>5. step.want # AnyByte
      BY <3>3, <3>4 DEF AnyByte
    <3>6. Got(step.n) /\ buf'[1] = step.want /\ buf'[step.n] = step.want
      BY <2>2, <2>7, <3>4, <3>5, ReadIs
    <3>7. Got(S) /\ buf'[1] = c /\ buf'[S] = c
      BY <3>4, <3>6
    <3>8. S > 0
      BY <2>5
    <3>9. pos' = q /\ q <= Len(file) /\ file[p + 1] = c /\ file[p + S] = c
      <4>1. 1 \in 1 .. S /\ S \in 1 .. S
        BY <2>5, <3>8
      <4>2. /\ pos' = p + S /\ p + S <= Len(file)
            /\ \A k \in 1 .. S : buf'[k] = file[p + k]
        BY <3>2, <3>7, <3>8 DEF Got
      <4> QED
        BY <3>1, <3>7, <4>1, <4>2
    <3>10. Found(x, i - 1, file)
      <4>1. Len(file) >= p + S
        BY <3>1, <3>9 DEF TypeInv
      <4> QED
        BY <3>9, <4>1 DEF Found, p, c, S
    <3>11. \A j \in 0 .. n - 1 : j < i => Found(x, j, file)
      <4>1. \A j \in 0 .. n - 1 : j < i => j < i - 1 \/ j = i - 1
        BY <2>5
      <4> QED
        BY <3>2, <3>10, <4>1
    <3>12. \A k \in 0 .. n : d + 1 = 3 + k => k = i
      BY <2>7
    <3>13. ReaderAt(x, d + 1, pos', file)
      <4>1. ~(d + 1 <= 3)
        BY <2>7
      <4> QED
        BY <3>9, <3>11, <3>12, <4>1 DEF ReaderAt, S, n, q
    <3> QED
      BY <2>1, <2>2, <3>13
  <2> HIDE DEF Goal
  <2> QED
    BY <2>2, <2>6, <2>7
<1>3. CASE Back
  BY <1>3, BackIs DEF ReaderInv
<1>4. CASE Crash
  BY <1>4, CrashIs
<1>5. CASE UNCHANGED vars
  BY <1>5, StutterIs DEF ReaderInv
<1> HIDE DEF Goal
<1> QED
  BY <1>1, <1>2, <1>3, <1>4, <1>5, Alternatives

(* When integrity_test2_read has said nothing the file holds the pattern:  *)
(* all its blocks are there, and begin and end with their character        *)
(* (integrity_test2_read.c:97-108).                                        *)
THEOREM SilentReaderSawPattern == Spec => []SilenceMeansPattern
<1>1. Init => Base /\ ReaderInv
  BY BaseInit, NoneYet DEF ReaderInv
<1>2. Base /\ ReaderInv /\ [Next]_vars => (Base /\ ReaderInv)'
  BY TypeKept, UnderwayKept, ReaderKept DEF Base
<1>3. ASSUME Base, ReaderInv
      PROVE  SilenceMeansPattern
  <2> DEFINE S == Size(cmd)
  <2> SUFFICES ASSUME EndsWell({"integrity_test2_read"}), ~reported,
                      NEW i \in 0 .. Count(cmd) - 1
               PROVE  /\ Len(file) >= (i + 1) * S
                      /\ file[i * S + 1] = Pattern(cmd)[i]
                      /\ file[(i + 1) * S] = Pattern(cmd)[i]
    BY DEF SilenceMeansPattern
  <2>1. TypeInv /\ cmd.prog = "integrity_test2_read" /\ todo = <<>> /\ end = "well"
    BY <1>3 DEF Base, EndsWell
  <2>2. cmd \in Commands /\ Taken = Len(IntegrityRead(cmd))
    BY <2>1, EndIs, ScriptOf
  <2>3. Taken = 3 + Count(cmd) /\ Count(cmd) \in Nat /\ S \in Nat
    BY <2>2, IntegrityReadScript, SizeFacts, Constants
  <2>4. ReaderAt(cmd, Taken, pos, file)
    BY <1>3, <2>1 DEF ReaderInv
  <2>5. Count(cmd) \in 0 .. Count(cmd) /\ i < Count(cmd)
    BY <2>3
  <2>6. Found(cmd, i, file)
    BY <2>3, <2>4, <2>5 DEF ReaderAt
  <2>7. (i + 1) * S = i * S + S
    BY <2>3
  <2> QED
    BY <2>6, <2>7 DEF Found
<1>4. Base /\ ReaderInv => SilenceMeansPattern
  BY <1>3
<1> QED
  BY <1>1, <1>2, <1>4, PTL DEF Spec

(* The block behind p bytes of the pattern, written, makes them q.         *)
LEMMA FullGrows ==
    ASSUME NEW x \in Commands, NEW f \in Seq(Int), NEW g \in Seq(Int), NEW i \in Nat,
           Size(x) \in Nat, i * Size(x) \in Nat,
           Full(x, i * Size(x), f),
           Size(x) > 0 => Len(g) >= i * Size(x) + Size(x),
           \A k \in 1 .. Len(f) : k <= i * Size(x) => g[k] = f[k],
           \A k \in 1 .. Size(x) : g[i * Size(x) + k] = Pattern(x)[i],
           Len(g) >= Len(f)
    PROVE  Full(x, i * Size(x) + Size(x), g)
<1> DEFINE S == Size(x)
           p == i * S
<1>1. S \in Nat /\ p \in Nat /\ Len(f) \in Nat /\ Len(g) \in Nat /\ Len(g) >= Len(f)
  OBVIOUS
<1>2. /\ p <= Len(f) /\ \A k \in 1 .. p : f[k] = Pattern(x)[(k - 1) \div S]
  BY DEF Full
<1>3. /\ S > 0 => Len(g) >= p + S
      /\ \A k \in 1 .. Len(f) : k <= p => g[k] = f[k]
      /\ \A k \in 1 .. S : g[p + k] = Pattern(x)[i]
  OBVIOUS
<1>4. ASSUME NEW k \in 1 .. p + S PROVE g[k] = Pattern(x)[(k - 1) \div S]
  <2>1. CASE k <= p
    <3> HIDE DEF S, p
    <3>1. k \in 1 .. p /\ k \in 1 .. Len(f)
      BY <1>1, <1>2, <2>1
    <3>2. g[k] = f[k]
      BY <1>3, <2>1, <3>1
    <3> QED
      BY <1>2, <3>1, <3>2
  <2>2. CASE k > p
    <3>1. S \in Nat \ {0} /\ k \in Nat /\ p < k /\ k <= p + S
      <4> HIDE DEF S, p
      <4> QED
        BY <1>1, <2>2
    <3>2. (k - 1) \div S = i
      <4>1. i * S < k /\ k <= i * S + S
        BY <3>1
      <4> HIDE DEF S, p
      <4> QED
        BY <3>1, <4>1, InBlock
    <3> HIDE DEF S, p
    <3>3. k - p \in 1 .. S /\ p + (k - p) = k
      BY <1>1, <3>1
    <3>4. g[p + (k - p)] = Pattern(x)[i]
      BY <1>3, <3>3
    <3> QED
      BY <3>2, <3>3, <3>4
  <2> HIDE DEF S, p
  <2> QED
    BY <1>1, <2>1, <2>2
<1>5. p + S <= Len(g)
  <2> HIDE DEF S, p
  <2> QED
    BY <1>1, <1>2, <1>3
<1> QED
  BY <1>4, <1>5 DEF Full

(* A step of the silent writer keeps what its place says. *)
LEMMA WriterStep ==
    ASSUME TypeInv, Underway, WriterInv, Moves, cmd.prog \in Writers, ~reported'
    PROVE  WriterAt(cmd, Taken + 1, pos', buf', file')
<1> DEFINE x == cmd
           S == Size(x)
           n == Count(x)
           d == Taken
           Goal == WriterAt(x, d + 1, pos', buf', file')
<1> SUFFICES Goal
  OBVIOUS
<1>1. /\ x \in Commands /\ end = "well" /\ step \in Steps /\ ~reported
      /\ d \in Nat /\ d + 1 \in 1 .. Len(IntegrityWrite(x)) /\ step = IntegrityWrite(x)[d + 1]
  BY Forward, NotTakenBack, ScriptOf DEF Writers
<1>2. /\ S \in 0 .. EndSize /\ S \in Nat /\ n \in Nat /\ EndSize \in Nat
  BY <1>1, SizeFacts, Constants
<1>3. WriterAt(x, d, pos, buf, file)
  BY <1>1 DEF WriterInv
<1>4. /\ Len(IntegrityWrite(x)) = 3 + 2 * n
      /\ IntegrityWrite(x)[1] = Open /\ IntegrityWrite(x)[2] = Fill(x.c, S)
      /\ IntegrityWrite(x)[3] = DivideBy(S)
      /\ \A i \in 1 .. n : IntegrityWrite(x)[2 * i + 2] = Write(S, "report")
                           /\ IntegrityWrite(x)[2 * i + 3] = Fill(Pattern(x)[i], S)
  BY <1>1, IntegrityWriteScript
<1>5. file \in Seq(Int) /\ pos \in Nat /\ Len(file) \in Nat
  BY DEF TypeInv
<1>6. d + 1 \in 1 .. 3 + 2 * n
  BY <1>1, <1>4
<1> HIDE DEF x, S, n, d
<1>7. CASE d = 0
  <2>1. step = Open
    BY <1>1, <1>4, <1>7
  <2>2. pos' = 0
    BY <1>1, <2>1, ByOp, MovedIs DEF Open
  <2> QED
    BY <1>2, <1>7, <2>2 DEF WriterAt, S, n
<1>8. CASE d = 1
  <2>1. step = Fill(x.c, S)
    BY <1>1, <1>4, <1>8
  <2>2. /\ \A k \in 1 .. EndSize : buf'[k] = IF k <= S THEN x.c ELSE buf[k]
        /\ pos' = pos
    BY <1>1, <2>1, ByOp, OthersAre DEF Fill
  <2>3. pos = 0
    BY <1>3, <1>8 DEF WriterAt
  <2>4. \A k \in 1 .. S : buf'[k] = Pattern(x)[0]
    <3>1. Pattern(x)[0] = x.c
      BY <1>1, PatternIs
    <3> QED
      BY <1>2, <2>2, <3>1
  <2>5. (\A i \in 0 .. n : d + 1 # 3 + 2 * i) /\ (\A i \in 1 .. n : d + 1 # 2 + 2 * i)
    BY <1>2, <1>8
  <2> QED
    BY <2>2, <2>3, <2>4, <2>5 DEF WriterAt, S, n
<1>9. CASE d = 2
  <2>1. step = DivideBy(S)
    BY <1>1, <1>4, <1>9
  <2>2. buf' = buf /\ pos' = pos /\ file' = file
    BY <1>1, <2>1, ByOp, OthersAre DEF DivideBy
  <2>3. pos = 0 /\ \A k \in 1 .. S : buf[k] = Pattern(x)[0]
    BY <1>3, <1>9 DEF WriterAt, S
  <2>4. Full(x, 0 * S, file) /\ 0 * S = 0
    BY <1>2, <1>5 DEF Full
  <2>5. (\A i \in 0 .. n : d + 1 = 3 + 2 * i => i = 0) /\ d + 1 # 2
        /\ (\A i \in 1 .. n : d + 1 # 2 + 2 * i)
    BY <1>2, <1>9
  <2> QED
    BY <2>2, <2>3, <2>4, <2>5 DEF WriterAt, S, n
<1>10. ASSUME NEW i \in 1 .. n, d + 1 = 2 * i + 2
       PROVE  Goal
  <2>1. step = Write(S, "report")
    BY <1>1, <1>4, <1>10
  <2>2. /\ Put(S) /\ buf' = buf /\ file' \in Seq(Int) /\ Len(file') >= Len(file)
        /\ \A k \in 1 .. Len(file) : k <= pos => file'[k] = file[k]
    BY <1>1, <2>1, ByOp, WriteIs DEF Write
  <2>3. i - 1 \in 0 .. n /\ d = 3 + 2 * (i - 1) /\ i - 1 \in Nat
    BY <1>1, <1>2, <1>10
  <2>4. /\ pos = (i - 1) * S /\ Full(x, (i - 1) * S, file)
        /\ \A k \in 1 .. S : buf[k] = Pattern(x)[i - 1]
    BY <1>3, <2>3 DEF WriterAt, S, n
  <2>5. (i - 1) * S \in Nat /\ i * S \in Nat /\ (i - 1) * S + S = i * S
    BY <1>2, Blocks
  <2>6. Full(x, (i - 1) * S + S, file')
    <3> DEFINE j == i - 1
    <3>1. /\ j \in Nat /\ j * S \in Nat /\ Full(x, j * S, file)
          /\ S > 0 => Len(file') >= j * S + S
          /\ \A k \in 1 .. Len(file) : k <= j * S => file'[k] = file[k]
          /\ \A k \in 1 .. S : file'[j * S + k] = Pattern(x)[j]
          /\ Len(file') >= Len(file)
      BY <2>2, <2>3, <2>4, <2>5 DEF Put
    <3> HIDE DEF j
    <3>2. S \in Nat /\ file \in Seq(Int) /\ file' \in Seq(Int) /\ x \in Commands
      BY <1>1, <1>2, <1>5, <2>2
    <3>3. Full(x, j * S + S, file')
      BY <3>1, <3>2, FullGrows DEF S
    <3> QED
      BY <3>3 DEF j
  <2>7. pos' = i * S /\ Full(x, i * S, file')
    BY <2>2, <2>4, <2>5, <2>6 DEF Put
  <2>8. /\ \A j \in 1 .. n : d + 1 = 2 + 2 * j => j = i
        /\ d + 1 # 2 /\ ~(d + 1 <= 3) /\ \A j \in 0 .. n : d + 1 # 3 + 2 * j
    BY <1>2, <1>10
  <2> QED
    BY <2>7, <2>8 DEF WriterAt, S, n
<1>11. ASSUME NEW i \in 1 .. n, d + 1 = 2 * i + 3
       PROVE  Goal
  <2>1. step = Fill(Pattern(x)[i], S)
    BY <1>1, <1>4, <1>11
  <2>2. /\ \A k \in 1 .. EndSize : buf'[k] = IF k <= S THEN Pattern(x)[i] ELSE buf[k]
        /\ pos' = pos /\ file' = file
    BY <1>1, <2>1, ByOp, OthersAre DEF Fill
  <2>3. d = 2 + 2 * i /\ i \in 0 .. n
    BY <1>1, <1>2, <1>11
  <2>4. pos = i * S /\ Full(x, i * S, file)
    BY <1>3, <2>3 DEF WriterAt, S, n
  <2>5. \A k \in 1 .. S : buf'[k] = Pattern(x)[i]
    BY <1>2, <2>2
  <2>6. /\ \A j \in 0 .. n : d + 1 = 3 + 2 * j => j = i
        /\ d + 1 # 2 /\ ~(d + 1 <= 3) /\ \A j \in 1 .. n : d + 1 # 2 + 2 * j
    BY <1>2, <1>11
  <2> QED
    BY <2>2, <2>4, <2>5, <2>6 DEF WriterAt, S, n
<1>12. \/ d = 0 \/ d = 1 \/ d = 2
       \/ \E i \in 1 .. n : d + 1 = 2 * i + 2 \/ d + 1 = 2 * i + 3
  <2>1. SUFFICES ASSUME d >= 3
                 PROVE  \E i \in 1 .. n : d + 1 = 2 * i + 2 \/ d + 1 = 2 * i + 3
    BY <1>1, <1>2, <1>6
  <2> DEFINE i == (d - 1) \div 2
  <2>2. d - 1 \in Nat
    BY <1>1, <2>1
  <2>3. i \in Nat /\ (d - 1 = 2 * i \/ d - 1 = 2 * i + 1)
    BY <2>2
  <2> HIDE DEF i
  <2>4. i \in 1 .. n /\ (d + 1 = 2 * i + 2 \/ d + 1 = 2 * i + 3)
    BY <1>1, <1>2, <1>6, <2>1, <2>3
  <2> QED
    BY <2>4
<1> HIDE DEF Goal
<1> QED
  BY <1>7, <1>8, <1>9, <1>10, <1>11, <1>12

(* The invariant of the writer is one. *)
LEMMA WriterKept ==
    ASSUME TypeInv, Underway, WriterInv, [Next]_vars
    PROVE  WriterInv'
<1> DEFINE Goal == WriterAt(cmd', Taken', pos', buf', file')
<1> SUFFICES ASSUME cmd'.prog \in Writers, ~reported', end' = "well" PROVE Goal
  BY DEF WriterInv
<1>1. ASSUME NEW x \in Commands, Run(x) PROVE Goal
  <2>1. cmd' = x /\ Taken' = 0 /\ pos' = 0
    BY <1>1, RunIs
  <2>2. Count(x) \in Nat
    BY <1>1, SizeFacts
  <2>3. WriterAt(x, 0, 0, buf', file')
    BY <2>2 DEF WriterAt
  <2> QED
    BY <2>1, <2>3
<1>2. CASE Moves
  <2>1. cmd' = cmd /\ Taken' = Taken + 1
    BY <1>2, Forward DEF Continued
  <2> QED
    BY <1>2, <2>1, WriterStep
<1>3. CASE Back
  BY <1>3, BackIs DEF WriterInv
<1>4. CASE Crash
  BY <1>4, CrashIs
<1>5. CASE UNCHANGED vars
  BY <1>5, StutterIs DEF WriterInv
<1> HIDE DEF Goal
<1> QED
  BY <1>1, <1>2, <1>3, <1>4, <1>5, Alternatives

(* The same arguments are the same sizes and the same pattern.             *)
LEMMA SameArguments ==
    ASSUME NEW x \in Commands, NEW y \in Commands, [y EXCEPT !.prog = x.prog] = x
    PROVE  Size(x) = Size(y) /\ Count(x) = Count(y) /\ Pattern(x) = Pattern(y)
<1>1. y \in [prog : Programs, req : Int, file : Nat, c : 1 .. 126, at : Nat, times : Nat]
  BY StorageAssumption
<1>2. x.req = y.req /\ x.file = y.file /\ x.c = y.c
  BY <1>1
<1>3. Size(x) = Size(y) /\ FileSize(x) = FileSize(y)
  BY <1>2 DEF Size, FileSize
<1>4. Count(x) = Count(y)
  BY <1>3 DEF Count
<1>5. Pattern(x) = Pattern(y)
  BY <1>2 DEF Pattern
<1> QED
  BY <1>3, <1>4, <1>5

(* A reader that trusts the writer before it finds the pattern.            *)
LEMMA TrustKept ==
    ASSUME TypeInv, Underway, ReaderInv, WriterInv, TrustInv, [Next]_vars
    PROVE  TrustInv'
<1> DEFINE Trusts == /\ cmd.prog = "integrity_test2_read" /\ trusted # NoCommand
                     /\ [trusted EXCEPT !.prog = cmd.prog] = cmd
           Goal == /\ ~reported'
                   /\ end' = "well" => Full(cmd', Count(cmd') * Size(cmd'), file')
<1>0. TrustInv = (Trusts => ~reported
                           /\ (end = "well" => Full(cmd, Count(cmd) * Size(cmd), file)))
  BY DEF TrustInv
<1> SUFFICES ASSUME Trusts' PROVE Goal
  BY DEF TrustInv
<1>1. ASSUME NEW x \in Commands, Run(x) PROVE Goal
  <2>1. /\ cmd' = x /\ reported' = FALSE /\ file' = file /\ todo = <<>>
        /\ trusted' = IF end = "well" /\ ~reported /\ cmd.prog \in Writers THEN cmd
                      ELSE NoCommand
    BY <1>1, RunIs
  <2> DEFINE y == cmd
  <2>2. end = "well" /\ ~reported /\ y.prog \in Writers /\ [y EXCEPT !.prog = x.prog] = x
    BY <2>1
  <2>3. y \in Commands /\ Taken = Len(IntegrityWrite(y))
    <3>1. y.prog # "none"
      BY <2>2 DEF Writers
    <3> QED
      BY <2>1, <2>2, <3>1, EndIs, ScriptOf DEF Writers
  <2>4. Taken = 3 + 2 * Count(y) /\ Count(y) \in 0 .. Count(y)
    BY <2>3, IntegrityWriteScript, SizeFacts
  <2>5. WriterAt(y, Taken, pos, buf, file)
    BY <2>2 DEF WriterInv
  <2>6. Full(y, Count(y) * Size(y), file)
    BY <2>4, <2>5 DEF WriterAt
  <2> HIDE DEF y
  <2>7. Size(x) = Size(y) /\ Count(x) = Count(y) /\ Pattern(x) = Pattern(y)
    BY <2>2, <2>3, SameArguments
  <2>8. Full(x, Count(x) * Size(x), file)
    BY <2>6, <2>7 DEF Full
  <2> QED
    BY <2>1, <2>8
<1>2. CASE Moves
  <2> DEFINE x == cmd
             S == Size(x)
             n == Count(x)
             d == Taken
  <2>1. cmd' = x /\ trusted' = trusted /\ end = "well"
    BY <1>2, Forward
  <2>2. Trusts
    BY <2>1
  <2>3. ~reported /\ Full(x, n * S, file)
    BY <1>0, <2>1, <2>2
  <2>4. /\ x \in Commands /\ d \in Nat /\ step \in Steps /\ file' = file
        /\ \/ reported' = reported
           \/ \E i \in 1 .. n :
                  d = i + 2 /\ ReadBlock /\ step = Read(S, Pattern(x)[i - 1], "report")
    BY <1>2, <2>2, ReaderSteps
  <2>5. ReaderAt(x, d, pos, file)
    BY <2>1, <2>2, <2>3 DEF ReaderInv
  <2>6. ASSUME NEW i \in 1 .. n,
               d = i + 2, ReadBlock, step = Read(S, Pattern(x)[i - 1], "report")
        PROVE  ~reported'
    <3> DEFINE p == (i - 1) * S
               q == i * S
               m == n * S
               c == Pattern(x)[i - 1]
    <3>1. S \in Nat /\ n \in Nat /\ S > 0 /\ S \in 1 .. S /\ 1 \in 1 .. S
      <4>1. S \in 0 .. EndSize /\ n \in Nat /\ EndSize \in Nat /\ (n > 0 => S > 0)
        BY <2>4, SizeFacts, Constants
      <4> HIDE DEF S, n
      <4> QED
        BY <4>1
    <3> HIDE DEF x, S, n, d
    <3>2. p \in Nat /\ q \in Nat /\ p + S = q /\ q <= m /\ m \in Nat
      BY <3>1, Blocks
    <3>3. pos = p
      <4>1. i - 1 \in 0 .. n /\ d = 3 + (i - 1)
        BY <2>6, <3>1
      <4> QED
        BY <2>5, <4>1 DEF ReaderAt, S, n
    <3>4. m <= Len(file) /\ \A k \in 1 .. m : file[k] = Pattern(x)[(k - 1) \div S]
      BY <2>3 DEF Full, S, n
    <3>5. ASSUME NEW k \in Nat, p < k, k <= p + S
          PROVE  (k - 1) \div S = i - 1
      <4>1. i - 1 \in Nat /\ S \in Nat \ {0} /\ (i - 1) * S < k /\ k <= (i - 1) * S + S
        BY <3>1, <3>5
      <4> QED
        BY <4>1, InBlock
    <3> HIDE DEF p, q, m, c
    <3>6. Len(file) \in Nat
      BY DEF TypeInv
    <3>7. p + 1 \in 1 .. m /\ p + S \in 1 .. m /\ p + S <= Len(file)
      BY <3>1, <3>2, <3>4, <3>6
    <3>8. file[p + 1] = c /\ file[p + S] = c
      <4>1. ASSUME NEW k \in 1 .. m, p < k, k <= p + S
            PROVE  file[k] = c
        <5>1. k \in Nat
          BY <3>2
        <5>2. (k - 1) \div S = i - 1
          BY <3>5, <4>1, <5>1
        <5> QED
          BY <3>4, <5>2 DEF c
      <4>2. p < p + 1 /\ p + 1 <= p + S /\ p < p + S
        BY <3>1, <3>2
      <4> QED
        BY <3>1, <3>2, <3>7, <4>1, <4>2
    <3>9. step.n = S /\ step.want = c
      BY <2>6 DEF Read, c
    <3>10. Got(S)
      <4>1. pos + step.n <= Len(file) => Got(step.n)
        BY <2>4, <2>6, ReadIs
      <4> QED
        BY <3>3, <3>7, <3>9, <4>1
    <3>11. buf'[1] = c /\ buf'[S] = c
      <4>1. \A k \in 1 .. S : buf'[k] = file[p + k]
        BY <3>3, <3>10 DEF Got
      <4> QED
        BY <3>1, <3>8, <4>1
    <3>12. reported' = reported
      <4>1. Got(step.n) /\ (step.want # AnyByte => buf'[1] = step.want /\ buf'[step.n] = step.want)
            => reported' = reported
        BY <2>4, <2>6, ReadIs
      <4> QED
        BY <3>9, <3>10, <3>11, <4>1
    <3> QED
      BY <2>3, <3>12
  <2>7. ~reported'
    BY <2>3, <2>4, <2>6
  <2> QED
    BY <2>1, <2>3, <2>4, <2>7
<1>3. CASE Back
  <2>1. /\ cmd' = cmd /\ trusted' = trusted /\ reported' = reported
        /\ (end' = end /\ file' = file) \/ end' = "crash"
    BY <1>3, BackIs
  <2>2. Trusts
    BY <2>1
  <2>3. ~reported /\ (end = "well" => Full(cmd, Count(cmd) * Size(cmd), file))
    BY <1>0, <2>2
  <2> QED
    BY <2>1, <2>3
<1>4. CASE Crash
  <2>1. /\ cmd' = cmd /\ trusted' = trusted /\ reported' = reported
        /\ (end' = end /\ file' = file) \/ end' = "crash"
    BY <1>4, CrashIs
  <2>2. Trusts
    BY <2>1
  <2>3. ~reported /\ (end = "well" => Full(cmd, Count(cmd) * Size(cmd), file))
    BY <1>0, <2>2
  <2> QED
    BY <2>1, <2>3
<1>5. CASE UNCHANGED vars
  <2>1. /\ cmd' = cmd /\ trusted' = trusted /\ reported' = reported
        /\ (end' = end /\ file' = file) \/ end' = "crash"
    BY <1>5, StutterIs
  <2>2. Trusts
    BY <2>1
  <2>3. ~reported /\ (end = "well" => Full(cmd, Count(cmd) * Size(cmd), file))
    BY <1>0, <2>2
  <2> QED
    BY <2>1, <2>3
<1> HIDE DEF Goal
<1> QED
  BY <1>1, <1>2, <1>3, <1>4, <1>5, Alternatives

(* What a silent writer has written the reader finds, given the same       *)
(* arguments: it prints no error                                           *)
(* (integrity_test2_write.c:90-104, integrity_test2_direct.c:89-102,       *)
(* integrity_test2_read.c:92-108).                                         *)
THEOREM ReaderFindsWhatWasWritten == Spec => []WrittenIsReadBack
<1>1. Init => Base /\ ReaderInv /\ WriterInv /\ TrustInv
  BY BaseInit, NoneYet DEF ReaderInv, WriterInv, TrustInv, Writers
<1>2. Base /\ ReaderInv /\ WriterInv /\ TrustInv /\ [Next]_vars
      => (Base /\ ReaderInv /\ WriterInv /\ TrustInv)'
  BY TypeKept, UnderwayKept, ReaderKept, WriterKept, TrustKept DEF Base
<1>3. Base /\ ReaderInv /\ WriterInv /\ TrustInv => WrittenIsReadBack
  BY DEF TrustInv, WrittenIsReadBack
<1> QED
  BY <1>1, <1>2, <1>3, PTL DEF Spec

-----------------------------------------------------------------------------
(* Who touches a page behind the end of the file *)

(* Only the removal of the file makes it shorter. *)
LEMMA FileKept ==
    ASSUME TypeInv, Underway, Moves, step.op # "unlink"
    PROVE  file' \in Seq(Int) /\ Len(file') >= Len(file)
<1>1. step \in Steps
  BY Forward
<1>2. file \in Seq(Int) /\ Len(file) \in Nat
  BY DEF TypeInv
<1>3. CASE MoveTo
  BY <1>1, <1>2, <1>3, MovedIs
<1>4. CASE ReadBlock
  BY <1>1, <1>2, <1>4, ReadIs
<1>5. CASE WriteBlock
  BY <1>1, <1>5, WriteIs
<1>6. CASE Memset \/ Sync \/ Divide
  BY <1>2, <1>6, OthersAre
<1>7. CASE SwapCards
  BY <1>2, <1>7 DEF SwapCards
<1>8. CASE StoreMapped
  BY <1>1, <1>2, <1>8, StoreIs
<1>9. CASE LoadMapped
  BY <1>2, <1>9 DEF LoadMapped
<1>10. CASE RemoveFile
  BY <1>10 DEF RemoveFile, Takes
<1> QED
  BY <1>3, <1>4, <1>5, <1>6, <1>7, <1>8, <1>9, <1>10 DEF Moves

(* A program that fills the file opens it and writes it in blocks.         *)
LEMMA FillScript ==
    ASSUME NEW x \in Commands, x.prog \in Fillers, Script(x) # <<>>
    PROVE  LET s == Script(x)
               h == FillFirst(x)
               g == FillTimes(x)
               b == FillBlock(x)
           IN  /\ h \in {1, 2} /\ g \in Nat /\ b \in Nat /\ g * b \in Nat
               /\ s[1] = Open
               /\ h = 2 => s[2].op = "fill"
               /\ \A i \in 1 .. g : s[h + i] = Write(b, "ignore")
               /\ \A k \in 1 .. Len(s) : s[k].op # "unlink"
<1> DEFINE s == Script(x)
           h == FillFirst(x)
           g == FillTimes(x)
           b == FillBlock(x)
           n == Count(x)
           Goal == /\ h \in {1, 2} /\ g \in Nat /\ b \in Nat /\ g * b \in Nat
                   /\ s[1] = Open
                   /\ h = 2 => s[2].op = "fill"
                   /\ \A i \in 1 .. g : s[h + i] = Write(b, "ignore")
                   /\ \A k \in 1 .. Len(s) : s[k].op # "unlink"
<1> SUFFICES Goal
  OBVIOUS
<1>1. CASE x.prog = "mmap_read"
  <2>1. s = MmapRead(x) /\ h = 1 /\ g = Greatest(1, FileSize(x) \div EndSize) /\ b = EndSize
    BY <1>1, ScriptOf DEF FillFirst, FillTimes, FillBlock
  <2>2. /\ g \in Nat /\ g > 0
        /\ Len(s) = 4 + g + n
        /\ s[1] = Open
        /\ \A i \in 1 .. g : s[1 + i] = Write(EndSize, "ignore")
        /\ s[2 + g] = DivideBy(Size(x))
        /\ \A i \in 1 .. n : s[2 + g + i] = Load(Size(x) * (i - 1), Size(x))
        /\ s[3 + g + n] = DivideBy(n)
        /\ s[4 + g + n] = Msync(0, FileSize(x))
    BY <2>1, MmapReadScript
  <2>3. EndSize \in Nat /\ n \in Nat
    BY Constants, SizeFacts
  <2>4. g * b \in Nat
    BY <2>1, <2>2, <2>3
  <2> HIDE DEF s, h, g, b, n
  <2>5. ASSUME NEW k \in 1 .. Len(s) PROVE s[k].op # "unlink"
    <3>1. \/ k = 1 \/ k = 2 + g \/ k = 3 + g + n \/ k = 4 + g + n
          \/ k \in 2 .. 1 + g \/ k \in 3 + g .. 2 + g + n
      BY <2>2, <2>3
    <3>2. CASE k = 1 \/ k = 2 + g \/ k = 3 + g + n \/ k = 4 + g + n
      BY <2>2, <3>2 DEF Open, DivideBy, Msync
    <3>3. CASE k \in 2 .. 1 + g
      <4>1. k - 1 \in 1 .. g /\ k = 1 + (k - 1)
        BY <2>2, <3>3
      <4>2. s[1 + (k - 1)] = Write(EndSize, "ignore")
        BY <2>2, <4>1
      <4> QED
        BY <4>1, <4>2 DEF Write
    <3>4. CASE k \in 3 + g .. 2 + g + n
      <4> DEFINE i == k - 2 - g
      <4>1. i \in 1 .. n /\ k = 2 + g + i
        BY <2>2, <2>3, <3>4
      <4> HIDE DEF i
      <4>2. s[k] = Load(Size(x) * (i - 1), Size(x))
        BY <2>2, <4>1
      <4> QED
        BY <4>2 DEF Load
    <3> QED
      BY <3>1, <3>2, <3>3, <3>4
  <2> QED
    BY <2>1, <2>2, <2>3, <2>4, <2>5
<1>2. CASE x.prog = "munmap-test"
  <2>1. s = MunmapTest(x) /\ h = 2 /\ g = FileSize(x) \div Page /\ b = Page
    BY <1>2, ScriptOf DEF FillFirst, FillTimes, FillBlock
  <2>2. /\ Len(s) = 5 + g
        /\ s[1] = Open
        /\ s[2] = Fill(97, Page)
        /\ \A i \in 1 .. g : s[i + 2] = Write(Page, "ignore")
        /\ s[3 + g] = Store(0, Page, 98, Page)
        /\ s[4 + g] = Store(2 * Page, Page, 99, 3 * Page)
        /\ s[5 + g] = Msync(2 * Page, 3 * Page)
    BY <2>1, MunmapTestScript
  <2>3. g \in Nat /\ Page \in Nat /\ g * b \in Nat
    BY <2>1, PagesFit, Constants
  <2> HIDE DEF s, h, g, b
  <2>4. \A i \in 1 .. g : s[2 + i] = Write(Page, "ignore")
    <3>1. \A i \in 1 .. g : i + 2 = 2 + i
      BY <2>3
    <3> QED
      BY <2>2, <3>1
  <2>5. ASSUME NEW k \in 1 .. Len(s) PROVE s[k].op # "unlink"
    <3>1. k \in {1, 2} \/ k \in {3 + g, 4 + g, 5 + g} \/ k \in 3 .. 2 + g
      BY <2>2, <2>3
    <3>2. CASE k \in {1, 2} \/ k \in {3 + g, 4 + g, 5 + g}
      BY <2>2, <3>2 DEF Open, Fill, Store, Msync
    <3>3. CASE k \in 3 .. 2 + g
      <4>1. k - 2 \in 1 .. g /\ k = 2 + (k - 2)
        BY <2>3, <3>3
      <4>2. s[2 + (k - 2)] = Write(Page, "ignore")
        BY <2>4, <4>1
      <4> QED
        BY <4>1, <4>2 DEF Write
    <3> QED
      BY <3>1, <3>2, <3>3
  <2>6. s[2].op = "fill"
    BY <2>2 DEF Fill
  <2> QED
    BY <2>1, <2>2, <2>3, <2>4, <2>5, <2>6
<1>3. ASSUME NEW steps \in Seq(Steps), s = FilledWithA(x, steps),
             \A k \in 1 .. Len(steps) : steps[k].op # "unlink",
             x.prog \in {"msync-test", "mprotect-test"}
      PROVE  Goal
  <2>1. h = 2 /\ g = FileSize(x) \div BufSize(x) /\ b = BufSize(x)
    BY <1>3 DEF FillFirst, FillTimes, FillBlock
  <2> DEFINE m == Len(steps)
  <2>2. /\ Len(s) = 3 + g + m
        /\ s[1] = Open /\ s[2] = Fill(97, b)
        /\ \A i \in 1 .. g : s[2 + i] = Write(b, "ignore")
        /\ s[3 + g] = DivideBy(Size(x))
        /\ \A k \in 1 .. m : s[3 + g + k] = steps[k]
    BY <1>3, <2>1, FilledWithAScript
  <2>3. g \in Nat /\ b \in 0 .. EndSize /\ EndSize \in Nat /\ g * b \in Nat /\ m \in Nat
    BY <1>3, <2>1, BufSizeFacts, Constants
  <2>4. \A k \in 1 .. m : steps[k].op # "unlink"
    BY <1>3
  <2> HIDE DEF s, h, g, b, m
  <2>5. ASSUME NEW k \in 1 .. Len(s) PROVE s[k].op # "unlink"
    <3>0. k \in Int /\ 1 <= k /\ k <= 3 + g + m
      BY <2>2, <2>3
    <3>1. k \in {1, 2, 3 + g} \/ k \in 3 .. 2 + g \/ k \in 4 + g .. 3 + g + m
      <4>1. CASE k <= 2
        BY <3>0, <4>1
      <4>2. CASE k > 2 /\ k <= 2 + g
        BY <2>3, <3>0, <4>2
      <4>3. CASE k > 2 + g
        BY <2>3, <3>0, <4>3
      <4> QED
        BY <2>3, <3>0, <4>1, <4>2, <4>3
    <3>2. CASE k \in {1, 2, 3 + g}
      BY <2>2, <3>2 DEF Open, Fill, DivideBy
    <3>3. CASE k \in 3 .. 2 + g
      <4>1. k - 2 \in 1 .. g /\ k = 2 + (k - 2)
        BY <2>3, <3>3
      <4>2. s[2 + (k - 2)] = Write(b, "ignore")
        BY <2>2, <4>1
      <4> QED
        BY <4>1, <4>2 DEF Write
    <3>4. CASE k \in 4 + g .. 3 + g + m
      <4> DEFINE i == k - 3 - g
      <4>1. i \in 1 .. m /\ k = 3 + g + i
        BY <2>3, <3>4
      <4> HIDE DEF i
      <4>2. s[k] = steps[i]
        BY <2>2, <4>1
      <4> QED
        BY <2>4, <4>1, <4>2
    <3> QED
      BY <3>1, <3>2, <3>3, <3>4
  <2>6. s[2].op = "fill"
    BY <2>2 DEF Fill
  <2>7. b \in Nat
    BY <2>3
  <2> QED
    BY <2>1, <2>2, <2>3, <2>5, <2>6, <2>7
<1> HIDE DEF Goal
<1>4. CASE x.prog = "msync-test"
  <2>1. MsyncTestSteps(x) \in Seq(Steps) /\ s = FilledWithA(x, MsyncTestSteps(x))
    BY <1>4, FilledPrograms, ScriptOf
  <2>2. \A k \in 1 .. Len(MsyncTestSteps(x)) : MsyncTestSteps(x)[k].op # "unlink"
    BY DEF MsyncTestSteps, Store, Msync, DivideBy
  <2> QED
    BY <1>3, <1>4, <2>1, <2>2
<1>5. CASE x.prog = "mprotect-test"
  <2>1. MprotectTestSteps(x) \in Seq(Steps) /\ s = FilledWithA(x, MprotectTestSteps(x))
    BY <1>5, FilledPrograms, ScriptOf
  <2>2. \A k \in 1 .. Len(MprotectTestSteps(x)) : MprotectTestSteps(x)[k].op # "unlink"
    BY DEF MprotectTestSteps, Store, Msync, DivideBy, Seek, Fill, Write
  <2> QED
    BY <1>3, <1>5, <2>1, <2>2
<1> QED
  BY <1>1, <1>2, <1>4, <1>5 DEF Fillers

(* A step of such a program keeps what its place says. *)
LEMMA FillStep ==
    ASSUME TypeInv, Underway, FillInv, Moves, cmd.prog \in Fillers, ~short'
    PROVE  FillAt(Taken + 1, FillFirst(cmd), FillTimes(cmd), FillBlock(cmd), pos', Len(file'))
<1> DEFINE x == cmd
           s == Script(x)
           h == FillFirst(x)
           g == FillTimes(x)
           b == FillBlock(x)
           d == Taken
           Goal == FillAt(d + 1, h, g, b, pos', Len(file'))
<1> SUFFICES Goal
  OBVIOUS
<1>1. /\ x \in Commands /\ end = "well" /\ step \in Steps /\ ~short
      /\ d \in Nat /\ d + 1 \in 1 .. Len(s) /\ step = s[d + 1]
  BY Forward, NotTakenBack
<1>2. s # <<>>
  <2>1. s = <<>> => Len(s) = 0
    OBVIOUS
  <2> HIDE DEF s, d
  <2> QED
    BY <1>1, <2>1
<1>3. /\ h \in {1, 2} /\ g \in Nat /\ b \in Nat /\ g * b \in Nat
      /\ s[1] = Open
      /\ h = 2 => s[2].op = "fill"
      /\ \A i \in 1 .. g : s[h + i] = Write(b, "ignore")
      /\ \A k \in 1 .. Len(s) : s[k].op # "unlink"
  BY <1>1, <1>2, FillScript
<1>4. FillAt(d, h, g, b, pos, Len(file))
  BY <1>1, <1>2 DEF FillInv
<1>5. Len(file) \in Nat /\ pos \in Nat
  BY DEF TypeInv
<1> HIDE DEF x, s, h, g, b, d
<1>6. file' \in Seq(Int) /\ Len(file') \in Nat /\ Len(file') >= Len(file)
  BY <1>1, <1>3, FileKept
<1>7. CASE d < h
  <2>1. pos' = 0
    <3>1. CASE d = 0
      <4>1. step = Open
        BY <1>1, <1>3, <3>1
      <4> QED
        BY <1>1, <4>1, ByOp, MovedIs DEF Open
    <3>2. CASE d = 1
      <4>1. h = 2 /\ step.op = "fill"
        BY <1>1, <1>3, <1>7, <3>2
      <4>2. pos' = pos
        BY <4>1, ByOp, OthersAre
      <4> QED
        BY <1>3, <1>4, <3>2, <4>1, <4>2 DEF FillAt
    <3> QED
      BY <1>1, <1>3, <1>7, <3>1, <3>2
  <2>2. \A i \in 0 .. g : d + 1 = h + i => i = 0
    BY <1>1, <1>3, <1>7
  <2>3. 0 * b = 0
    BY <1>3
  <2>4. d + 1 >= h + g => g = 0
    BY <1>1, <1>3, <1>7
  <2> QED
    BY <1>6, <2>1, <2>2, <2>3, <2>4 DEF FillAt
<1>8. ASSUME NEW i \in 1 .. g, d + 1 = h + i
      PROVE  Goal
  <2>1. step = Write(b, "ignore")
    BY <1>1, <1>3, <1>8
  <2>2. Put(b)
    BY <1>1, <2>1, ByOp, WriteIs DEF Write
  <2>3. i - 1 \in 0 .. g /\ d = h + (i - 1)
    BY <1>1, <1>3, <1>8
  <2>4. pos = (i - 1) * b
    BY <1>4, <2>3 DEF FillAt
  <2>5. (i - 1) * b \in Nat /\ i * b \in Nat /\ (i - 1) * b + b = i * b
    BY <1>3, Blocks
  <2>6. pos' = i * b /\ Len(file') >= i * b
    <3> DEFINE p == (i - 1) * b
               q == i * b
    <3>1. p \in Nat /\ q = p + b /\ pos = p
      BY <2>4, <2>5
    <3> HIDE DEF p, q
    <3>2. ASSUME b > 0
          PROVE  pos' = q /\ Len(file') >= q
      BY <2>2, <3>1, <3>2 DEF Put
    <3>3. ASSUME b = 0
          PROVE  pos' = q /\ Len(file') >= q
      <4>1. i * 0 = 0 /\ i * b = 0
        BY <1>3, <3>3
      <4>2. q = 0
        BY <4>1 DEF q
      <4>3. pos' = pos + b
        BY <2>2 DEF Put
      <4> QED
        BY <1>6, <3>1, <3>3, <4>2, <4>3
    <3>4. pos' = q /\ Len(file') >= q
      BY <1>3, <3>2, <3>3
    <3> QED
      BY <3>4 DEF q
  <2>7. \A j \in 0 .. g : d + 1 = h + j => j = i
    BY <1>3, <1>8
  <2>8. ~(d + 1 <= h) /\ (d + 1 >= h + g => i = g)
    BY <1>1, <1>3, <1>8
  <2> QED
    BY <2>6, <2>7, <2>8 DEF FillAt
<1>9. CASE d >= h + g
  <2>1. Len(file) >= g * b
    BY <1>4, <1>9 DEF FillAt
  <2>2. Len(file') >= g * b
    <3> DEFINE q == g * b
    <3>1. q \in Nat /\ Len(file) >= q
      BY <1>3, <2>1
    <3> HIDE DEF q
    <3>2. Len(file') >= q
      BY <1>5, <1>6, <3>1
    <3> QED
      BY <3>2 DEF q
  <2>3. (\A i \in 0 .. g : d + 1 # h + i) /\ ~(d + 1 <= h)
    BY <1>1, <1>3, <1>9
  <2> QED
    BY <2>2, <2>3 DEF FillAt
<1>10. d < h \/ d >= h + g \/ \E i \in 1 .. g : d + 1 = h + i
  <2>1. SUFFICES ASSUME d >= h, d < h + g PROVE \E i \in 1 .. g : d + 1 = h + i
    BY <1>1, <1>3
  <2>2. d \in Int /\ h \in Int /\ g \in Int
    BY <1>1, <1>3
  <2>3. d + 1 - h >= 1 /\ d + 1 - h <= g
    BY <2>1, <2>2
  <2>4. d + 1 - h \in 1 .. g
    BY <2>2, <2>3
  <2>5. d + 1 = h + (d + 1 - h)
    BY <2>2
  <2> QED
    BY <2>4, <2>5
<1> HIDE DEF Goal
<1> QED
  BY <1>7, <1>8, <1>9, <1>10

(* The invariant of the programs that fill the file is one. *)
LEMMA FillKept ==
    ASSUME TypeInv, Underway, FillInv, [Next]_vars
    PROVE  FillInv'
<1> DEFINE Goal == FillAt(Taken', FillFirst(cmd'), FillTimes(cmd'), FillBlock(cmd'), pos',
                          Len(file'))
<1> SUFFICES ASSUME cmd'.prog \in Fillers, Script(cmd') # <<>>, ~short', end' = "well"
             PROVE  Goal
  BY DEF FillInv
<1>1. ASSUME NEW x \in Commands, Run(x) PROVE Goal
  <2>1. cmd' = x /\ Taken' = 0 /\ pos' = 0
    BY <1>1, RunIs
  <2> DEFINE h == FillFirst(x)
             g == FillTimes(x)
             b == FillBlock(x)
  <2>2. h \in {1, 2} /\ g \in Nat
    BY <2>1, FillScript
  <2> HIDE DEF h, g, b
  <2>3. (\A i \in 0 .. g : 0 # h + i) /\ ~(0 >= h + g)
    BY <2>2
  <2>4. FillAt(0, h, g, b, 0, Len(file'))
    BY <2>3 DEF FillAt
  <2> QED
    BY <2>1, <2>4 DEF h, g, b
<1>2. CASE Moves
  <2>1. cmd' = cmd /\ Taken' = Taken + 1
    BY <1>2, Forward DEF Continued
  <2> QED
    BY <1>2, <2>1, FillStep
<1>3. CASE Back
  BY <1>3, BackIs DEF FillInv
<1>4. CASE Crash
  BY <1>4, CrashIs
<1>5. CASE UNCHANGED vars
  BY <1>5, StutterIs DEF FillInv
<1> HIDE DEF Goal
<1> QED
  BY <1>1, <1>2, <1>3, <1>4, <1>5, Alternatives

(* A SIGBUS comes of a store or a load behind the last byte.               *)
LEMMA BusIs ==
    ASSUME TypeInv, Underway, Moves, end' = "SIGBUS"
    PROVE  /\ Len(file') = Len(file) /\ short' = short
           /\ \/ /\ step.op = "store"
                 /\ step.at + step.n > Len(file) \/ step.at + step.n > step.limit
              \/ step.op = "load" /\ step.at + step.n > Len(file)
<1>1. step \in Steps /\ end # "SIGBUS"
  BY Forward
<1>2. file \in Seq(Int) /\ Len(file) \in Nat
  BY DEF TypeInv
<1>3. CASE StoreMapped
  BY <1>1, <1>3, StoreIs DEF StoreMapped, Takes
<1>4. CASE LoadMapped
  <2>1. step.op = "load" /\ file' = file /\ short' = short /\ ~(step.at + step.n <= Mapped)
    BY <1>1, <1>4 DEF LoadMapped, Takes
  <2>2. step.at \in Nat /\ step.n \in Nat
    <3>1. step.at \in Nat /\ step.n \in Nat
      BY <1>1, <2>1 DEF Steps, UnmappedSteps
    <3> QED
      BY <3>1
  <2>3. Mapped \in Nat /\ Mapped >= Len(file)
    BY <1>2, MappedIs
  <2> QED
    BY <1>2, <2>1, <2>2, <2>3
<1>5. CASE MoveTo
  BY <1>1, <1>5, MovedIs
<1>6. CASE Memset \/ Sync \/ RemoveFile \/ SwapCards
  BY <1>1, <1>6 DEF Memset, Sync, RemoveFile, SwapCards, outcome
<1>7. CASE ReadBlock
  BY <1>1, <1>7 DEF ReadBlock, Checks, Dies
<1>8. CASE WriteBlock
  BY <1>1, <1>8 DEF WriteBlock, Checks, Dies
<1>9. CASE Divide
  BY <1>1, <1>9 DEF Divide, Dies
<1> QED
  BY <1>3, <1>4, <1>5, <1>6, <1>7, <1>8, <1>9 DEF Moves

(* Behind its writes the file is as long as they are together.             *)
LEMMA FilledBefore ==
    ASSUME TypeInv, Underway, FillInv, Moves, cmd.prog \in Fillers, ~short,
           step.op \in {"store", "load"}
    PROVE  /\ FillTimes(cmd) * FillBlock(cmd) \in Nat
           /\ Len(file) >= FillTimes(cmd) * FillBlock(cmd)
<1> DEFINE x == cmd
           s == Script(x)
           h == FillFirst(x)
           g == FillTimes(x)
           b == FillBlock(x)
           d == Taken
<1>1. /\ x \in Commands /\ end = "well"
      /\ d \in Nat /\ d + 1 \in 1 .. Len(s) /\ step = s[d + 1]
  BY Forward
<1>2. s # <<>>
  <2>1. s = <<>> => Len(s) = 0
    OBVIOUS
  <2> HIDE DEF s, d
  <2> QED
    BY <1>1, <2>1
<1>3. /\ h \in {1, 2} /\ g \in Nat /\ b \in Nat /\ g * b \in Nat
      /\ s[1] = Open
      /\ h = 2 => s[2].op = "fill"
      /\ \A i \in 1 .. g : s[h + i] = Write(b, "ignore")
  BY <1>1, <1>2, FillScript
<1>4. FillAt(d, h, g, b, pos, Len(file))
  BY <1>1, <1>2 DEF FillInv
<1> HIDE DEF x, s, h, g, b, d
<1>5. d # 0
  BY <1>1, <1>3 DEF Open
<1>6. ~(h = 2 /\ d = 1)
  BY <1>1, <1>3
<1>7. ASSUME d >= h, d < h + g PROVE FALSE
  <2> DEFINE i == d + 1 - h
  <2>1. i \in 1 .. g /\ d + 1 = h + i
    BY <1>1, <1>3, <1>7
  <2> HIDE DEF i
  <2>2. step = Write(b, "ignore")
    BY <1>1, <1>3, <2>1
  <2> QED
    BY <2>2 DEF Write
<1>8. d >= h + g
  BY <1>1, <1>3, <1>5, <1>6, <1>7
<1>9. Len(file) >= g * b
  BY <1>4, <1>8 DEF FillAt
<1> QED
  BY <1>3, <1>9 DEF g, b, x

(* The stores of the first two stay within the mapping,                    *)
LEMMA BusOfTheTrusting ==
    ASSUME TypeInv, Underway, Moves, end' = "SIGBUS",
           cmd.prog \in {"mmap_write", "mmap_to_ram"}
    PROVE  Len(file) < FileSize(cmd)
<1> DEFINE x == cmd
           s == Script(x)
           F == FileSize(x)
           S == Size(x)
           d == Taken
<1>1. /\ x \in Commands /\ d \in Nat /\ d + 1 \in 1 .. Len(s) /\ step = s[d + 1]
  BY Forward
<1>2. F \in Nat /\ F > 0 /\ Len(file) \in Nat /\ S \in Nat /\ Page \in Nat
  <2>1. F \in Page .. MaxFile /\ S \in 0 .. EndSize
    BY <1>1, SizeFacts
  <2>2. Page \in Nat /\ Page > 0 /\ MaxFile \in Nat /\ EndSize \in Nat
    BY Constants
  <2>3. Len(file) \in Nat
    BY DEF TypeInv
  <2> HIDE DEF F, S
  <2> QED
    BY <2>1, <2>2, <2>3
<1>3. ASSUME NEW at \in Nat, NEW n \in Nat, NEW c, step = Store(at, n, c, F), at + n <= F
      PROVE  Len(file) < F
  <2>1. step.op = "store" /\ step.at = at /\ step.n = n /\ step.limit = F
    BY <1>3 DEF Store
  <2>2. at + n > Len(file) \/ at + n > F
    <3>1. \/ /\ step.op = "store"
             /\ step.at + step.n > Len(file) \/ step.at + step.n > step.limit
          \/ step.op = "load" /\ step.at + step.n > Len(file)
      BY BusIs
    <3> QED
      BY <2>1, <3>1
  <2> HIDE DEF F
  <2> QED
    BY <1>2, <1>3, <2>2
<1>4. step.op \in {"store", "load"}
  BY BusIs
<1>5. ASSUME NEW m \in Nat, NEW n \in Nat, NEW i \in 1 .. n, n * m <= F,
             NEW c, step = Store(m * (i - 1), m, c, F)
      PROVE  Len(file) < F
  <2> DEFINE at == m * (i - 1)
             q == n * m
             r == i * m
  <2>1. at \in Nat /\ q \in Nat /\ r \in Nat /\ at + m = r /\ r <= q /\ q <= F
    BY <1>5, Blocks
  <2>2. step = Store(at, m, c, F)
    BY <1>5
  <2> HIDE DEF at, q, r, F
  <2>3. at + m <= F
    BY <1>2, <2>1
  <2> QED
    BY <1>3, <2>1, <2>2, <2>3 DEF F
<1>6. CASE x.prog = "mmap_write"
  <2> DEFINE n == Count(x)
  <2>1. s = MmapWrite(x)
    BY <1>1, <1>6, ScriptOf
  <2>2. /\ Len(s) = 5 + n
        /\ s[1] = Open /\ s[2] = DivideBy(S)
        /\ \A i \in 1 .. n : s[i + 2] = Store(S * (i - 1), S, Pattern(x)[i - 1], F)
        /\ s[3 + n] = DivideBy(n)
        /\ s[4 + n] = Msync(0, F)
        /\ s[5 + n] = Store(0, 1, 100, F)
    BY <1>1, <2>1, MmapWriteScript
  <2>3. n \in Nat /\ n * S <= F
    BY <1>1, SizeFacts
  <2> HIDE DEF x, s, F, S, d, n
  <2>4. d \notin {0, 1, 2 + n, 3 + n}
    <3>1. d = 0 => step.op = "open"
      BY <1>1, <2>2 DEF Open
    <3>2. d = 1 => step.op = "divide"
      BY <1>1, <2>2 DEF DivideBy
    <3>3. d = 2 + n => step.op = "divide"
      BY <1>1, <2>2, <2>3 DEF DivideBy
    <3>4. d = 3 + n => step.op = "sync"
      BY <1>1, <2>2, <2>3 DEF Msync
    <3> QED
      BY <1>4, <3>1, <3>2, <3>3, <3>4
  <2>5. CASE d = 4 + n
    <3>1. step = Store(0, 1, 100, F) /\ 0 \in Nat /\ 1 \in Nat /\ 0 + 1 <= F
      BY <1>1, <1>2, <2>2, <2>3, <2>5
    <3> QED
      BY <1>3, <3>1 DEF F, x
  <2>6. CASE d \in 2 .. 1 + n
    <3> DEFINE i == d - 1
    <3>1. i \in 1 .. n /\ d + 1 = i + 2
      BY <1>1, <2>3, <2>6
    <3> HIDE DEF i
    <3>2. step = Store(S * (i - 1), S, Pattern(x)[i - 1], F)
      BY <1>1, <2>2, <3>1
    <3> QED
      BY <1>2, <1>5, <2>3, <3>1, <3>2 DEF F, x
  <2> QED
    BY <1>1, <2>2, <2>3, <2>4, <2>5, <2>6
<1>7. CASE x.prog = "mmap_to_ram"
  <2> DEFINE n == F \div Page
  <2>1. s = MmapToRam(x)
    BY <1>1, <1>7, ScriptOf
  <2>2. /\ Len(s) = 1 + n
        /\ s[1] = Open
        /\ \A i \in 1 .. n : s[i + 1] = Store(Page * (i - 1), Page, 65, F)
    BY <1>1, <2>1, MmapToRamScript
  <2>3. n \in Nat /\ n * Page <= F
    BY <1>1, PagesFit
  <2> HIDE DEF x, s, F, S, d, n
  <2>4. d # 0
    BY <1>1, <1>4, <2>2 DEF Open
  <2>5. d \in 1 .. n /\ step = Store(Page * (d - 1), Page, 65, F)
    BY <1>1, <2>2, <2>3, <2>4
  <2> QED
    BY <1>2, <1>5, <2>3, <2>5 DEF F, x
<1> QED
  BY <1>6, <1>7

(* the loads of mmap_read within the file, if it is a multiple of the buffer, *)
LEMMA BusOfMmapRead ==
    ASSUME TypeInv, Underway, FillInv, Moves, end' = "SIGBUS", ~short, cmd.prog = "mmap_read"
    PROVE  FileSize(cmd) > EndSize /\ FileSize(cmd) % EndSize # 0
<1> DEFINE x == cmd
           s == MmapRead(x)
           F == FileSize(x)
           S == Size(x)
           n == Count(x)
           g == Greatest(1, F \div EndSize)
           d == Taken
<1>1. /\ x \in Commands /\ d \in Nat /\ d + 1 \in 1 .. Len(s) /\ step = s[d + 1]
  BY Forward, ScriptOf
<1>2. F \in Nat /\ F > 0 /\ Len(file) \in Nat /\ S \in Nat /\ n \in Nat
      /\ n * S \in Nat /\ n * S <= F /\ EndSize \in Nat /\ EndSize > 0
  <2>1. F \in Page .. MaxFile /\ S \in 0 .. EndSize /\ n \in Nat /\ n * S \in Nat /\ n * S <= F
    BY <1>1, SizeFacts
  <2>2. Page \in Nat /\ Page > 0 /\ MaxFile \in Nat /\ EndSize \in Nat /\ EndSize > Page
    BY Constants
  <2>3. Len(file) \in Nat
    BY DEF TypeInv
  <2> DEFINE q == n * S
  <2>4. q \in Nat /\ q <= F
    BY <2>1
  <2> HIDE DEF F, S, n, q
  <2>5. F \in Nat /\ F > 0 /\ S \in Nat /\ n \in Nat /\ EndSize > 0
    BY <2>1, <2>2
  <2> QED
    BY <2>2, <2>3, <2>4, <2>5 DEF q
<1>3. /\ g \in Nat /\ g > 0
      /\ Len(s) = 4 + g + n
      /\ s[1] = Open
      /\ \A i \in 1 .. g : s[1 + i] = Write(EndSize, "ignore")
      /\ s[2 + g] = DivideBy(S)
      /\ \A i \in 1 .. n : s[2 + g + i] = Load(S * (i - 1), S)
      /\ s[3 + g + n] = DivideBy(n)
      /\ s[4 + g + n] = Msync(0, F)
  BY <1>1, MmapReadScript
<1>4. /\ step.op \in {"store", "load"}
      /\ step.op = "load" => step.at + step.n > Len(file)
  BY BusIs
<1>5. g * EndSize \in Nat /\ Len(file) >= g * EndSize
  <2>1. cmd.prog \in Fillers
    BY DEF Fillers
  <2>2. FillTimes(cmd) = g /\ FillBlock(cmd) = EndSize
    BY DEF FillTimes, FillBlock
  <2> QED
    BY <1>4, <2>1, <2>2, FilledBefore
<1>6. ASSUME ~(F > EndSize /\ F % EndSize # 0)
      PROVE  F <= g * EndSize
  <2> DEFINE k == F \div EndSize
  <2>1. k \in Nat /\ F % EndSize \in Nat /\ F = EndSize * k + (F % EndSize)
    BY <1>2, Divided DEF F
  <2>2. g = Greatest(1, k)
    OBVIOUS
  <2> HIDE DEF F, k, g
  <2>3. CASE F <= EndSize
    <3>1. 1 * EndSize <= g * EndSize
      BY <1>2, <1>3, TimesMonotone
    <3> DEFINE q == g * EndSize
    <3>2. q \in Nat /\ EndSize <= q
      BY <1>2, <1>5, <3>1
    <3> HIDE DEF q
    <3>3. F <= q
      BY <1>2, <2>3, <3>2
    <3> QED
      BY <3>3 DEF q
  <2>4. CASE F % EndSize = 0
    <3>1. F = EndSize * k
      BY <1>2, <2>1, <2>4
    <3>2. k # 0
      <4>1. EndSize * 0 = 0
        BY <1>2
      <4> QED
        BY <1>2, <3>1, <4>1
    <3>3. g = k
      BY <2>1, <2>2, <3>2 DEF Greatest
    <3> QED
      BY <1>2, <2>1, <3>1, <3>3
  <2> QED
    BY <1>2, <1>6, <2>3, <2>4
<1> SUFFICES ASSUME ~(F > EndSize /\ F % EndSize # 0) PROVE FALSE
  OBVIOUS
<1>7. F <= g * EndSize
  BY <1>6
<1>8. F <= Len(file)
  <2> DEFINE q == g * EndSize
  <2>1. q \in Nat /\ F <= q /\ q <= Len(file)
    BY <1>5, <1>7
  <2> HIDE DEF q, F
  <2> QED
    BY <1>2, <2>1
<1> HIDE DEF x, s, F, S, n, g, d
<1>9. ASSUME NEW i \in 1 .. n, step = Load(S * (i - 1), S)
      PROVE  FALSE
  <2> DEFINE at == S * (i - 1)
             q == n * S
             r == i * S
  <2>1. at \in Nat /\ q \in Nat /\ r \in Nat /\ at + S = r /\ r <= q /\ q <= F
    BY <1>2, Blocks
  <2>2. step.op = "load" /\ step.at = at /\ step.n = S
    BY <1>9 DEF Load
  <2> HIDE DEF at, q, r
  <2>3. at + S > Len(file)
    BY <1>4, <2>2
  <2> QED
    BY <1>2, <1>8, <2>1, <2>3
<1>10. d \notin {0, 1 + g, 2 + g + n, 3 + g + n}
  <2>1. d = 0 => step.op = "open"
    BY <1>1, <1>3 DEF Open
  <2>2. d = 1 + g => step.op = "divide"
    BY <1>1, <1>3 DEF DivideBy
  <2>3. d = 2 + g + n => step.op = "divide"
    BY <1>1, <1>2, <1>3 DEF DivideBy
  <2>4. d = 3 + g + n => step.op = "sync"
    BY <1>1, <1>2, <1>3 DEF Msync
  <2> QED
    BY <1>4, <2>1, <2>2, <2>3, <2>4
<1>11. d \notin 1 .. g
  <2> SUFFICES ASSUME d \in 1 .. g PROVE FALSE
    OBVIOUS
  <2>1. step = Write(EndSize, "ignore")
    BY <1>1, <1>3
  <2> QED
    BY <1>4, <2>1 DEF Write
<1>12. d \notin 2 + g .. 1 + g + n
  <2> SUFFICES ASSUME d \in 2 + g .. 1 + g + n PROVE FALSE
    OBVIOUS
  <2> DEFINE i == d - 1 - g
  <2>1. i \in 1 .. n /\ d + 1 = 2 + g + i
    BY <1>1, <1>2, <1>3
  <2> HIDE DEF i
  <2>2. step = Load(S * (i - 1), S)
    BY <1>1, <1>3, <2>1
  <2> QED
    BY <1>9, <2>1, <2>2
<1> QED
  BY <1>1, <1>2, <1>3, <1>10, <1>11, <1>12

(* the stores of munmap-test within three pages,                           *)
LEMMA BusOfMunmapTest ==
    ASSUME TypeInv, Underway, FillInv, Moves, end' = "SIGBUS", ~short,
           cmd.prog = "munmap-test"
    PROVE  FileSize(cmd) < 3 * Page
<1> DEFINE x == cmd
           s == MunmapTest(x)
           F == FileSize(x)
           n == F \div Page
           d == Taken
<1>1. /\ x \in Commands /\ d \in Nat /\ d + 1 \in 1 .. Len(s) /\ step = s[d + 1]
  BY Forward, ScriptOf
<1>2. F \in Nat /\ Len(file) \in Nat /\ Page \in Nat /\ Page > 0
  <2>1. F \in Page .. MaxFile
    BY <1>1, SizeFacts
  <2>2. Page \in Nat /\ Page > 0 /\ MaxFile \in Nat
    BY Constants
  <2>3. Len(file) \in Nat
    BY DEF TypeInv
  <2> HIDE DEF F
  <2> QED
    BY <2>1, <2>2, <2>3
<1>3. /\ Len(s) = 5 + n
      /\ s[1] = Open /\ s[2] = Fill(97, Page)
      /\ \A i \in 1 .. n : s[i + 2] = Write(Page, "ignore")
      /\ s[3 + n] = Store(0, Page, 98, Page)
      /\ s[4 + n] = Store(2 * Page, Page, 99, 3 * Page)
      /\ s[5 + n] = Msync(2 * Page, 3 * Page)
  BY <1>1, MunmapTestScript
<1>4. /\ step.op \in {"store", "load"}
      /\ step.op = "load" => step.at + step.n > Len(file)
      /\ step.op = "store" =>
            step.at + step.n > Len(file) \/ step.at + step.n > step.limit
  BY BusIs
<1>5. n * Page \in Nat /\ Len(file) >= n * Page
  <2>1. cmd.prog \in Fillers
    BY DEF Fillers
  <2>2. FillTimes(cmd) = n /\ FillBlock(cmd) = Page
    BY DEF FillTimes, FillBlock
  <2> QED
    BY <1>4, <2>1, <2>2, FilledBefore
<1>6. n \in Nat /\ (F >= 3 * Page => n >= 3)
  BY <1>1, PagesFit
<1> SUFFICES ASSUME ~(F < 3 * Page) PROVE FALSE
  OBVIOUS
<1> HIDE DEF x, s, F, n, d
<1>7. Len(file) >= 3 * Page
  <2>1. 3 * Page <= n * Page
    BY <1>2, <1>6, TimesMonotone
  <2> DEFINE q == n * Page
  <2>2. q \in Nat /\ 3 * Page <= q /\ q <= Len(file)
    BY <1>5, <2>1
  <2> HIDE DEF q
  <2> QED
    BY <1>2, <2>2
<1>8. d \notin {0, 1, 4 + n}
  <2>1. d = 0 => step.op = "open"
    BY <1>1, <1>3 DEF Open
  <2>2. d = 1 => step.op = "fill"
    BY <1>1, <1>3 DEF Fill
  <2>3. d = 4 + n => step.op = "sync"
    BY <1>1, <1>3, <1>6 DEF Msync
  <2> QED
    BY <1>4, <2>1, <2>2, <2>3
<1>9. d \notin 2 .. 1 + n
  <2> SUFFICES ASSUME d \in 2 .. 1 + n PROVE FALSE
    OBVIOUS
  <2> DEFINE i == d - 1
  <2>1. i \in 1 .. n /\ d + 1 = i + 2
    BY <1>1, <1>6
  <2> HIDE DEF i
  <2>2. step = Write(Page, "ignore")
    BY <1>1, <1>3, <2>1
  <2> QED
    BY <1>4, <2>2 DEF Write
<1>10. d # 2 + n
  <2> SUFFICES ASSUME d = 2 + n PROVE FALSE
    OBVIOUS
  <2>1. step = Store(0, Page, 98, Page)
    BY <1>1, <1>3, <1>6
  <2>2. step.op = "store" /\ step.at = 0 /\ step.n = Page /\ step.limit = Page
    BY <2>1 DEF Store
  <2> QED
    BY <1>2, <1>4, <1>7, <2>2
<1>11. d # 3 + n
  <2> SUFFICES ASSUME d = 3 + n PROVE FALSE
    OBVIOUS
  <2>1. step = Store(2 * Page, Page, 99, 3 * Page)
    BY <1>1, <1>3, <1>6
  <2>2. step.op = "store" /\ step.at = 2 * Page /\ step.n = Page /\ step.limit = 3 * Page
    BY <2>1 DEF Store
  <2> QED
    BY <1>2, <1>4, <1>7, <2>2
<1> QED
  BY <1>1, <1>3, <1>6, <1>8, <1>9, <1>10, <1>11

(* and those of the last two within the request, or a byte.                *)
LEMMA BusOfTheFilled ==
    ASSUME TypeInv, Underway, FillInv, Moves, end' = "SIGBUS", ~short,
           cmd.prog \in {"msync-test", "mprotect-test"}
    PROVE  cmd.prog = "msync-test" /\ Size(cmd) > FileSize(cmd)
<1> DEFINE x == cmd
           s == Script(x)
           F == FileSize(x)
           S == Size(x)
           b == BufSize(x)
           g == F \div b
           d == Taken
<1>1. /\ x \in Commands /\ d \in Nat /\ d + 1 \in 1 .. Len(s) /\ step = s[d + 1]
  BY Forward
<1>2. F \in Nat /\ F > 0 /\ S \in 0 .. EndSize /\ Len(file) \in Nat /\ EndSize \in Nat
  <2>1. F \in Page .. MaxFile /\ S \in 0 .. EndSize
    BY <1>1, SizeFacts
  <2>2. Page \in Nat /\ Page > 0 /\ MaxFile \in Nat /\ EndSize \in Nat
    BY Constants
  <2>3. Len(file) \in Nat
    BY DEF TypeInv
  <2> HIDE DEF F, S
  <2> QED
    BY <2>1, <2>2, <2>3
<1>3. /\ b \in 0 .. EndSize /\ b > 0 /\ b <= F
      /\ b = EndSize \/ b = F
      /\ g \in Nat /\ g * b \in Nat /\ b <= g * b
  BY <1>1, BufSizeFacts
<1>4. /\ step.op \in {"store", "load"}
      /\ step.op = "load" => step.at + step.n > Len(file)
      /\ step.op = "store" =>
            step.at + step.n > Len(file) \/ step.at + step.n > step.limit
  BY BusIs
<1>5. g * b \in Nat /\ Len(file) >= g * b
  <2>1. cmd.prog \in Fillers
    BY DEF Fillers
  <2>2. FillTimes(cmd) = g /\ FillBlock(cmd) = b
    BY DEF FillTimes, FillBlock
  <2> QED
    BY <1>4, <2>1, <2>2, FilledBefore
<1>6. b <= Len(file) /\ b \in Nat
  <2> DEFINE q == g * b
  <2>1. q \in Nat /\ b <= q /\ q <= Len(file) /\ b \in 0 .. EndSize
    BY <1>3, <1>5
  <2> HIDE DEF q, b
  <2> QED
    BY <1>2, <2>1
<1>7. s # <<>>
  <2>1. s = <<>> => Len(s) = 0
    OBVIOUS
  <2> HIDE DEF s, d
  <2> QED
    BY <1>1, <2>1
<1>8. ASSUME NEW n \in Nat, NEW c, step = Store(0, n, c, F), n <= b
      PROVE  FALSE
  <2>1. step.op = "store" /\ step.at = 0 /\ step.n = n /\ step.limit = F
    BY <1>8 DEF Store
  <2>2. b <= F
    BY <1>3
  <2> HIDE DEF F, b
  <2> QED
    BY <1>2, <1>4, <1>6, <1>8, <2>1, <2>2
<1>9. ASSUME NEW steps \in Seq(Steps), s = FilledWithA(x, steps)
      PROVE  \E k \in 1 .. Len(steps) : step = steps[k]
  <2> DEFINE m == Len(steps)
  <2>1. /\ Len(s) = 3 + g + m
        /\ s[1] = Open /\ s[2] = Fill(97, b)
        /\ \A i \in 1 .. g : s[2 + i] = Write(b, "ignore")
        /\ s[3 + g] = DivideBy(S)
        /\ \A k \in 1 .. m : s[3 + g + k] = steps[k]
    BY <1>1, <1>7, <1>9, FilledWithAScript
  <2>2. g \in Nat /\ m \in Nat
    BY <1>3, <1>9
  <2> HIDE DEF x, s, F, S, b, g, d, m
  <2>3. d \notin {0, 1, 2 + g}
    <3>1. d = 0 => step.op = "open"
      BY <1>1, <2>1 DEF Open
    <3>2. d = 1 => step.op = "fill"
      BY <1>1, <2>1 DEF Fill
    <3>3. d = 2 + g => step.op = "divide"
      BY <1>1, <2>1, <2>2 DEF DivideBy
    <3> QED
      BY <1>4, <3>1, <3>2, <3>3
  <2>4. d \notin 2 .. 1 + g
    <3> SUFFICES ASSUME d \in 2 .. 1 + g PROVE FALSE
      OBVIOUS
    <3> DEFINE i == d - 1
    <3>1. i \in 1 .. g /\ d + 1 = 2 + i
      BY <1>1, <2>2
    <3> HIDE DEF i
    <3>2. step = Write(b, "ignore")
      BY <1>1, <2>1, <3>1
    <3> QED
      BY <1>4, <3>2 DEF Write
  <2>5. d \in 3 + g .. 2 + g + m
    BY <1>1, <2>1, <2>2, <2>3, <2>4
  <2> DEFINE k == d - 2 - g
  <2>6. k \in 1 .. m /\ d + 1 = 3 + g + k
    BY <1>1, <2>2, <2>5
  <2> HIDE DEF k
  <2>7. step = steps[k]
    BY <1>1, <2>1, <2>6
  <2> QED
    BY <2>6, <2>7 DEF m
<1>10. CASE x.prog = "msync-test"
  <2>1. /\ MsyncTestSteps(x) \in Seq(Steps) /\ Len(MsyncTestSteps(x)) = 8
        /\ s = FilledWithA(x, MsyncTestSteps(x))
    BY <1>1, <1>10, FilledPrograms, ScriptOf
  <2>2. PICK k \in 1 .. 8 : step = MsyncTestSteps(x)[k]
    BY <1>9, <2>1
  <2>3. \/ step = Store(0, S, x.c, F) \/ step = Store(0, 1, 100, F)
        \/ step = Store(0, 1, 97, F) \/ step = Msync(0, F) \/ step = DivideBy(Count(x))
    <3>1. k \in {1, 2, 3, 4, 5, 6, 7, 8}
      BY <2>2
    <3> QED
      BY <2>2, <3>1 DEF MsyncTestSteps
  <2>4. 1 \in Nat /\ 1 <= b
    BY <1>3, <1>6
  <2>5. step = Store(0, S, x.c, F)
    BY <1>4, <1>8, <2>3, <2>4 DEF Msync, DivideBy
  <2>6. ~(S <= b) /\ S \in Nat
    BY <1>2, <1>8, <2>5
  <2>7. S > F
    <3> HIDE DEF S, F, b
    <3> QED
      BY <1>2, <1>3, <2>6
  <2> QED
    BY <1>10, <2>7
<1>11. CASE x.prog = "mprotect-test"
  <2>1. /\ MprotectTestSteps(x) \in Seq(Steps) /\ Len(MprotectTestSteps(x)) = 6
        /\ s = FilledWithA(x, MprotectTestSteps(x))
    BY <1>1, <1>11, FilledPrograms, ScriptOf
  <2>2. PICK k \in 1 .. 6 : step = MprotectTestSteps(x)[k]
    BY <1>9, <2>1
  <2>3. \/ step = Store(0, 1, 100, F) \/ step = Msync(0, F) \/ step = DivideBy(Count(x))
        \/ step = Seek(0) \/ step = Fill(122, b) \/ step = Write(b, "ignore")
    <3>1. k \in {1, 2, 3, 4, 5, 6}
      BY <2>2
    <3> QED
      BY <2>2, <3>1 DEF MprotectTestSteps
  <2>4. 1 \in Nat /\ 1 <= b
    BY <1>3, <1>6
  <2>5. step = Store(0, 1, 100, F)
    BY <1>4, <2>3 DEF Msync, DivideBy, Seek, Fill, Write
  <2> QED
    BY <1>8, <2>4, <2>5
<1> QED
  BY <1>10, <1>11

(* Nobody touches a page behind the end of the file, unless a write was    *)
(* short, or for one of the reasons the module lists                       *)
(* (mmap_write.c:187-198, mmap_to_ram.c:95-138, mmap_read.c:79-101,        *)
(* munmap-test.c:74-88, msync-test.c:77-115).                              *)
THEOREM BusErrorsAreExplained == Spec => []BusErrorsExplained
<1>1. Init => Base /\ FillInv /\ BusErrorsExplained
  BY BaseInit, NoneYet DEF FillInv, Fillers, BusErrorsExplained
<1>2. ASSUME Base, FillInv, BusErrorsExplained, [Next]_vars
      PROVE  (Base /\ FillInv /\ BusErrorsExplained)'
  <2>1. TypeInv /\ Underway
    BY <1>2 DEF Base
  <2>2. Base' /\ FillInv'
    BY <1>2, <2>1, TypeKept, UnderwayKept, FillKept DEF Base
  <2> DEFINE Explained(l) ==
                 \/ cmd.prog \in {"mmap_write", "mmap_to_ram"} /\ l < FileSize(cmd)
                 \/ /\ cmd.prog = "mmap_read"
                    /\ FileSize(cmd) > EndSize /\ FileSize(cmd) % EndSize # 0
                 \/ cmd.prog = "munmap-test" /\ FileSize(cmd) < 3 * Page
                 \/ cmd.prog = "msync-test" /\ Size(cmd) > FileSize(cmd)
  <2>3. end = "SIGBUS" /\ ~short => Explained(Len(file))
    BY <1>2 DEF BusErrorsExplained
  <2>4. cmd' = cmd /\ (end' = "SIGBUS" /\ ~short' => Explained(Len(file'))) => BusErrorsExplained'
    BY DEF BusErrorsExplained
  <2> HIDE DEF Explained
  <2> SUFFICES BusErrorsExplained'
    BY <2>2
  <2>5. ASSUME NEW x \in Commands, Run(x) PROVE BusErrorsExplained'
    BY <2>5, RunIs DEF BusErrorsExplained
  <2>6. CASE Moves
    <3> SUFFICES ASSUME end' = "SIGBUS", ~short' PROVE Explained(Len(file'))
      BY <2>1, <2>4, <2>6, Forward
    <3>1. ~short /\ Len(file') = Len(file)
      BY <2>1, <2>6, BusIs
    <3>2. step \in Steps /\ step.op \in {"store", "load"}
      BY <2>1, <2>6, BusIs, Forward
    <3>3. step \notin UnmappedSteps
      BY <3>2, StepFields
    <3>4. /\ cmd \in Commands
          /\ Taken \in Nat /\ Taken + 1 \in 1 .. Len(Script(cmd))
          /\ step = Script(cmd)[Taken + 1]
      BY <2>1, <2>6, Forward
    <3>5. cmd.prog \in MappedPrograms
      <4>1. Script(cmd) \notin Seq(UnmappedSteps)
        BY <3>3, <3>4
      <4> QED
        BY <3>4, <4>1, ScriptType
    <3>6. CASE cmd.prog \in {"mmap_write", "mmap_to_ram"}
      BY <1>2, <2>1, <2>6, <3>1, <3>6, BusOfTheTrusting DEF Explained
    <3>7. CASE cmd.prog = "mmap_read"
      BY <1>2, <2>1, <2>6, <3>1, <3>7, BusOfMmapRead DEF Explained
    <3>8. CASE cmd.prog = "munmap-test"
      BY <1>2, <2>1, <2>6, <3>1, <3>8, BusOfMunmapTest DEF Explained
    <3>9. CASE cmd.prog \in {"msync-test", "mprotect-test"}
      BY <1>2, <2>1, <2>6, <3>1, <3>9, BusOfTheFilled DEF Explained
    <3> QED
      BY <3>5, <3>6, <3>7, <3>8, <3>9 DEF MappedPrograms
  <2>7. CASE Back
    <3>1. cmd' = cmd /\ end' = end /\ short' = short /\ file' = file
      BY <2>1, <2>7, BackIs
    <3> QED
      BY <2>3, <2>4, <3>1
  <2>8. CASE Crash
    BY <2>8, CrashIs DEF BusErrorsExplained
  <2>9. CASE UNCHANGED vars
    <3>1. cmd' = cmd /\ end' = end /\ short' = short /\ file' = file
      BY <2>9, StutterIs
    <3> QED
      BY <2>3, <2>4, <3>1
  <2> QED
    BY <1>2, <2>5, <2>6, <2>7, <2>8, <2>9, Alternatives
<1>3. Base /\ FillInv /\ BusErrorsExplained /\ [Next]_vars
      => (Base /\ FillInv /\ BusErrorsExplained)'
  BY <1>2
<1> QED
  BY <1>1, <1>3, PTL DEF Spec

-----------------------------------------------------------------------------
(* The programs that take the blocks in a random order *)

Shufflers == {"random_perf_test", "iozone_test"}

(* They shuffle their blocks, and write them in that order at the end.     *)
LEMMA ShufflerScript ==
    ASSUME NEW x \in Commands, x.prog \in Shufflers
    PROVE  LET n == Blocked(x) IN
           /\ n \in Nat /\ n > 0 /\ n <= MaxFile
           /\ Script(x) \in Seq(ShuffledSteps(n))
           /\ LastPass(Script(x), LastStart(x), n)
<1>1. CASE x.prog = "random_perf_test"
  <2> DEFINE n == FileSize(x) \div Page
  <2>1. Blocked(x) = n /\ Script(x) = RandomPerfTest(x) /\ LastStart(x) = n + 2 * (4 + 2 * n) + 4
    BY <1>1, ScriptOf DEF Blocked, LastStart
  <2>2. n \in Nat /\ n > 0 /\ n <= MaxFile
    BY PagesFit
  <2>3. /\ RandomPerfTest(x) \in Seq(ShuffledSteps(n))
        /\ LastPass(RandomPerfTest(x), n + 2 * (4 + 2 * n) + 4, n)
    BY RandomPerfTestScript
  <2> HIDE DEF n
  <2> QED
    BY <2>1, <2>2, <2>3
<1>2. CASE x.prog = "iozone_test"
  <2> DEFINE n == Records
             z == 3 * (2 + n) + 3 * (5 + n) + n + 2 * n + 3
  <2>1. Blocked(x) = n /\ Script(x) = Iozone(x) /\ LastStart(x) = z
    BY <1>2, ScriptOf DEF Blocked, LastStart
  <2>2. n \in Nat /\ n > 0 /\ n <= MaxFile
    <3>1. /\ n \in Nat /\ n > 0 /\ Page \in Nat /\ 1 <= Page
          /\ n * Page \in Nat /\ n * Page <= MaxFile /\ MaxFile \in Nat
      BY Constants
    <3>2. 1 * n <= Page * n
      BY <3>1, TimesMonotone
    <3>3. Page * n = n * Page
      BY <3>1
    <3> DEFINE q == n * Page
    <3>4. q \in Nat /\ n <= q /\ q <= MaxFile
      BY <3>1, <3>2, <3>3
    <3> HIDE DEF n, q
    <3> QED
      BY <3>1, <3>4
  <2>3. Iozone(x) \in Seq(ShuffledSteps(n)) /\ LastPass(Iozone(x), z, n)
    BY IozoneScript
  <2> HIDE DEF n, z
  <2> QED
    BY <2>1, <2>2, <2>3
<1> QED
  BY <1>1, <1>2 DEF Shufflers

(* What such a program does next. *)
LEMMA ShufflerNext ==
    ASSUME TypeInv, Underway, Moves, cmd.prog \in Shufflers
    PROVE  /\ cmd \in Commands /\ end = "well" /\ step \in Steps
           /\ Taken \in Nat /\ Taken + 1 \in 1 .. Len(Script(cmd))
           /\ step = Script(cmd)[Taken + 1]
           /\ step.op # "unlink"
           /\ step.op = "swap" => step.i < Blocked(cmd) /\ step.n = Blocked(cmd)
           /\ step.op = "write" => step.iferr = "report"
           /\ file' \in Seq(Int) /\ Len(file') >= Len(file)
<1>1. /\ cmd \in Commands /\ end = "well" /\ step \in Steps
      /\ Taken \in Nat /\ Taken + 1 \in 1 .. Len(Script(cmd))
      /\ step = Script(cmd)[Taken + 1]
  BY Forward
<1>2. Script(cmd) \in Seq(ShuffledSteps(Blocked(cmd)))
  BY <1>1, ShufflerScript
<1>3. step \in ShuffledSteps(Blocked(cmd))
  BY <1>1, <1>2
<1>4. /\ step.op # "unlink"
      /\ step.op = "swap" => step.i < Blocked(cmd) /\ step.n = Blocked(cmd)
      /\ step.op = "write" => step.iferr = "report"
  BY <1>3 DEF ShuffledSteps
<1>5. file' \in Seq(Int) /\ Len(file') >= Len(file)
  BY <1>4, FileKept
<1> QED
  BY <1>1, <1>4, <1>5

(* Only a swap changes the random order. *)
LEMMA OnlySwaps ==
    ASSUME TypeInv, Underway, Moves, step.op # "swap"
    PROVE  recnum' = recnum
<1>1. step \in Steps
  BY Forward
<1>2. CASE MoveTo
  BY <1>1, <1>2, MovedIs
<1>3. CASE ReadBlock
  BY <1>1, <1>3, ReadIs
<1>4. CASE WriteBlock
  BY <1>1, <1>4, WriteIs
<1>5. CASE Memset \/ Sync \/ Divide
  BY <1>5, OthersAre
<1>6. CASE RemoveFile \/ LoadMapped
  BY <1>6 DEF RemoveFile, LoadMapped, memory
<1>7. CASE StoreMapped
  BY <1>1, <1>7, StoreIs
<1>8. CASE SwapCards
  BY <1>8 DEF SwapCards, Takes
<1> QED
  BY <1>2, <1>3, <1>4, <1>5, <1>6, <1>7, <1>8 DEF Moves

(* Two cards swapped are the same cards. *)
LEMMA SwapKeepsOrder ==
    ASSUME NEW n \in Nat, NEW r \in [0 .. MaxFile -> 0 .. MaxFile], n <= MaxFile, Order(n, r),
           NEW i \in 0 .. n - 1, NEW b \in 0 .. n - 1
    PROVE  Order(n, [r EXCEPT ![i] = r[b], ![b] = r[i]])
<1> DEFINE s == [r EXCEPT ![i] = r[b], ![b] = r[i]]
<1>1. i \in 0 .. MaxFile /\ b \in 0 .. MaxFile /\ \A k \in 0 .. n - 1 : k \in 0 .. MaxFile
  BY Constants
<1>2. \A k \in 0 .. n - 1 : s[k] = IF k = b THEN r[i] ELSE IF k = i THEN r[b] ELSE r[k]
  BY <1>1
<1> HIDE DEF s
<1>3. ASSUME NEW k \in 0 .. n - 1 PROVE s[k] \in 0 .. n - 1
  BY <1>2 DEF Order
<1>4. ASSUME NEW v \in 0 .. n - 1 PROVE \E k \in 0 .. n - 1 : s[k] = v
  <2>1. PICK k \in 0 .. n - 1 : r[k] = v
    BY DEF Order
  <2>2. CASE k = i
    BY <1>2, <2>1, <2>2
  <2>3. CASE k = b
    <3>1. s[i] = v
      BY <1>2, <2>1, <2>3
    <3> QED
      BY <3>1
  <2>4. CASE k # i /\ k # b
    BY <1>2, <2>1, <2>4
  <2> QED
    BY <2>2, <2>3, <2>4
<1> QED
  BY <1>3, <1>4 DEF Order, s

(* The random order stays one. *)
LEMMA OrderKept ==
    ASSUME TypeInv, Underway, OrderInv, [Next]_vars
    PROVE  OrderInv'
<1> SUFFICES ASSUME cmd'.prog \in Shufflers PROVE Order(Blocked(cmd'), recnum')
  BY DEF OrderInv, Shufflers
<1>1. ASSUME NEW x \in Commands, Run(x) PROVE Order(Blocked(cmd'), recnum')
  <2>1. cmd' = x /\ recnum' = [i \in 0 .. MaxFile |-> i]
    BY <1>1, RunIs
  <2> DEFINE n == Blocked(x)
             r == [i \in 0 .. MaxFile |-> i]
  <2>2. n \in Nat /\ n <= MaxFile /\ MaxFile \in Nat
    BY <2>1, ShufflerScript, Constants
  <2> HIDE DEF n
  <2>3. \A i \in 0 .. n - 1 : i \in 0 .. MaxFile /\ r[i] = i
    BY <2>2
  <2> HIDE DEF r
  <2>4. Order(n, r)
    BY <2>3 DEF Order
  <2> QED
    BY <2>1, <2>4 DEF n, r
<1>2. CASE Moves
  <2>1. cmd' = cmd /\ step \in Steps
    BY <1>2, Forward
  <2> DEFINE n == Blocked(cmd)
  <2>2. /\ cmd \in Commands
        /\ step.op = "swap" => step.i < n /\ step.n = n
    BY <1>2, <2>1, ShufflerNext
  <2>3. n \in Nat /\ n <= MaxFile /\ MaxFile \in Nat
    BY <2>1, <2>2, ShufflerScript, Constants
  <2>4. Order(n, recnum)
    BY <2>1 DEF OrderInv, Shufflers
  <2> HIDE DEF n
  <2>5. CASE step.op = "swap"
    <3>1. step.i \in 0 .. n - 1 /\ step.n = n
      <4>1. step.i \in 0 .. MaxFile /\ step.i < n /\ step.n = n
        BY <2>1, <2>2, <2>5, StepFields
      <4> QED
        BY <2>3, <4>1
    <3>2. SwapCards
      BY <1>2, <2>5, ByOp
    <3>3. PICK b \in 0 .. step.n - 1 :
              recnum' = [recnum EXCEPT ![step.i] = recnum[b], ![b] = recnum[step.i]]
      BY <3>2 DEF SwapCards
    <3>4. b \in 0 .. n - 1 /\ recnum \in [0 .. MaxFile -> 0 .. MaxFile]
      BY <3>1 DEF TypeInv
    <3> DEFINE i == step.i
    <3>5. i \in 0 .. n - 1 /\ recnum' = [recnum EXCEPT ![i] = recnum[b], ![b] = recnum[i]]
      BY <3>1, <3>3
    <3> HIDE DEF i
    <3>6. Order(n, [recnum EXCEPT ![i] = recnum[b], ![b] = recnum[i]])
      BY <2>3, <2>4, <3>4, <3>5, SwapKeepsOrder
    <3> QED
      BY <2>1, <3>5, <3>6 DEF n
  <2>6. CASE step.op # "swap"
    <3>1. recnum' = recnum
      BY <1>2, <2>6, OnlySwaps
    <3> QED
      BY <2>1, <2>4, <3>1 DEF n
  <2> QED
    BY <2>5, <2>6
<1>3. CASE Back
  BY <1>3, BackIs DEF OrderInv, Shufflers
<1>4. CASE Crash
  BY <1>4, CrashIs DEF OrderInv, Shufflers
<1>5. CASE UNCHANGED vars
  BY <1>5, StutterIs DEF OrderInv, Shufflers
<1> QED
  BY <1>1, <1>2, <1>3, <1>4, <1>5, Alternatives

(* iozone_test reads only where it has written before.                     *)
LEMMA ReadFits ==
    ASSUME TypeInv, Underway, OrderInv, IozoneInv, Moves,
           cmd.prog = "iozone_test", ~reported, step.op = "read"
    PROVE  step = Read(Page, AnyByte, "exit") /\ pos + Page <= Len(file)
<1> DEFINE x == cmd
           n == Records
           w == 3 * (2 + n)
           u == w + 3 * (5 + n)
           s == Iozone(x)
           l == Len(file)
           d == Taken
           Goal == step = Read(Page, AnyByte, "exit") /\ pos + Page <= l
<1>1. /\ x \in Commands /\ end = "well"
      /\ d \in Nat /\ d + 1 \in 1 .. Len(s) /\ step = s[d + 1]
  BY Forward, ScriptOf
<1>2. /\ n \in Nat /\ n > 0 /\ n * Page \in Nat /\ l \in Nat /\ pos \in Nat
      /\ Page \in Nat
  BY Constants DEF TypeInv
<1>3. IozoneAt(d, pos, l, recnum)
  BY <1>1 DEF IozoneInv
<1>4. /\ d >= 2 + n => l >= n * Page
      /\ \A e \in PassStarts : d = w + e + 1 \/ d = w + e + 2 => pos = 0
      /\ \A e \in PassStarts : \A i \in 0 .. n : d = w + e + 4 + i => pos = i * Page
      /\ \A i \in 1 .. n : d = u + n + 2 * i => pos = recnum[i - 1] * Page
  BY <1>3 DEF IozoneAt
<1>5. /\ \A e \in PassStarts :
             /\ s[w + e + 3] = Read(Page, AnyByte, "exit")
             /\ \A i \in 1 .. n : s[w + e + 4 + i] = Read(Page, AnyByte, "exit")
      /\ \A i \in 1 .. n : s[u + n + 2 * i + 1] = Read(Page, AnyByte, "exit")
      /\ \A k \in 1 .. Len(s) : s[k].op = "read" =>
             \/ \E e \in PassStarts :
                    k = w + e + 3 \/ \E i \in 1 .. n : k = w + e + 4 + i
             \/ \E i \in 1 .. n : k = u + n + 2 * i + 1
  BY <1>1, IozoneScript
<1>6. w \in Nat /\ w >= 2 + n /\ u \in Nat /\ u >= w /\ PassStarts \subseteq Nat
  BY <1>2 DEF PassStarts
<1> HIDE DEF x, n, w, u, s, l, d
<1>7. ASSUME NEW m \in 1 .. n, pos + Page = m * Page, d >= 2 + n
      PROVE  pos + Page <= l
  <2> DEFINE p == m * Page
             q == n * Page
  <2>1. p \in Nat /\ q \in Nat /\ p <= q /\ q <= l /\ pos + Page = p
    BY <1>2, <1>4, <1>7, Blocks
  <2> HIDE DEF p, q
  <2> QED
    BY <1>2, <2>1
<1>8. ASSUME NEW e \in PassStarts, d + 1 = w + e + 3 PROVE Goal
  <2>1. e \in Nat
    BY <1>6
  <2>2. d = w + e + 2 /\ d >= 2 + n
    BY <1>1, <1>2, <1>6, <1>8, <2>1
  <2>3. pos = 0 /\ 1 \in 1 .. n /\ 1 * Page = Page
    BY <1>2, <1>4, <2>2
  <2>4. pos + Page <= l
    BY <1>2, <1>7, <2>2, <2>3
  <2> QED
    BY <1>1, <1>5, <1>8, <2>4
<1>9. ASSUME NEW e \in PassStarts, NEW i \in 1 .. n, d + 1 = w + e + 4 + i PROVE Goal
  <2>1. e \in Nat
    BY <1>6
  <2>2. i - 1 \in 0 .. n /\ d = w + e + 4 + (i - 1) /\ d >= 2 + n
    BY <1>1, <1>2, <1>6, <1>9, <2>1
  <2>3. pos = (i - 1) * Page
    BY <1>4, <2>2
  <2>4. pos + Page = i * Page
    BY <1>2, <2>3, Blocks
  <2>5. pos + Page <= l
    BY <1>7, <2>2, <2>4
  <2> QED
    BY <1>1, <1>5, <1>9, <2>5
<1>10. ASSUME NEW i \in 1 .. n, d + 1 = u + n + 2 * i + 1 PROVE Goal
  <2>1. d = u + n + 2 * i /\ d >= 2 + n /\ i - 1 \in 0 .. n - 1
    BY <1>1, <1>2, <1>6, <1>10
  <2> DEFINE b == recnum[i - 1]
  <2>2. pos = b * Page
    BY <1>4, <2>1
  <2>3. b \in 0 .. n - 1
    <3>1. Order(n, recnum)
      BY DEF OrderInv, Blocked, n
    <3> QED
      BY <2>1, <3>1 DEF Order
  <2> HIDE DEF b
  <2>4. b + 1 \in 1 .. n /\ pos + Page = (b + 1) * Page
    BY <1>2, <2>2, <2>3
  <2>5. pos + Page <= l
    BY <1>7, <2>1, <2>4
  <2> QED
    BY <1>1, <1>5, <1>10, <2>5
<1>11. \/ \E e \in PassStarts : d + 1 = w + e + 3 \/ \E i \in 1 .. n : d + 1 = w + e + 4 + i
       \/ \E i \in 1 .. n : d + 1 = u + n + 2 * i + 1
  BY <1>1, <1>5
<1> HIDE DEF Goal
<1>12. Goal
  BY <1>8, <1>9, <1>10, <1>11
<1> QED
  BY <1>12 DEF Goal, l

(* A step of iozone_test keeps what its place says.                        *)
LEMMA IozoneStep ==
    ASSUME TypeInv, Underway, OrderInv, IozoneInv, Moves, cmd.prog = "iozone_test", ~reported'
    PROVE  end' # "exit" /\ IozoneAt(Taken + 1, pos', Len(file'), recnum')
<1> DEFINE x == cmd
           n == Records
           w == 3 * (2 + n)
           u == w + 3 * (5 + n)
           s == Iozone(x)
           d == Taken
           l == Len(file')
<1>1. /\ x \in Commands /\ end = "well" /\ step \in Steps /\ ~reported
      /\ d \in Nat /\ d + 1 \in 1 .. Len(s) /\ step = s[d + 1]
  BY Forward, NotTakenBack, ScriptOf
<1>2. /\ n \in Nat /\ n > 0 /\ n * Page \in Nat /\ Len(file) \in Nat /\ pos \in Nat
      /\ Page \in Nat /\ Page > 0
  BY Constants DEF TypeInv
<1>3. IozoneAt(d, pos, Len(file), recnum)
  BY <1>1 DEF IozoneInv
<1>4. /\ d = 1 => pos = 0
      /\ \A i \in 0 .. n : d = 2 + i => pos = i * Page /\ Len(file) >= i * Page
      /\ d >= 2 + n => Len(file) >= n * Page
      /\ \A e \in PassStarts : d = w + e + 1 \/ d = w + e + 2 => pos = 0
      /\ \A e \in PassStarts : \A i \in 0 .. n : d = w + e + 4 + i => pos = i * Page
  BY <1>3 DEF IozoneAt
<1>5. /\ s[1] = Open /\ s[2] = Fsync
      /\ \A i \in 1 .. n : s[2 + i] = Write(Page, "report")
      /\ \A e \in PassStarts :
             /\ s[w + e + 1] = Open /\ s[w + e + 2] = Fsync /\ s[w + e + 4] = Seek(0)
             /\ \A i \in 1 .. n : s[w + e + 4 + i] = Read(Page, AnyByte, "exit")
      /\ \A i \in 1 .. n : s[u + n + 2 * i] = SeekRecord(i - 1)
  BY <1>1, IozoneScript
<1>6. w \in Nat /\ w >= 2 + n /\ u \in Nat /\ u >= w /\ PassStarts \subseteq Nat
  BY <1>2 DEF PassStarts
<1>7. l \in Nat /\ l >= Len(file) /\ (step.op = "write" => step.iferr = "report")
  <2>1. x.prog \in Shufflers
    BY DEF Shufflers
  <2>2. /\ file' \in Seq(Int) /\ Len(file') >= Len(file)
        /\ step.op = "write" => step.iferr = "report"
    BY <2>1, ShufflerNext
  <2> QED
    BY <2>2
<1>8. step.op = "read" => step = Read(Page, AnyByte, "exit") /\ pos + Page <= Len(file)
  BY <1>1, ReadFits
<1> HIDE DEF x, n, w, u, s, d, l
<1>9. ASSUME step = Read(Page, AnyByte, "exit")
      PROVE  pos' = pos + Page /\ end' = end
  <2>1. ReadBlock /\ step.n = Page /\ step.want = AnyByte /\ pos + Page <= Len(file)
    BY <1>8, <1>9, ByOp DEF Read
  <2>2. /\ pos + step.n <= Len(file) => Got(step.n)
        /\ Got(step.n) /\ step.want = AnyByte => end' = end /\ reported' = reported
    BY <1>1, <2>1, ReadIs
  <2> QED
    BY <2>1, <2>2 DEF Got
<1>10. end' # "exit"
  <2>1. CASE step.op = "read"
    BY <1>1, <1>8, <1>9, <2>1
  <2>2. CASE step.op = "write"
    BY <1>1, <1>7, <2>2, ByOp, WriteIs
  <2>3. CASE step.op \notin {"read", "write"}
    <3>1. ~ReadBlock /\ ~WriteBlock
      BY <2>3 DEF ReadBlock, WriteBlock, Takes
    <3>2. CASE MoveTo
      BY <1>1, <3>2, MovedIs
    <3>3. CASE Memset \/ Sync \/ RemoveFile \/ SwapCards
      BY <1>1, <3>3 DEF Memset, Sync, RemoveFile, SwapCards, outcome
    <3>4. CASE StoreMapped \/ LoadMapped \/ Divide
      BY <1>1, <3>4 DEF StoreMapped, LoadMapped, Divide, Dies
    <3> QED
      BY <3>1, <3>2, <3>3, <3>4 DEF Moves
  <2> QED
    BY <2>1, <2>2, <2>3
<1>11. ASSUME step = Open \/ step = Seek(0) PROVE pos' = 0
  <2>1. CASE step = Open
    BY <1>1, <2>1, ByOp, MovedIs DEF Open
  <2>2. CASE step = Seek(0)
    BY <1>1, <2>2, ByOp, MovedIs DEF Seek
  <2> QED
    BY <1>11, <2>1, <2>2
<1>12. ASSUME step = Fsync PROVE pos' = pos
  BY <1>12, ByOp, OthersAre DEF Fsync
<1>13. ASSUME step = Write(Page, "report") PROVE pos' = pos + Page /\ l >= pos + Page
  <2>1. Put(Page)
    BY <1>1, <1>13, ByOp, WriteIs DEF Write
  <2> QED
    BY <1>2, <2>1 DEF Put, l
<1>14. d + 1 = 1 => pos' = 0
  BY <1>1, <1>5, <1>11
<1>15. ASSUME NEW i \in 0 .. n, d + 1 = 2 + i PROVE pos' = i * Page /\ l >= i * Page
  <2>1. CASE i = 0
    <3>1. step = Fsync /\ d = 1 /\ 0 * Page = 0
      BY <1>1, <1>2, <1>5, <1>15, <2>1
    <3> QED
      BY <1>4, <1>7, <1>12, <2>1, <3>1
  <2>2. CASE i # 0
    <3>1. i \in 1 .. n /\ i - 1 \in 0 .. n /\ d = 2 + (i - 1)
      BY <1>1, <1>2, <1>15, <2>2
    <3>2. pos = (i - 1) * Page /\ step = Write(Page, "report")
      BY <1>1, <1>4, <1>5, <1>15, <3>1
    <3>3. (i - 1) * Page + Page = i * Page
      BY <1>2, <3>1, Blocks
    <3> QED
      BY <1>13, <3>2, <3>3
  <2> QED
    BY <2>1, <2>2
<1>16. d + 1 >= 2 + n => l >= n * Page
  <2>1. CASE d + 1 = 2 + n
    <3>1. n \in 0 .. n
      BY <1>2
    <3> QED
      BY <1>15, <2>1, <3>1
  <2>2. CASE d >= 2 + n
    <3> DEFINE q == n * Page
    <3>1. q \in Nat /\ Len(file) >= q
      BY <1>2, <1>4, <2>2
    <3> HIDE DEF q
    <3>2. l >= q
      BY <1>2, <1>7, <3>1
    <3> QED
      BY <3>2 DEF q
  <2> QED
    BY <1>1, <1>2, <2>1, <2>2
<1>17. ASSUME NEW e \in PassStarts, d + 1 = w + e + 1 \/ d + 1 = w + e + 2 PROVE pos' = 0
  <2>1. e \in Nat
    BY <1>6
  <2>2. CASE d + 1 = w + e + 1
    BY <1>1, <1>5, <1>11, <2>2
  <2>3. CASE d + 1 = w + e + 2
    <3>1. d = w + e + 1
      BY <1>1, <1>6, <2>1, <2>3
    <3>2. pos = 0 /\ step = Fsync
      BY <1>1, <1>4, <1>5, <2>3, <3>1
    <3> QED
      BY <1>12, <3>2
  <2> QED
    BY <1>17, <2>2, <2>3
<1>18. ASSUME NEW e \in PassStarts, NEW i \in 0 .. n, d + 1 = w + e + 4 + i
       PROVE  pos' = i * Page
  <2>1. e \in Nat
    BY <1>6
  <2>2. CASE i = 0
    <3>1. d + 1 = w + e + 4 /\ 0 * Page = 0
      BY <1>2, <1>6, <1>18, <2>1, <2>2
    <3>2. step = Seek(0)
      BY <1>1, <1>5, <3>1
    <3> QED
      BY <1>11, <2>2, <3>1, <3>2
  <2>3. CASE i # 0
    <3>1. i \in 1 .. n /\ i - 1 \in 0 .. n /\ d = w + e + 4 + (i - 1)
      BY <1>1, <1>2, <1>6, <1>18, <2>1, <2>3
    <3>2. pos = (i - 1) * Page
      BY <1>4, <3>1
    <3>3. step = Read(Page, AnyByte, "exit")
      BY <1>1, <1>5, <1>18, <3>1
    <3>4. (i - 1) * Page + Page = i * Page
      BY <1>2, <3>1, Blocks
    <3> QED
      BY <1>9, <3>2, <3>3, <3>4
  <2> QED
    BY <2>2, <2>3
<1>19. ASSUME NEW i \in 1 .. n, d + 1 = u + n + 2 * i PROVE pos' = recnum'[i - 1] * Page
  <2>1. step = SeekRecord(i - 1)
    BY <1>1, <1>5, <1>19
  <2>2. MoveTo /\ step.op = "seekrecord" /\ step.i = i - 1
    BY <2>1, ByOp DEF SeekRecord
  <2> QED
    BY <1>1, <2>2, MovedIs
<1>20. IozoneAt(d + 1, pos', l, recnum')
  BY <1>14, <1>15, <1>16, <1>17, <1>18, <1>19 DEF IozoneAt, n, w, u
<1> QED
  BY <1>10, <1>20 DEF d, l

(* The invariant of iozone_test is one. *)
LEMMA IozoneKept ==
    ASSUME TypeInv, Underway, OrderInv, IozoneInv, [Next]_vars
    PROVE  IozoneInv'
<1> DEFINE Goal == /\ end' # "exit"
                   /\ end' = "well" => IozoneAt(Taken', pos', Len(file'), recnum')
<1> SUFFICES ASSUME cmd'.prog = "iozone_test", ~reported' PROVE Goal
  BY DEF IozoneInv
<1>1. ASSUME NEW x \in Commands, Run(x) PROVE Goal
  <2>1. Taken' = 0 /\ end' = "well" /\ pos' = 0
    BY <1>1, RunIs
  <2> DEFINE n == Records
             w == 3 * (2 + n)
             u == w + 3 * (5 + n)
  <2>2. n \in Nat /\ n > 0
    BY Constants
  <2>3. w \in Nat /\ u \in Nat /\ PassStarts \subseteq Nat
    BY <2>2 DEF PassStarts
  <2> HIDE DEF n, w, u
  <2>4. /\ \A i \in 0 .. n : 0 # 2 + i
        /\ ~(0 >= 2 + n)
        /\ \A i \in 1 .. n : 0 # u + n + 2 * i
    BY <2>2, <2>3
  <2>5. \A e \in PassStarts : /\ 0 # w + e + 1 /\ 0 # w + e + 2
                              /\ \A i \in 0 .. n : 0 # w + e + 4 + i
    BY <2>2, <2>3
  <2>6. IozoneAt(0, 0, Len(file'), recnum')
    BY <2>4, <2>5 DEF IozoneAt, n, w, u
  <2> QED
    BY <2>1, <2>6
<1>2. CASE Moves
  <2>1. cmd' = cmd /\ (end' = "well" => Taken' = Taken + 1)
    BY <1>2, Forward DEF Continued
  <2>2. end' # "exit" /\ IozoneAt(Taken + 1, pos', Len(file'), recnum')
    BY <1>2, <2>1, IozoneStep
  <2> QED
    BY <2>1, <2>2
<1>3. CASE Back
  BY <1>3, BackIs DEF IozoneInv
<1>4. CASE Crash
  BY <1>4, CrashIs
<1>5. CASE UNCHANGED vars
  BY <1>5, StutterIs DEF IozoneInv
<1> HIDE DEF Goal
<1> QED
  BY <1>1, <1>2, <1>3, <1>4, <1>5, Alternatives

(* iozone_test reads only what it has written before: it does not exit in  *)
(* a read but after a write it has complained about                        *)
(* (iozone_test.c:402-467,93-165,534-577).                                 *)
THEOREM ReadsOnlyWhatItWrote == Spec => []ExitsOnlyAfterError
<1>1. Init => Base /\ OrderInv /\ IozoneInv
  BY BaseInit, NoneYet DEF OrderInv, IozoneInv
<1>2. Base /\ OrderInv /\ IozoneInv /\ [Next]_vars => (Base /\ OrderInv /\ IozoneInv)'
  BY TypeKept, UnderwayKept, OrderKept, IozoneKept DEF Base
<1>3. Base /\ OrderInv /\ IozoneInv => ExitsOnlyAfterError
  BY DEF IozoneInv, ExitsOnlyAfterError
<1> QED
  BY <1>1, <1>2, <1>3, PTL DEF Spec

(* A block that is written holds the buffer, and the others stay.          *)
LEMMA BlockWritten ==
    ASSUME TypeInv, NEW b \in Nat, pos = b * Page, Put(Page),
           file' \in Seq(Int), Len(file') >= Len(file), buf' = buf
    PROVE  /\ Written(b, file', buf')
           /\ \A c \in Nat : Written(c, file, buf) => Written(c, file', buf')
<1> DEFINE f == file'
           p == b * Page
<1>1. /\ Page \in Nat /\ Page > 0 /\ p \in Nat /\ Len(f) \in Nat /\ Len(file) \in Nat
      /\ Len(f) >= Len(file)
  <2>1. Page \in Nat /\ Page > 0
    BY Constants
  <2>2. p \in Nat
    BY <2>1
  <2>3. Len(f) \in Nat /\ Len(file) \in Nat /\ Len(f) >= Len(file)
    BY DEF TypeInv
  <2> QED
    BY <2>1, <2>2, <2>3
<1>2. /\ Len(f) >= p + Page
      /\ \A k \in 1 .. Page : f[p + k] = buf[k]
      /\ \A k \in 1 .. Len(file) : k <= p \/ k > p + Page => f[k] = file[k]
  BY <1>1 DEF Put
<1>3. Written(b, f, buf)
  <2> SUFFICES ASSUME NEW k \in 1 .. Page PROVE p + k <= Len(f) /\ f[p + k] = buf[k]
    BY DEF Written
  <2> HIDE DEF f, p
  <2> QED
    BY <1>1, <1>2
<1>4. ASSUME NEW c \in Nat, Written(c, file, buf) PROVE Written(c, f, buf)
  <2>1. CASE c = b
    BY <1>3, <2>1
  <2>2. CASE c # b
    <3> DEFINE q == c * Page
    <3>1. q \in Nat /\ (q + Page <= p \/ p + Page <= q)
      <4>1. c + 1 <= b \/ b + 1 <= c
        BY <2>2
      <4>2. ASSUME c + 1 <= b PROVE (c + 1) * Page <= b * Page
        BY <1>1, <4>2, TimesMonotone
      <4>3. ASSUME b + 1 <= c PROVE (b + 1) * Page <= c * Page
        BY <1>1, <4>3, TimesMonotone
      <4>4. (c + 1) * Page = c * Page + Page /\ (b + 1) * Page = b * Page + Page
            /\ c * Page \in Nat
        BY <1>1
      <4> QED
        BY <4>1, <4>2, <4>3, <4>4
    <3>2. \A k \in 1 .. Page : q + k <= Len(file) /\ file[q + k] = buf[k]
      BY <1>4 DEF Written
    <3> HIDE DEF f, p, q
    <3>3. ASSUME NEW k \in 1 .. Page PROVE q + k <= Len(f) /\ f[q + k] = buf[k]
      <4>1. q + k <= Len(file) /\ file[q + k] = buf[k]
        BY <3>2
      <4> DEFINE a == q + k
      <4>2. a \in 1 .. Len(file) /\ (a <= p \/ a > p + Page) /\ a <= Len(f)
        BY <1>1, <3>1, <4>1
      <4> HIDE DEF a
      <4>3. f[a] = file[a]
        BY <1>2, <4>2
      <4> QED
        BY <4>1, <4>2, <4>3 DEF a
    <3> QED
      BY <3>3 DEF Written, q
  <2> QED
    BY <2>1, <2>2
<1> QED
  BY <1>3, <1>4 DEF f

(* A step in the last pass keeps what its place says.                      *)
LEMMA PassStep ==
    ASSUME TypeInv, Underway, OrderInv, PassInv, Moves, cmd.prog \in Shufflers, ~reported'
    PROVE  PassAt(LastStart(cmd), Blocked(cmd), Taken + 1, pos', buf', file', recnum')
<1> DEFINE x == cmd
           s == Script(x)
           n == Blocked(x)
           z == LastStart(x)
           d == Taken
           Goal == PassAt(z, n, d + 1, pos', buf', file', recnum')
<1> SUFFICES Goal
  OBVIOUS
<1>1. /\ x \in Commands /\ end = "well" /\ step \in Steps /\ ~reported
      /\ d \in Nat /\ d + 1 \in 1 .. Len(s) /\ step = s[d + 1]
      /\ file' \in Seq(Int) /\ Len(file') >= Len(file)
  BY ShufflerNext, NotTakenBack
<1>2. n \in Nat /\ n > 0 /\ LastPass(s, z, n) /\ Page \in Nat
  BY <1>1, ShufflerScript, Constants
<1>3. PassAt(z, n, d, pos, buf, file, recnum)
  BY <1>1 DEF PassInv, Shufflers
<1>4. Order(n, recnum)
  BY DEF OrderInv, Shufflers
<1> HIDE DEF x, s, n, z, d
<1>5. /\ z \in Nat
      /\ \A i \in 1 .. n :
             s[z + 2 * i - 1] = SeekRecord(i - 1) /\ s[z + 2 * i] = Write(Page, "report")
      /\ \/ Len(s) = z + 2 * n
         \/ Len(s) = z + 2 * n + 1 /\ s[z + 2 * n + 1] = Fsync
  BY <1>2 DEF LastPass
<1>6. /\ \A i \in 1 .. n : d = z + 2 * i - 1 => pos = recnum[i - 1] * Page
      /\ \A i \in 0 .. n :
             d >= z + 2 * i => \A j \in 0 .. n - 1 : j < i => Written(recnum[j], file, buf)
  BY <1>3 DEF PassAt
<1>7. ASSUME NEW k \in 1 .. n, d + 1 = z + 2 * k - 1 PROVE Goal
  <2>1. step = SeekRecord(k - 1)
    BY <1>1, <1>5, <1>7
  <2>2. MoveTo /\ step.op = "seekrecord" /\ step.i = k - 1
    BY <2>1, ByOp DEF SeekRecord
  <2>3. pos' = recnum[k - 1] * Page /\ file' = file /\ buf' = buf /\ recnum' = recnum
    BY <1>1, <2>2, MovedIs
  <2>4. \A i \in 1 .. n : d + 1 = z + 2 * i - 1 => i = k
    BY <1>5, <1>7
  <2>5. ASSUME NEW i \in 0 .. n, d + 1 >= z + 2 * i
        PROVE  \A j \in 0 .. n - 1 : j < i => Written(recnum[j], file, buf)
    <3>1. d >= z + 2 * i
      BY <1>1, <1>5, <1>7, <2>5
    <3> QED
      BY <1>6, <3>1
  <2> QED
    BY <2>3, <2>4, <2>5 DEF PassAt
<1>8. ASSUME NEW k \in 1 .. n, d + 1 = z + 2 * k PROVE Goal
  <2>1. step = Write(Page, "report")
    BY <1>1, <1>5, <1>8
  <2>2. WriteBlock /\ step.n = Page /\ step.iferr = "report"
    BY <2>1, ByOp DEF Write
  <2>3. Put(Page) /\ buf' = buf /\ recnum' = recnum
    BY <1>1, <2>2, WriteIs
  <2> DEFINE b == recnum[k - 1]
  <2>4. b \in Nat
    <3>1. k - 1 \in 0 .. n - 1
      BY <1>2
    <3>2. b \in 0 .. n - 1
      BY <1>4, <3>1 DEF Order
    <3> HIDE DEF b
    <3> QED
      BY <1>2, <3>2
  <2>5. pos = b * Page
    <3>1. d = z + 2 * k - 1
      BY <1>1, <1>5, <1>8
    <3> QED
      BY <1>6, <3>1
  <2>6. /\ Written(b, file', buf')
        /\ \A c \in Nat : Written(c, file, buf) => Written(c, file', buf')
    <3> HIDE DEF b
    <3> QED
      BY <1>1, <2>3, <2>4, <2>5, BlockWritten
  <2>7. \A i \in 1 .. n : d + 1 # z + 2 * i - 1
    BY <1>5, <1>8
  <2>8. ASSUME NEW i \in 0 .. n, d + 1 >= z + 2 * i, NEW j \in 0 .. n - 1, j < i
        PROVE  Written(recnum'[j], file', buf')
    <3>1. CASE j = k - 1
      BY <2>3, <2>6, <3>1
    <3>2. CASE j # k - 1
      <4>1. k - 1 \in 0 .. n /\ d >= z + 2 * (k - 1) /\ j < k - 1
        BY <1>1, <1>2, <1>5, <1>8, <2>8, <3>2
      <4>2. Written(recnum[j], file, buf)
        BY <1>6, <4>1
      <4>3. recnum[j] \in Nat
        BY <1>2, <1>4 DEF Order
      <4> QED
        BY <2>3, <2>6, <4>2, <4>3
    <3> QED
      BY <3>1, <3>2
  <2> QED
    BY <2>7, <2>8 DEF PassAt
<1>9. ASSUME d + 1 = z + 2 * n + 1, d + 1 <= Len(s) PROVE Goal
  <2>1. step = Fsync
    BY <1>1, <1>2, <1>5, <1>9
  <2>2. file' = file /\ buf' = buf /\ recnum' = recnum
    BY <1>1, <2>1, ByOp, OthersAre DEF Fsync
  <2>3. \A i \in 1 .. n : d + 1 # z + 2 * i - 1
    BY <1>2, <1>5, <1>9
  <2>4. ASSUME NEW i \in 0 .. n, d + 1 >= z + 2 * i
        PROVE  \A j \in 0 .. n - 1 : j < i => Written(recnum[j], file, buf)
    <3>1. d >= z + 2 * i
      BY <1>1, <1>2, <1>5, <1>9
    <3> QED
      BY <1>6, <3>1
  <2> QED
    BY <2>2, <2>3, <2>4 DEF PassAt
<1>10. ASSUME d + 1 <= z PROVE Goal
  <2>1. \A i \in 1 .. n : d + 1 # z + 2 * i - 1
    BY <1>1, <1>5, <1>10
  <2>2. \A i \in 0 .. n : d + 1 >= z + 2 * i => i = 0
    BY <1>1, <1>5, <1>10
  <2> QED
    BY <2>1, <2>2 DEF PassAt
<1>11. \/ d + 1 <= z \/ d + 1 = z + 2 * n + 1
       \/ \E k \in 1 .. n : d + 1 = z + 2 * k - 1 \/ d + 1 = z + 2 * k
  <2>1. SUFFICES ASSUME d >= z, d + 1 <= z + 2 * n
                 PROVE  \E k \in 1 .. n : d + 1 = z + 2 * k - 1 \/ d + 1 = z + 2 * k
    BY <1>1, <1>2, <1>5
  <2> DEFINE k == (d - z) \div 2 + 1
  <2>2. d - z \in Nat
    BY <1>1, <1>5, <2>1
  <2>3. k \in Nat /\ (d - z = 2 * (k - 1) \/ d - z = 2 * (k - 1) + 1) /\ k > 0
    BY <2>2
  <2> HIDE DEF k
  <2>4. k \in 1 .. n /\ (d + 1 = z + 2 * k - 1 \/ d + 1 = z + 2 * k)
    BY <1>1, <1>2, <1>5, <2>1, <2>3
  <2> QED
    BY <2>4
<1> HIDE DEF Goal
<1> QED
  BY <1>1, <1>7, <1>8, <1>9, <1>10, <1>11

(* The invariant of the last pass is one. *)
LEMMA PassKept ==
    ASSUME TypeInv, Underway, OrderInv, PassInv, [Next]_vars
    PROVE  PassInv'
<1> DEFINE Goal == PassAt(LastStart(cmd'), Blocked(cmd'), Taken', pos', buf', file', recnum')
<1> SUFFICES ASSUME cmd'.prog \in Shufflers, ~reported', end' = "well" PROVE Goal
  BY DEF PassInv, Shufflers
<1>1. ASSUME NEW x \in Commands, Run(x) PROVE Goal
  <2>1. cmd' = x /\ Taken' = 0
    BY <1>1, RunIs
  <2> DEFINE n == Blocked(x)
             z == LastStart(x)
  <2>2. n \in Nat /\ z \in Nat
    BY <2>1, ShufflerScript DEF LastPass
  <2> HIDE DEF n, z
  <2>3. (\A i \in 1 .. n : 0 # z + 2 * i - 1) /\ (\A i \in 0 .. n : 0 >= z + 2 * i => i = 0)
    BY <2>2
  <2>4. PassAt(z, n, 0, pos', buf', file', recnum')
    BY <2>3 DEF PassAt
  <2> QED
    BY <2>1, <2>4 DEF n, z
<1>2. CASE Moves
  <2>1. cmd' = cmd /\ Taken' = Taken + 1
    BY <1>2, Forward DEF Continued
  <2> QED
    BY <1>2, <2>1, PassStep
<1>3. CASE Back
  BY <1>3, BackIs DEF PassInv, Shufflers
<1>4. CASE Crash
  BY <1>4, CrashIs
<1>5. CASE UNCHANGED vars
  BY <1>5, StutterIs DEF PassInv, Shufflers
<1> HIDE DEF Goal
<1> QED
  BY <1>1, <1>2, <1>3, <1>4, <1>5, Alternatives

(* A pass in random order writes every block: when the two programs that   *)
(* shuffle end without an error, all blocks hold what the last read has    *)
(* left in the buffer (random_perf_test.c:102-147,                         *)
(* iozone_test.c:514-525,581-606).                                         *)
THEOREM RandomPassCoversTheFile == Spec => []RandomPassWritesAll
<1>1. Init => Base /\ OrderInv /\ PassInv
  BY BaseInit, NoneYet DEF OrderInv, PassInv
<1>2. Base /\ OrderInv /\ PassInv /\ [Next]_vars => (Base /\ OrderInv /\ PassInv)'
  BY TypeKept, UnderwayKept, OrderKept, PassKept DEF Base
<1>3. ASSUME Base, OrderInv, PassInv
      PROVE  RandomPassWritesAll
  <2> DEFINE n == Blocked(cmd)
             z == LastStart(cmd)
  <2> SUFFICES ASSUME cmd.prog \in Shufflers, todo = <<>>, end = "well", ~reported,
                      NEW k \in 1 .. n * Page
               PROVE  k <= Len(file) /\ file[k] = buf[((k - 1) % Page) + 1]
    BY DEF RandomPassWritesAll, EndsWell, Shufflers, Blocked
  <2>1. TypeInv
    BY <1>3 DEF Base
  <2>2. cmd \in Commands /\ Taken = Len(Script(cmd))
    BY <2>1, EndIs DEF Shufflers
  <2>3. n \in Nat /\ z \in Nat /\ LastPass(Script(cmd), z, n)
    BY <2>2, ShufflerScript DEF LastPass
  <2>4. Taken >= z + 2 * n
    <3> HIDE DEF n, z
    <3> QED
      BY <2>2, <2>3 DEF LastPass
  <2>5. PassAt(z, n, Taken, pos, buf, file, recnum) /\ Order(n, recnum)
    BY <1>3 DEF PassInv, OrderInv, Shufflers
  <2> HIDE DEF n, z
  <2>6. \A j \in 0 .. n - 1 : Written(recnum[j], file, buf)
    <3>1. n \in 0 .. n /\ \A j \in 0 .. n - 1 : j < n
      BY <2>3
    <3> QED
      BY <2>4, <2>5, <3>1 DEF PassAt
  <2> DEFINE b == (k - 1) \div Page
             m == (k - 1) % Page
  <2>7. Page \in Nat /\ Page > 0 /\ n * Page \in Nat
    BY <2>3, Constants
  <2>8. k - 1 \in Nat /\ k <= n * Page /\ k \in Nat
    <3> DEFINE q == n * Page
    <3>1. q \in Nat /\ k \in 1 .. q
      BY <2>7
    <3> HIDE DEF q
    <3>2. k - 1 \in Nat /\ k <= q /\ k \in Nat
      BY <3>1
    <3> QED
      BY <3>2 DEF q
  <2>9. b \in Nat /\ m \in Nat /\ m < Page /\ k - 1 = Page * b + m
    <3> DEFINE j == k - 1
    <3>1. j \in Nat
      BY <2>8
    <3> HIDE DEF j
    <3>2. j \div Page \in Nat /\ j % Page \in Nat /\ j % Page < Page
          /\ j = Page * (j \div Page) + (j % Page)
      BY <2>7, <3>1, Divided
    <3> QED
      BY <3>2 DEF j
  <2> HIDE DEF b, m
  <2>10. b * Page + (m + 1) = k /\ m + 1 \in 1 .. Page
    <3>1. Page * b = b * Page /\ b * Page \in Nat
      BY <2>7, <2>9
    <3> DEFINE q == b * Page
    <3>2. q \in Nat /\ k - 1 = q + m
      BY <2>9, <3>1
    <3> HIDE DEF q
    <3>3. q + (m + 1) = k /\ m + 1 \in 1 .. Page
      BY <2>7, <2>8, <2>9, <3>2
    <3> QED
      BY <3>3 DEF q
  <2>11. b \in 0 .. n - 1
    <3>1. ASSUME n <= b PROVE FALSE
      <4>1. n * Page <= b * Page
        BY <2>3, <2>7, <2>9, <3>1, TimesMonotone
      <4> DEFINE q == b * Page
                 r == n * Page
      <4>2. q \in Nat /\ r \in Nat /\ r <= q /\ q + (m + 1) = k /\ k <= r
        BY <2>7, <2>8, <2>9, <2>10, <4>1
      <4> HIDE DEF q, r
      <4> QED
        BY <2>9, <4>2
    <3> QED
      BY <2>3, <2>9, <3>1
  <2>12. Written(b, file, buf)
    <3>1. PICK j \in 0 .. n - 1 : recnum[j] = b
      BY <2>5, <2>11 DEF Order
    <3> QED
      BY <2>6, <3>1
  <2>13. b * Page + (m + 1) <= Len(file) /\ file[b * Page + (m + 1)] = buf[m + 1]
    BY <2>10, <2>12 DEF Written
  <2> QED
    BY <2>10, <2>13 DEF m
<1>4. Base /\ OrderInv /\ PassInv => RandomPassWritesAll
  BY <1>3
<1> QED
  BY <1>1, <1>2, <1>4, PTL DEF Spec
============================================================================
