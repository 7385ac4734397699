-------------------------- MODULE MmapTreeProofs --------------------------
(***************************************************************************)
(* The radix tree for any fan-out, any size of a chunk and trees of any    *)
(* height.  A tree is described by its nodes: n[h][i] is the table at      *)
(* height h that stands for the i-th piece of the file of that size, or    *)
(* NULL; the table below it in slot s is n[h - 1][i * FANOUT + s].  What   *)
(* the recursive walks compute is proved by induction, written as the      *)
(* induction over a set of numbers.                                        *)
(***************************************************************************)
EXTENDS MmapTree, FiniteSetTheorems, WellFoundedInduction, TLAPS

(* The ordering of the natural numbers, as a relation. *)
Less == {ss \in Nat \X Nat : ss[1] < ss[2]}

(* Every set of numbers that is not empty has a least one. *)
LEMMA LeastNumber ==
    ASSUME NEW T \in SUBSET Nat, T # {}
    PROVE  \E n \in T : \A m \in T : n <= m
<1>1. IsWellFoundedOn(Less, Nat)
  BY NatLessThanWellFounded DEF OpToRel, Less
<1>2. PICK n \in T : \A m \in T : <<m, n>> \notin Less
  BY <1>1, WFMin
<1>3. ASSUME NEW m \in T PROVE n <= m
  <2>1. ~(n <= m) => <<m, n>> \in Less
    BY DEF Less
  <2> QED
    BY <1>2, <2>1
<1> QED
  BY <1>3

(* Induction over the natural numbers, for a set. *)
LEMMA Induction ==
    ASSUME NEW T \in SUBSET Nat, 0 \in T, \A n \in T : n + 1 \in T
    PROVE  T = Nat
<1> SUFFICES ASSUME Nat \ T # {} PROVE FALSE
  OBVIOUS
<1>1. PICK n \in Nat \ T : \A m \in Nat \ T : n <= m
  BY LeastNumber
<1>2. n - 1 \in Nat /\ n - 1 \in T
  BY <1>1
<1> QED
  BY <1>1, <1>2

-----------------------------------------------------------------------------
(* Division *)

(* A number is its quotient and its remainder. *)
LEMMA Divide ==
    ASSUME NEW c \in Nat, c > 0, NEW x \in Nat
    PROVE  /\ x \div c \in Nat /\ x % c \in Nat /\ x % c < c
           /\ x = c * (x \div c) + (x % c)
OBVIOUS

(* There is only one quotient and one remainder. *)
LEMMA Quotient ==
    ASSUME NEW c \in Nat, c > 0, NEW q \in Nat, NEW r \in Nat, r < c, NEW x, x = c * q + r
    PROVE  x \div c = q /\ x % c = r
OBVIOUS

(* Dividing twice, *)
LEMMA DivideTwice ==
    ASSUME NEW c \in Nat, c > 0, NEW f \in Nat, f > 0, NEW x \in Nat
    PROVE  x \div (c * f) = (x \div c) \div f
OBVIOUS

(* and dividing what a larger piece leaves. *)
LEMMA DivideRest ==
    ASSUME NEW c \in Nat, c > 0, NEW f \in Nat, f > 0, NEW x \in Nat
    PROVE  (x % (c * f)) \div c = (x \div c) % f
<1> DEFINE q == x \div (c * f)
           r == x % (c * f)
<1>1. c * f \in Nat /\ c * f > 0
  OBVIOUS
<1>2. q \in Nat /\ r \in Nat /\ r < c * f /\ x = (c * f) * q + r
  BY <1>1
<1>3. r = c * (r \div c) + (r % c) /\ r % c < c /\ r % c \in Nat /\ r \div c \in Nat
  BY <1>2
<1> HIDE DEF q, r
<1>4. r \div c < f
  BY <1>2
<1>5. x = c * (f * q + (r \div c)) + (r % c)
  BY <1>2, <1>3
<1>6. x \div c = f * q + (r \div c)
  BY <1>2, <1>3, <1>5
<1>7. (x \div c) % f = r \div c
  <2> DEFINE y == x \div c
             m == r \div c
  <2>1. m \in Nat /\ m < f /\ y = f * q + m /\ q \in Nat
    BY <1>2, <1>3, <1>4, <1>6
  <2> HIDE DEF y, m
  <2>2. y % f = m
    BY <2>1, Quotient
  <2> QED
    BY <2>2 DEF y, m
<1> QED
  BY <1>7 DEF r

(* The slots below a table, by their numbers: slot s of piece i is piece   *)
(* i * FANOUT + s one height below.                                        *)
LEMMA SlotOfPiece ==
    ASSUME NEW i \in Nat
    PROVE  /\ i \div FANOUT \in Nat /\ i % FANOUT \in Slots
           /\ (i \div FANOUT) * FANOUT + (i % FANOUT) = i
           /\ \A s \in Slots : /\ i * FANOUT + s \in Nat
                               /\ (i * FANOUT + s) \div FANOUT = i
                               /\ (i * FANOUT + s) % FANOUT = s
<1>1. FANOUT \in Nat /\ FANOUT > 1
  BY FanoutAssumption
<1>2. \A s \in Slots : s \in Nat /\ s < FANOUT /\ s >= 0
  BY <1>1 DEF Slots
<1>3. i \div FANOUT \in Nat /\ i % FANOUT \in Slots
  BY <1>1, Divide DEF Slots
<1>4. (i \div FANOUT) * FANOUT + (i % FANOUT) = i
  BY <1>1, Divide
<1>5. ASSUME NEW s \in Slots
      PROVE  /\ i * FANOUT + s \in Nat
             /\ (i * FANOUT + s) \div FANOUT = i
             /\ (i * FANOUT + s) % FANOUT = s
  <2>1. s \in Nat /\ s < FANOUT
    BY <1>2
  <2>2. i * FANOUT + s = FANOUT * i + s /\ i * FANOUT + s \in Nat
    BY <1>1, <2>1
  <2> DEFINE x == i * FANOUT + s
  <2>3. x = FANOUT * i + s /\ x \in Nat
    BY <2>2
  <2> HIDE DEF x
  <2>4. x \div FANOUT = i /\ x % FANOUT = s
    BY <1>1, <2>1, <2>3, Quotient
  <2> QED
    BY <2>3, <2>4 DEF x
<1> QED
  BY <1>3, <1>4, <1>5

-----------------------------------------------------------------------------
(* Capacities *)

Capacities(n) ==
    CHOOSE capacity : capacity =
        [h \in 0 .. n |-> IF h = 0 THEN CHUNK ELSE capacity[h - 1] * FANOUT]

(* The loop of calculate_capacity, *)
LEMMA CapacitiesDef ==
    ASSUME NEW n \in Nat
    PROVE  Capacities(n) =
               [h \in 0 .. n |-> IF h = 0 THEN CHUNK ELSE Capacities(n)[h - 1] * FANOUT]
<1> DEFINE Good(m, f) == f = [h \in 0 .. m |-> IF h = 0 THEN CHUNK ELSE f[h - 1] * FANOUT]
           T == {m \in Nat : \E f : Good(m, f)}
<1>1. 0 \in T
  <2>1. Good(0, [h \in 0 .. 0 |-> CHUNK])
    OBVIOUS
  <2> QED
    BY <2>1
<1>2. ASSUME NEW m \in T PROVE m + 1 \in T
  <2>1. PICK f : Good(m, f)
    OBVIOUS
  <2> DEFINE g == [h \in 0 .. m + 1 |-> IF h = m + 1 THEN f[m] * FANOUT ELSE f[h]]
  <2>2. \A h \in 0 .. m + 1 : g[h] = IF h = 0 THEN CHUNK ELSE g[h - 1] * FANOUT
    BY <2>1
  <2>3. Good(m + 1, g)
    BY <2>2
  <2> HIDE DEF Good, g
  <2> QED
    BY <2>3
<1>3. T \in SUBSET Nat
  OBVIOUS
<1> HIDE DEF T
<1>4. n \in T
  BY <1>1, <1>2, <1>3, Induction
<1> QED
  BY <1>4 DEF T, Capacities

(* and that a height more is FANOUT times as much.                         *)
LEMMA Capacity ==
    /\ calculate_capacity(0) = CHUNK
    /\ \A h \in Nat : /\ calculate_capacity(h) \in Nat /\ calculate_capacity(h) > 0
                      /\ calculate_capacity(h + 1) = calculate_capacity(h) * FANOUT
                      /\ calculate_capacity(h) > h
<1>1. \A n \in Nat : calculate_capacity(n) = Capacities(n)[n]
  BY DEF calculate_capacity, Capacities
<1>2. \A n \in Nat : \A h \in 0 .. n :
          Capacities(n)[h] = IF h = 0 THEN CHUNK ELSE Capacities(n)[h - 1] * FANOUT
  BY CapacitiesDef
<1>3. ASSUME NEW n \in Nat
      PROVE  \A h \in 0 .. n : Capacities(n)[h] = Capacities(n + 1)[h]
  <2> DEFINE T == {h \in Nat : h <= n => Capacities(n)[h] = Capacities(n + 1)[h]}
  <2>1. 0 \in T
    BY <1>2
  <2>2. ASSUME NEW h \in T PROVE h + 1 \in T
    <3>1. CASE h + 1 <= n
      <4>1. Capacities(n)[h + 1] = Capacities(n)[h] * FANOUT
        BY <1>2, <3>1
      <4>2. Capacities(n + 1)[h + 1] = Capacities(n + 1)[h] * FANOUT
        BY <1>2, <3>1
      <4> QED
        BY <3>1, <4>1, <4>2
    <3> QED
      BY <3>1
  <2>3. T \in SUBSET Nat
    OBVIOUS
  <2> HIDE DEF T
  <2>4. T = Nat
    BY <2>1, <2>2, <2>3, Induction
  <2> QED
    BY <2>4 DEF T
<1>4. calculate_capacity(0) = CHUNK
  BY <1>1, <1>2
<1>5. ASSUME NEW n \in Nat
      PROVE  calculate_capacity(n + 1) = calculate_capacity(n) * FANOUT
  BY <1>1, <1>2, <1>3
<1>6. CHUNK \in Nat /\ CHUNK > 0 /\ FANOUT \in Nat /\ FANOUT > 1
  BY ChunkAssumption, FanoutAssumption
<1> DEFINE T == {h \in Nat : /\ calculate_capacity(h) \in Nat
                             /\ calculate_capacity(h) > h}
<1>7. 0 \in T
  BY <1>4, <1>6
<1>8. ASSUME NEW h \in T PROVE h + 1 \in T
  <2>1. calculate_capacity(h) \in Nat /\ calculate_capacity(h) >= h + 1
    OBVIOUS
  <2>2. ASSUME NEW c \in Nat, c >= h + 1 PROVE c * FANOUT \in Nat /\ c * FANOUT > h + 1
    <3>1. FANOUT - 2 \in Nat /\ c * (FANOUT - 2) \in Nat
      BY <1>6
    <3>2. c * FANOUT = c * (FANOUT - 2) + c + c
      BY <1>6
    <3> QED
      BY <2>2, <3>1, <3>2
  <2> QED
    BY <1>5, <2>1, <2>2
<1>9. T \in SUBSET Nat
  OBVIOUS
<1> HIDE DEF T
<1>10. T = Nat
  BY <1>7, <1>8, <1>9, Induction
<1> QED
  BY <1>4, <1>5, <1>10 DEF T

(* The height that is calculated is enough. *)
LEMMA NewHeight ==
    ASSUME NEW offset \in Nat
    PROVE  /\ calculate_new_height(offset) \in Nat
           /\ offset < calculate_capacity(calculate_new_height(offset) + 1)
<1> DEFINE T == {h \in Nat : offset < calculate_capacity(h + 1)}
<1>1. offset \in T
  BY Capacity
<1>2. PICK h \in T : \A m \in T : h <= m
  BY <1>1, LeastNumber
<1>3. h \in 0 .. offset /\ offset < calculate_capacity(h + 1)
  BY <1>1, <1>2
<1>4. h > 0 => offset >= calculate_capacity(h)
  <2>1. h > 0 => h - 1 \in Nat /\ h - 1 \notin T
    BY <1>2
  <2> QED
    BY <1>3, <2>1, Capacity
<1> QED
  BY <1>3, <1>4 DEF calculate_new_height

(* Which piece of the file of height h an offset lies in. *)
Piece(offset, h) == offset \div calculate_capacity(h)

(* The pieces of an offset, and the slots that the walk goes through: the  *)
(* piece above contains the piece below, in the slot that SlotIn gives.    *)
LEMMA Pieces ==
    ASSUME NEW offset \in Nat, NEW h \in Nat
    PROVE  /\ Piece(offset, h) \in Nat
           /\ Piece(offset, h + 1) = Piece(offset, h) \div FANOUT
           /\ SlotIn(offset, h, FALSE) = Piece(offset, h) % FANOUT
           /\ offset < calculate_capacity(h + 1) <=> Piece(offset, h) < FANOUT
           /\ offset < calculate_capacity(h + 1) =>
                  Piece(offset, h + 1) = 0 /\ Piece(offset, h) % FANOUT = Piece(offset, h)
           /\ SlotIn(offset, h, TRUE) = Piece(offset, h)
<1> DEFINE c == calculate_capacity(h)
<1>1. c \in Nat /\ c > 0 /\ calculate_capacity(h + 1) = c * FANOUT
  BY Capacity
<1>2. FANOUT \in Nat /\ FANOUT > 0
  BY FanoutAssumption
<1>3. Piece(offset, h) = offset \div c /\ Piece(offset, h + 1) = offset \div (c * FANOUT)
  BY <1>1 DEF Piece
<1>4. SlotIn(offset, h, FALSE) = (offset % (c * FANOUT)) \div c
      /\ SlotIn(offset, h, TRUE) = offset \div c
  BY <1>1 DEF SlotIn
<1> HIDE DEF c
<1>5. offset \div c \in Nat
  BY <1>1, Divide
<1>6. offset < c * FANOUT <=> offset \div c < FANOUT
  BY <1>1, <1>2
<1>7. offset \div c < FANOUT => (offset \div c) \div FANOUT = 0 /\ (offset \div c) % FANOUT = offset \div c
  BY <1>2, <1>5
<1>8. offset \div (c * FANOUT) = (offset \div c) \div FANOUT
  BY <1>1, <1>2, DivideTwice
<1>9. (offset % (c * FANOUT)) \div c = (offset \div c) % FANOUT
  BY <1>1, <1>2, DivideRest
<1> DEFINE p == offset \div c
<1> HIDE DEF p
<1> QED
  BY <1>1, <1>3, <1>4, <1>5, <1>6, <1>7, <1>8, <1>9 DEF p

-----------------------------------------------------------------------------
(* Tables *)

Addresses == {Table(k) : k \in Nat}
Mappings == {Mapping(k) : k \in Nat}
Words == {NULL} \cup Addresses \cup Mappings

HeapOK(heap) ==
    /\ IsFiniteSet(DOMAIN heap) /\ DOMAIN heap \subseteq Addresses
    /\ heap \in [DOMAIN heap -> [Slots -> Words]]

(* NULL, the addresses of tables and those of mappings are all different.  *)
LEMMA WordsDiffer ==
    /\ NULL \notin Addresses /\ NULL \notin Mappings /\ Addresses \cap Mappings = {}
    /\ NULL \in Words /\ Addresses \subseteq Words /\ Mappings \subseteq Words
    /\ \A j, k \in Nat : Table(j) = Table(k) => j = k
    /\ \A j, k \in Nat : Mapping(j) = Mapping(k) => j = k
BY DEF NULL, Addresses, Mappings, Words, Table, Mapping

(* malloc hands out a table that is not in use. *)
LEMMA FreshIsNew ==
    ASSUME NEW heap, HeapOK(heap)
    PROVE  Fresh(heap) \in Addresses /\ Fresh(heap) \notin DOMAIN heap
<1> DEFINE card == Cardinality(DOMAIN heap)
           Free == {k \in 1 .. card + 1 : Table(k) \notin DOMAIN heap}
<1>1. IsFiniteSet(DOMAIN heap) /\ card \in Nat
  BY FS_CardinalityType DEF HeapOK
<1>2. Free # {}
  <2> SUFFICES ASSUME \A k \in 1 .. card + 1 : Table(k) \in DOMAIN heap PROVE FALSE
    OBVIOUS
  <2> DEFINE f == [k \in 1 .. card + 1 |-> Table(k)]
  <2>1. IsFiniteSet(1 .. card + 1) /\ Cardinality(1 .. card + 1) = card + 1
    BY <1>1, FS_Interval
  <2>2. f \in [1 .. card + 1 -> DOMAIN heap]
    OBVIOUS
  <2>3. \A j, k \in 1 .. card + 1 : f[j] = f[k] => j = k
    BY <1>1, WordsDiffer
  <2>4. \E j, k \in 1 .. card + 1 : j # k /\ f[j] = f[k]
    <3> HIDE DEF f
    <3> QED
      BY <1>1, <2>1, <2>2, FS_PigeonHole
  <2> QED
    BY <2>3, <2>4
<1>3. Free \subseteq Nat
  BY <1>1
<1>4. PICK k \in Free : \A m \in Free : k <= m
  BY <1>2, <1>3, LeastNumber
<1>5. /\ k \in 1 .. card + 1 /\ Table(k) \notin DOMAIN heap
      /\ \A j \in 1 .. k - 1 : Table(j) \in DOMAIN heap
  BY <1>1, <1>4
<1> DEFINE P(m) == Table(m) \notin DOMAIN heap /\ \A j \in 1 .. m - 1 : Table(j) \in DOMAIN heap
           c == CHOOSE m \in 1 .. card + 1 : P(m)
<1>6. c \in 1 .. card + 1 /\ P(c)
  BY <1>5
<1>7. c \in Nat /\ Fresh(heap) = Table(c)
  BY <1>1, <1>6 DEF Fresh
<1> QED
  BY <1>6, <1>7 DEF Addresses

(* A table that is added is empty, and the others stay as they are. *)
LEMMA AddedTable ==
    ASSUME NEW heap, HeapOK(heap), NEW a \in Addresses
    PROVE  /\ HeapOK(WithTable(heap, a))
           /\ DOMAIN WithTable(heap, a) = DOMAIN heap \cup {a}
           /\ WithTable(heap, a)[a] = EmptyTable
           /\ \A b \in DOMAIN heap \ {a} : WithTable(heap, a)[b] = heap[b]
<1>1. EmptyTable \in [Slots -> Words]
  BY WordsDiffer DEF EmptyTable
<1>2. IsFiniteSet(DOMAIN heap \cup {a})
  BY FS_AddElement DEF HeapOK
<1> QED
  BY <1>1, <1>2 DEF HeapOK, WithTable

(* Writing a word into a table. *)
LEMMA WrittenWord ==
    ASSUME NEW heap, HeapOK(heap), NEW a \in DOMAIN heap, NEW s \in Slots, NEW w \in Words
    PROVE  LET new == [heap EXCEPT ![a][s] = w] IN
           /\ HeapOK(new)
           /\ DOMAIN new = DOMAIN heap
           /\ new[a][s] = w
           /\ \A t \in Slots \ {s} : new[a][t] = heap[a][t]
           /\ \A b \in DOMAIN heap \ {a} : new[b] = heap[b]
BY DEF HeapOK

-----------------------------------------------------------------------------
(* Trees *)

Nodes(n) == {a \in Addresses : \E h \in Nat, i \in Nat : n[h][i] = a}

(* n gives the nodes of the tree in heap: every one below the root hangs   *)
(* in its slot of the node above, the leaves hold the mappings of their    *)
(* chunks, as far as ok has them, and no table is two nodes.               *)
Tree(heap, n, root, height, ok) ==
    /\ n \in [Nat -> [Nat -> {NULL} \cup DOMAIN heap]]
    /\ height \in Nat /\ n[height][0] = root
    /\ \A h, i \in Nat : h > height \/ (h = height /\ i # 0) => n[h][i] = NULL
    /\ \A h, i \in Nat : n[h + 1][i] # NULL =>
           \A s \in Slots : heap[n[h + 1][i]][s] = n[h][i * FANOUT + s]
    /\ \A h, i \in Nat : n[h][i] # NULL /\ h < height => n[h + 1][i \div FANOUT] # NULL
    /\ \A i \in Nat : n[0][i] # NULL =>
           \A s \in Slots : heap[n[0][i]][s] # NULL =>
                                <<heap[n[0][i]][s], i * FANOUT + s>> \in ok
    /\ \A h, i, k, j \in Nat : n[h][i] # NULL /\ n[h][i] = n[k][j] => h = k /\ i = j

(* The mapping of chunk c, or NULL. *)
Content(heap, n, c) ==
    IF n[0][c \div FANOUT] = NULL THEN NULL ELSE heap[n[0][c \div FANOUT]][c % FANOUT]

WordsRead(heap, root, height, offset) ==
    CHOOSE word : word = [h \in 0 .. height |->
        LET table == IF h = height THEN root ELSE word[h + 1]
            slot == SlotIn(offset, h, h = height)
        IN  IF table = NULL \/ slot >= FANOUT THEN NULL ELSE heap[table][slot]]

(* The lookup finds the mapping of the offset's chunk. *)
LEMMA LookupIs ==
    ASSUME NEW heap, NEW n, NEW root, NEW height, NEW ok, HeapOK(heap),
           Tree(heap, n, root, height, ok), NEW offset \in Nat
    PROVE  Lookup(heap, root, height, offset) = Content(heap, n, Piece(offset, 0))
<1> DEFINE P(h) == Piece(offset, h)
           in == offset < calculate_capacity(height + 1)
           Entry(h) == IF n[h][P(h + 1)] = NULL THEN NULL ELSE heap[n[h][P(h + 1)]][P(h) % FANOUT]
           W(h) == IF in THEN Entry(h) ELSE NULL
           Step(word, h) ==
               LET table == IF h = height THEN root ELSE word[h + 1]
                   slot == SlotIn(offset, h, h = height)
               IN  IF table = NULL \/ slot >= FANOUT THEN NULL ELSE heap[table][slot]
           word == WordsRead(heap, root, height, offset)
<1>1. height \in Nat /\ FANOUT \in Nat /\ FANOUT > 1
  BY FanoutAssumption DEF Tree
<1>2. \A h \in Nat : /\ P(h) \in Nat /\ P(h + 1) = P(h) \div FANOUT
                     /\ SlotIn(offset, h, FALSE) = P(h) % FANOUT
                     /\ SlotIn(offset, h, TRUE) = P(h)
                     /\ P(h) % FANOUT \in Slots
                     /\ P(h) = P(h + 1) * FANOUT + (P(h) % FANOUT)
  BY Pieces, SlotOfPiece
<1>3. in => P(height + 1) = 0 /\ P(height) % FANOUT = P(height) /\ P(height) < FANOUT
  BY <1>1, Pieces
<1>4. ~in => P(height) >= FANOUT
  <2>1. P(height) \in Nat /\ (in <=> P(height) < FANOUT)
    BY <1>1, Pieces
  <2> HIDE DEF P, in
  <2> QED
    BY <1>1, <2>1
<1>5. \A s \in Slots : ~(s >= FANOUT)
  BY <1>1 DEF Slots
<1> HIDE DEF P, in
<1>6. ASSUME NEW h \in 0 .. height, NEW f, h < height => f[h + 1] = W(h + 1)
      PROVE  Step(f, h) = W(h)
  <2>1. CASE h = height
    <3>1. n[height][0] = root
      BY DEF Tree
    <3>2. Step(f, h) = IF root = NULL \/ P(height) >= FANOUT THEN NULL ELSE heap[root][P(height)]
      BY <1>1, <1>2, <2>1
    <3>3. CASE in
      <4>1. W(h) = IF root = NULL THEN NULL ELSE heap[root][P(height)]
        BY <1>3, <2>1, <3>1, <3>3
      <4>2. ~(P(height) >= FANOUT)
        <5>1. P(height) % FANOUT \in Slots /\ P(height) % FANOUT = P(height)
          BY <1>1, <1>2, <1>3, <3>3
        <5> QED
          BY <1>5, <5>1
      <4> QED
        BY <3>2, <4>1, <4>2
    <3>4. CASE ~in
      BY <1>4, <3>2, <3>4
    <3> QED
      BY <3>3, <3>4
  <2>2. CASE h < height
    <3>1. h \in Nat /\ h + 1 \in Nat /\ h # height
      BY <1>1, <2>2
    <3>2. Step(f, h) = IF W(h + 1) = NULL THEN NULL ELSE heap[W(h + 1)][P(h) % FANOUT]
      BY <1>2, <1>5, <1>6, <2>2, <3>1
    <3>3. CASE in
      <4>1. n[h + 1][P(h + 2)] # NULL =>
                heap[n[h + 1][P(h + 2)]][P(h + 1) % FANOUT] = n[h][P(h + 1)]
        <5>1. P(h + 2) \in Nat /\ P(h + 1) % FANOUT \in Slots
              /\ P(h + 1) = P(h + 2) * FANOUT + (P(h + 1) % FANOUT)
          <6>1. (h + 1) + 1 = h + 2 /\ h + 2 \in Nat
            BY <3>1
          <6> QED
            BY <1>2, <3>1, <6>1
        <5> QED
          BY <3>1, <5>1 DEF Tree
      <4>2. n[h][P(h + 1)] # NULL => n[h + 1][P(h + 2)] # NULL
        <5>1. P(h + 1) \in Nat /\ P(h + 2) = P(h + 1) \div FANOUT
          <6>1. (h + 1) + 1 = h + 2
            BY <3>1
          <6> QED
            BY <1>2, <3>1, <6>1
        <5> QED
          BY <2>2, <3>1, <5>1 DEF Tree
      <4>3. W(h + 1) = IF n[h + 1][P(h + 2)] = NULL THEN NULL
                       ELSE heap[n[h + 1][P(h + 2)]][P(h + 1) % FANOUT]
        <5>1. (h + 1) + 1 = h + 2
          BY <3>1
        <5> QED
          BY <3>3, <5>1
      <4>4. W(h + 1) = n[h][P(h + 1)]
        BY <4>1, <4>2, <4>3
      <4> QED
        BY <3>2, <3>3, <4>4
    <3>4. CASE ~in
      BY <3>2, <3>4
    <3> QED
      BY <3>3, <3>4
  <2> QED
    BY <1>1, <2>1, <2>2
<1> HIDE DEF W
<1>7. word = [h \in 0 .. height |-> Step(word, h)]
  <2> DEFINE f == [h \in 0 .. height |-> W(h)]
  <2>1. f = [h \in 0 .. height |-> Step(f, h)]
    <3>1. ASSUME NEW h \in 0 .. height PROVE f[h] = Step(f, h)
      <4>1. h < height => f[h + 1] = W(h + 1)
        BY <1>1
      <4> HIDE DEF Step
      <4>2. Step(f, h) = W(h)
        BY <1>6, <4>1
      <4> QED
        BY <4>2
    <3> HIDE DEF Step
    <3> QED
      BY <3>1
  <2> HIDE DEF f
  <2> QED
    BY <2>1 DEF WordsRead
<1>8. \A h \in 0 .. height : word[h] = Step(word, h)
  <2> HIDE DEF Step, word
  <2> QED
    BY <1>7
<1> HIDE DEF Step, word
<1>9. \A h \in 0 .. height : word[h] = W(h)
  <2> DEFINE T == {m \in Nat : m <= height => word[height - m] = W(height - m)}
  <2>1. 0 \in T
    <3>1. height \in 0 .. height /\ height - 0 = height
      BY <1>1
    <3>2. Step(word, height) = W(height)
      BY <1>1, <1>6, <3>1
    <3> QED
      BY <1>8, <3>1, <3>2
  <2>2. ASSUME NEW m \in T PROVE m + 1 \in T
    <3>1. CASE m + 1 <= height
      <4> DEFINE h == height - (m + 1)
      <4>1. h \in 0 .. height /\ h + 1 = height - m /\ m <= height
        BY <1>1, <3>1
      <4> HIDE DEF h
      <4>2. word[h + 1] = W(h + 1)
        BY <4>1
      <4>3. word[h] = W(h)
        BY <1>6, <1>8, <4>1, <4>2
      <4> QED
        BY <4>3 DEF h
    <3> QED
      BY <3>1
  <2>3. T \in SUBSET Nat
    OBVIOUS
  <2> HIDE DEF T
  <2>4. T = Nat
    BY <2>1, <2>2, <2>3, Induction
  <2>5. ASSUME NEW h \in 0 .. height PROVE word[h] = W(h)
    <3>1. height - h \in T /\ height - h <= height /\ height - (height - h) = h
      BY <1>1, <2>4
    <3> QED
      BY <3>1 DEF T
  <2> QED
    BY <2>5
<1>10. Lookup(heap, root, height, offset) = W(0)
  <2>1. Lookup(heap, root, height, offset) = word[0]
    BY DEF Lookup, word, WordsRead
  <2> QED
    BY <1>1, <1>9, <2>1
<1>11. Content(heap, n, Piece(offset, 0)) = Entry(0)
  BY <1>2 DEF Content, P
<1>12. CASE in
  BY <1>10, <1>11, <1>12 DEF W
<1>13. CASE ~in
  <2> SUFFICES ASSUME n[0][P(1)] # NULL PROVE FALSE
    BY <1>10, <1>11, <1>13 DEF W
  <2> DEFINE T == {h \in Nat : h <= height => n[h][P(h + 1)] # NULL}
  <2>1. 0 \in T
    OBVIOUS
  <2>2. ASSUME NEW h \in T PROVE h + 1 \in T
    <3>0. h \in Nat /\ h + 1 \in Nat
      OBVIOUS
    <3>1. P(h + 1) \in Nat /\ P((h + 1) + 1) = P(h + 1) \div FANOUT
      BY <1>2, <3>0
    <3>2. CASE h + 1 <= height
      <4>1. n[h][P(h + 1)] # NULL /\ h < height
        BY <1>1, <3>2
      <4> QED
        BY <3>1, <4>1 DEF Tree
    <3> QED
      BY <3>2
  <2>3. T \in SUBSET Nat
    OBVIOUS
  <2> HIDE DEF T
  <2>4. height \in T
    BY <1>1, <2>1, <2>2, <2>3, Induction
  <2>5. n[height][P(height + 1)] # NULL
    BY <1>1, <2>4 DEF T
  <2>6. P(height + 1) = 0
    <3>1. height + 1 \in Nat
      BY <1>1
    <3>2. P(height + 1) \in Nat
      BY <1>2, <3>1
    <3> QED
      BY <1>1, <2>5, <3>2 DEF Tree
  <2>7. P(height) = P(height) % FANOUT
    <3>1. P(height) % FANOUT \in Nat /\ P(height) = 0 * FANOUT + (P(height) % FANOUT)
      <4>1. P(height) % FANOUT \in Slots
            /\ P(height) = P(height + 1) * FANOUT + (P(height) % FANOUT)
        BY <1>1, <1>2
      <4> QED
        BY <1>1, <2>6, <4>1 DEF Slots
    <3> QED
      BY <1>1, <3>1
  <2>8. P(height) \in Slots
    BY <1>1, <1>2, <2>7
  <2> QED
    BY <1>4, <1>5, <1>13, <2>8
<1> QED
  BY <1>12, <1>13

(* The nodes are tables in use, each at one place. *)
LEMMA NodeFacts ==
    ASSUME NEW heap, NEW n, NEW root, NEW height, NEW ok, HeapOK(heap),
           Tree(heap, n, root, height, ok)
    PROVE  /\ Nodes(n) \subseteq DOMAIN heap
           /\ \A h, i \in Nat : n[h][i] # NULL => n[h][i] \in Nodes(n) /\ n[h][i] \in Addresses
           /\ \A a \in Nodes(n) : a # NULL
BY WordsDiffer DEF HeapOK, Tree, Nodes

SameChunks(heap, n, heap2, n2) ==
    \A c \in Nat : Content(heap2, n2, c) = Content(heap, n, c)

(* What happens to other tables does not concern a tree. *)
LEMMA TreeFrame ==
    ASSUME NEW heap, NEW n, NEW root, NEW height, NEW ok, HeapOK(heap),
           Tree(heap, n, root, height, ok),
           NEW new, NEW more, \A a \in Nodes(n) : a \in DOMAIN new /\ new[a] = heap[a],
           ok \subseteq more
    PROVE  Tree(new, n, root, height, more) /\ SameChunks(heap, n, new, n)
<1>1. \A h, i \in Nat : n[h][i] # NULL => new[n[h][i]] = heap[n[h][i]] /\ n[h][i] \in DOMAIN new
  BY NodeFacts
<1>2. n \in [Nat -> [Nat -> {NULL} \cup DOMAIN new]]
  BY <1>1 DEF Tree
<1>3. \A h, i \in Nat : n[h + 1][i] # NULL =>
          \A s \in Slots : new[n[h + 1][i]][s] = n[h][i * FANOUT + s]
  <2>1. \A h \in Nat : h + 1 \in Nat
    OBVIOUS
  <2> QED
    BY <1>1, <2>1 DEF Tree
<1>4. \A i \in Nat : n[0][i] # NULL =>
          \A s \in Slots : new[n[0][i]][s] # NULL => <<new[n[0][i]][s], i * FANOUT + s>> \in more
  BY <1>1 DEF Tree
<1>5. Tree(new, n, root, height, more)
  BY <1>2, <1>3, <1>4 DEF Tree
<1>6. \A c \in Nat : c \div FANOUT \in Nat
  BY FanoutAssumption, Divide
<1>7. \A c \in Nat : Content(new, n, c) = Content(heap, n, c)
  BY <1>1, <1>6 DEF Content
<1> QED
  BY <1>5, <1>7 DEF SameChunks

-----------------------------------------------------------------------------
(* The tables at each height *)

NodesAt(n, h) == {a \in Addresses : \E i \in Nat : n[h][i] = a}

Levels(heap, root, height) ==
    CHOOSE level : level = [h \in 0 .. height |->
        IF h = height THEN {root} \ {NULL}
        ELSE (UNION {Range(heap[a]) : a \in level[h + 1]}) \ {NULL}]

(* The words of the tables at one height are the tables one height below.  *)
LEMMA NextLevel ==
    ASSUME NEW heap, NEW n, NEW root, NEW height, NEW ok, HeapOK(heap),
           Tree(heap, n, root, height, ok), NEW h \in Nat, h < height
    PROVE  (UNION {Range(heap[a]) : a \in NodesAt(n, h + 1)}) \ {NULL} = NodesAt(n, h)
<1>1. ASSUME NEW a \in NodesAt(n, h + 1), NEW s \in Slots, heap[a][s] # NULL
      PROVE  heap[a][s] \in NodesAt(n, h)
  <2>1. PICK i \in Nat : n[h + 1][i] = a
    BY DEF NodesAt
  <2>2. a # NULL
    BY WordsDiffer DEF NodesAt
  <2>3. heap[a][s] = n[h][i * FANOUT + s] /\ i * FANOUT + s \in Nat
    <3>1. n[h + 1][i] # NULL
      BY <2>1, <2>2
    <3>2. heap[n[h + 1][i]][s] = n[h][i * FANOUT + s]
      BY <3>1 DEF Tree
    <3> QED
      BY <2>1, <3>2, SlotOfPiece
  <2> QED
    BY <1>1, <2>3, NodeFacts DEF NodesAt
<1>2. ASSUME NEW b \in NodesAt(n, h)
      PROVE  \E a \in NodesAt(n, h + 1), s \in Slots : heap[a][s] = b
  <2>1. PICK i \in Nat : n[h][i] = b
    BY DEF NodesAt
  <2>2. b # NULL /\ i \div FANOUT \in Nat /\ i % FANOUT \in Slots
        /\ (i \div FANOUT) * FANOUT + (i % FANOUT) = i
    BY WordsDiffer, SlotOfPiece DEF NodesAt
  <2>3. n[h + 1][i \div FANOUT] # NULL
    BY <2>1, <2>2 DEF Tree
  <2>4. heap[n[h + 1][i \div FANOUT]][i % FANOUT] = b
    BY <2>1, <2>2, <2>3 DEF Tree
  <2>5. n[h + 1][i \div FANOUT] \in NodesAt(n, h + 1)
    BY <2>2, <2>3, NodeFacts DEF NodesAt
  <2> QED
    BY <2>2, <2>4, <2>5
<1>3. \A a \in NodesAt(n, h + 1) : Range(heap[a]) = {heap[a][s] : s \in Slots}
  <2>1. \A a \in NodesAt(n, h + 1) : a \in DOMAIN heap
    BY NodeFacts, WordsDiffer DEF NodesAt, Nodes
  <2> QED
    BY <2>1 DEF Range, HeapOK
<1>4. \A b \in NodesAt(n, h) : b # NULL
  BY WordsDiffer DEF NodesAt
<1> DEFINE words == UNION {Range(heap[a]) : a \in NodesAt(n, h + 1)}
<1>5. ASSUME NEW b \in words, b # NULL PROVE b \in NodesAt(n, h)
  <2>1. PICK a \in NodesAt(n, h + 1) : b \in Range(heap[a])
    OBVIOUS
  <2>2. PICK s \in Slots : b = heap[a][s]
    BY <1>3, <2>1
  <2> QED
    BY <1>1, <1>5, <2>2
<1>6. ASSUME NEW b \in NodesAt(n, h) PROVE b \in words
  <2>1. PICK a \in NodesAt(n, h + 1), s \in Slots : heap[a][s] = b
    BY <1>2
  <2>2. b \in Range(heap[a])
    BY <1>3, <2>1
  <2> QED
    BY <2>2
<1> HIDE DEF words
<1>7. words \ {NULL} = NodesAt(n, h)
  BY <1>4, <1>5, <1>6
<1> QED
  BY <1>7 DEF words

(* Level gives the nodes at each height. *)
LEMMA LevelIs ==
    ASSUME NEW heap, NEW n, NEW root, NEW height, NEW ok, HeapOK(heap),
           Tree(heap, n, root, height, ok)
    PROVE  \A h \in 0 .. height : Level(heap, root, height)[h] = NodesAt(n, h)
<1> DEFINE Below(level, h) == IF h = height THEN {root} \ {NULL}
                              ELSE (UNION {Range(heap[a]) : a \in level[h + 1]}) \ {NULL}
           level == Levels(heap, root, height)
<1>1. height \in Nat
  BY DEF Tree
<1>2. ASSUME NEW h \in 0 .. height, NEW f, h < height => f[h + 1] = NodesAt(n, h + 1)
      PROVE  Below(f, h) = NodesAt(n, h)
  <2>1. CASE h = height
    <3>1. n[height][0] = root /\ \A i \in Nat : i # 0 => n[height][i] = NULL
      BY <1>1 DEF Tree
    <3>2. root # NULL => root \in Addresses
      BY <1>1, <3>1, NodeFacts
    <3> QED
      BY <2>1, <3>1, <3>2, WordsDiffer DEF NodesAt
  <2>2. CASE h < height
    <3>1. h \in Nat /\ h # height
      BY <1>1, <2>2
    <3> QED
      BY <1>2, <2>2, <3>1, NextLevel
  <2> QED
    BY <1>1, <2>1, <2>2
<1>3. level = [h \in 0 .. height |-> Below(level, h)]
  <2> DEFINE f == [h \in 0 .. height |-> NodesAt(n, h)]
  <2>1. f = [h \in 0 .. height |-> Below(f, h)]
    <3>1. ASSUME NEW h \in 0 .. height PROVE f[h] = Below(f, h)
      <4>1. h < height => f[h + 1] = NodesAt(n, h + 1)
        BY <1>1
      <4> HIDE DEF Below
      <4>2. Below(f, h) = NodesAt(n, h)
        BY <1>2, <4>1
      <4> QED
        BY <4>2
    <3> HIDE DEF Below
    <3> QED
      BY <3>1
  <2> HIDE DEF f
  <2> QED
    BY <2>1 DEF Levels
<1>4. \A h \in 0 .. height : level[h] = Below(level, h)
  <2> HIDE DEF Below, level
  <2> QED
    BY <1>3
<1> HIDE DEF Below, level
<1> DEFINE T == {m \in Nat : m <= height => level[height - m] = NodesAt(n, height - m)}
<1>5. 0 \in T
  <2>1. height \in 0 .. height /\ height - 0 = height
    BY <1>1
  <2>2. Below(level, height) = NodesAt(n, height)
    BY <1>1, <1>2, <2>1
  <2> QED
    BY <1>4, <2>1, <2>2
<1>6. ASSUME NEW m \in T PROVE m + 1 \in T
  <2>1. CASE m + 1 <= height
    <3> DEFINE h == height - (m + 1)
    <3>1. h \in 0 .. height /\ h + 1 = height - m /\ m <= height
      BY <1>1, <2>1
    <3> HIDE DEF h
    <3>2. level[h + 1] = NodesAt(n, h + 1)
      BY <3>1
    <3>3. level[h] = NodesAt(n, h)
      BY <1>2, <1>4, <3>1, <3>2
    <3> QED
      BY <3>3 DEF h
  <2> QED
    BY <2>1
<1>7. T \in SUBSET Nat
  OBVIOUS
<1> HIDE DEF T
<1>8. T = Nat
  BY <1>5, <1>6, <1>7, Induction
<1>9. Level(heap, root, height) = level
  BY DEF Level, level, Levels
<1>10. ASSUME NEW h \in 0 .. height PROVE level[h] = NodesAt(n, h)
  <2>1. height - h \in T /\ height - h <= height /\ height - (height - h) = h
    BY <1>1, <1>8
  <2> QED
    BY <2>1 DEF T
<1> QED
  BY <1>9, <1>10

(* The tables of a tree are its nodes. *)
LEMMA TablesAreNodes ==
    ASSUME NEW heap, NEW n, NEW root, NEW height, NEW ok, HeapOK(heap),
           Tree(heap, n, root, height, ok)
    PROVE  TablesOf(heap, root, height) = Nodes(n)
<1>1. height \in Nat /\ \A h, i \in Nat : h > height => n[h][i] = NULL
  BY DEF Tree
<1>2. TablesOf(heap, root, height) = UNION {NodesAt(n, h) : h \in 0 .. height}
  <2>1. \A h \in 0 .. height : Level(heap, root, height)[h] = NodesAt(n, h)
    BY LevelIs
  <2> QED
    BY <2>1 DEF TablesOf
<1>3. ASSUME NEW a \in Nodes(n) PROVE \E h \in 0 .. height : a \in NodesAt(n, h)
  <2>1. PICK h \in Nat, i \in Nat : n[h][i] = a /\ a # NULL /\ a \in Addresses
    BY NodeFacts DEF Nodes
  <2>2. h \in 0 .. height
    BY <1>1, <2>1
  <2> QED
    BY <2>1, <2>2 DEF NodesAt
<1>4. \A h \in 0 .. height : NodesAt(n, h) \subseteq Nodes(n)
  BY <1>1 DEF NodesAt, Nodes
<1> QED
  BY <1>2, <1>3, <1>4

(* What is left of the heap when a file is closed: all tables but those of *)
(* the tree, and its leaves if the tree is higher than 0.                  *)
LEMMA FreedTables ==
    ASSUME NEW heap, NEW n, NEW root, NEW height, NEW ok, HeapOK(heap),
           Tree(heap, n, root, height, ok)
    PROVE  LET new == free_file(heap, root, height) IN
           /\ HeapOK(new)
           /\ DOMAIN new \subseteq DOMAIN heap /\ DOMAIN heap \ DOMAIN new \subseteq Nodes(n)
           /\ DOMAIN new \cap Nodes(n) \subseteq NodesAt(n, 0)
           /\ \A a \in DOMAIN new : new[a] = heap[a]
<1> DEFINE freed == IF height = 0 THEN {root}
                    ELSE UNION {NodesAt(n, h) : h \in 1 .. height}
           new == [a \in DOMAIN heap \ freed |-> heap[a]]
<1>1. height \in Nat /\ n[height][0] = root
      /\ \A h, i \in Nat : h > height \/ (h = height /\ i # 0) => n[h][i] = NULL
  BY DEF Tree
<1>2. free_file(heap, root, height) = new
  <2>1. height # 0 => \A h \in 1 .. height : Level(heap, root, height)[h] = NodesAt(n, h)
    BY <1>1, LevelIs
  <2>2. height # 0 => UNION {Level(heap, root, height)[h] : h \in 1 .. height}
                          = UNION {NodesAt(n, h) : h \in 1 .. height}
    BY <2>1
  <2> QED
    BY <2>2 DEF free_file
<1>3. HeapOK(new)
  <2>1. IsFiniteSet(DOMAIN heap \ freed)
    BY FS_Subset DEF HeapOK
  <2> HIDE DEF freed
  <2> QED
    BY <2>1 DEF HeapOK
<1>4. DOMAIN heap \ DOMAIN new \subseteq Nodes(n)
  <2>1. root # NULL => root \in Nodes(n)
    BY <1>1, NodeFacts
  <2>2. NULL \notin DOMAIN heap
    BY WordsDiffer DEF HeapOK
  <2>3. \A h \in 1 .. height : NodesAt(n, h) \subseteq Nodes(n)
    BY <1>1 DEF NodesAt, Nodes
  <2> QED
    BY <2>1, <2>2, <2>3
<1>5. ASSUME NEW a \in DOMAIN new, a \in Nodes(n) PROVE a \in NodesAt(n, 0)
  <2>1. PICK h \in Nat, i \in Nat : n[h][i] = a /\ a # NULL /\ a \in Addresses
    BY <1>5, NodeFacts DEF Nodes
  <2>2. a \notin freed
    OBVIOUS
  <2>3. CASE height = 0
    <3>1. h = 0 /\ i = 0
      BY <1>1, <2>1, <2>3
    <3> QED
      BY <1>1, <2>1, <2>2, <2>3, <3>1
  <2>4. CASE height # 0
    <3>1. h \notin 1 .. height
      BY <2>1, <2>2, <2>4 DEF NodesAt
    <3>2. ~(h > height)
      BY <1>1, <2>1
    <3>3. h = 0
      BY <1>1, <3>1, <3>2
    <3> QED
      BY <2>1, <3>3 DEF NodesAt
  <2> QED
    BY <2>3, <2>4
<1>6. DOMAIN new \subseteq DOMAIN heap /\ \A a \in DOMAIN new : new[a] = heap[a]
  OBVIOUS
<1> HIDE DEF new
<1> QED
  BY <1>2, <1>3, <1>4, <1>5, <1>6

-----------------------------------------------------------------------------
(* Growth *)

(* What adding to a tree leaves alone: every table that is not a node of   *)
(* it.  The tables that are added are nodes of the new tree.               *)
Extends(heap, n, heap2, n2) ==
    /\ DOMAIN heap \subseteq DOMAIN heap2
    /\ \A a \in DOMAIN heap \ Nodes(n) : heap2[a] = heap[a]
    /\ Nodes(n2) = Nodes(n) \cup (DOMAIN heap2 \ DOMAIN heap)

AddsChunk(heap, n, heap2, n2, c, w) ==
    \A d \in Nat : Content(heap2, n2, d) = IF d = c THEN w ELSE Content(heap, n, d)

(* A tree that is added to twice has been added to. *)
LEMMA ExtendsTwice ==
    ASSUME NEW heap, NEW n, NEW heap2, NEW n2, NEW heap3, NEW n3,
           Extends(heap, n, heap2, n2), Extends(heap2, n2, heap3, n3)
    PROVE  Extends(heap, n, heap3, n3)
BY DEF Extends

Raised(heap, new, root) == [WithTable(heap, new) EXCEPT ![new][0] = root]

(* A new root above the old one: its first word is the old tree, the rest  *)
(* is empty, and every chunk is found where it was.                        *)
LEMMA GrowStep ==
    ASSUME NEW heap, NEW n, NEW root, NEW height, NEW ok, HeapOK(heap),
           Tree(heap, n, root, height, ok), root # NULL
    PROVE  \E n2 : /\ HeapOK(Raised(heap, Fresh(heap), root))
                   /\ Tree(Raised(heap, Fresh(heap), root), n2, Fresh(heap), height + 1, ok)
                   /\ Fresh(heap) # NULL
                   /\ Extends(heap, n, Raised(heap, Fresh(heap), root), n2)
                   /\ \A c \in Nat : Content(Raised(heap, Fresh(heap), root), n2, c)
                                         = Content(heap, n, c)
<1> DEFINE new == Fresh(heap)
           heap2 == Raised(heap, new, root)
           top == [i \in Nat |-> IF i = 0 THEN new ELSE NULL]
           n2 == [n EXCEPT ![height + 1] = top]
<1>1. height \in Nat /\ height + 1 \in Nat /\ height + 1 # 0 /\ 0 \in Slots
  BY FanoutAssumption DEF Tree, Slots
<1>2. new \in Addresses /\ new \notin DOMAIN heap /\ new # NULL
  BY FreshIsNew, WordsDiffer
<1>3. root \in DOMAIN heap /\ root \in Words
  <2>1. n[height][0] = root
    BY DEF Tree
  <2> QED
    BY <1>1, <2>1, NodeFacts, WordsDiffer
<1>4. /\ HeapOK(heap2) /\ DOMAIN heap2 = DOMAIN heap \cup {new}
      /\ heap2[new][0] = root /\ \A s \in Slots \ {0} : heap2[new][s] = NULL
      /\ \A a \in DOMAIN heap : heap2[a] = heap[a]
  <2> DEFINE with == WithTable(heap, new)
  <2>1. HeapOK(with) /\ DOMAIN with = DOMAIN heap \cup {new} /\ with[new] = EmptyTable
        /\ \A a \in DOMAIN heap : with[a] = heap[a]
    BY <1>2, AddedTable
  <2> HIDE DEF with
  <2>2. LET w == [with EXCEPT ![new][0] = root] IN
        /\ HeapOK(w) /\ DOMAIN w = DOMAIN with /\ w[new][0] = root
        /\ \A s \in Slots \ {0} : w[new][s] = with[new][s]
        /\ \A a \in DOMAIN with \ {new} : w[a] = with[a]
    <3>1. new \in DOMAIN with /\ 0 \in Slots /\ root \in Words /\ HeapOK(with)
      BY <1>1, <1>3, <2>1
    <3> QED
      BY <3>1, WrittenWord
  <2>3. heap2 = [with EXCEPT ![new][0] = root]
    BY DEF with, Raised
  <2> HIDE DEF heap2
  <2> QED
    BY <1>2, <2>1, <2>2, <2>3 DEF EmptyTable
<1> HIDE DEF new, heap2
<1>5. /\ n2 \in [Nat -> [Nat -> {NULL} \cup DOMAIN heap2]]
      /\ n2[height + 1] = top /\ \A h \in Nat : h # height + 1 => n2[h] = n[h]
  BY <1>1, <1>4 DEF Tree
<1>6. \A i \in Nat : top[i] = IF i = 0 THEN new ELSE NULL
  OBVIOUS
<1> HIDE DEF n2, top
<1>7. \A h, i \in Nat : h > height + 1 \/ (h = height + 1 /\ i # 0) => n2[h][i] = NULL
  <2>1. \A h, i \in Nat : h > height + 1 => n[h][i] = NULL
    BY <1>1 DEF Tree
  <2> QED
    BY <1>1, <1>5, <1>6, <2>1
<1>8. ASSUME NEW h \in Nat, NEW i \in Nat, n2[h + 1][i] # NULL, NEW s \in Slots
      PROVE  heap2[n2[h + 1][i]][s] = n2[h][i * FANOUT + s]
  <2>0. h + 1 \in Nat /\ i * FANOUT + s \in Nat /\ s \in Nat
    BY SlotOfPiece, FanoutAssumption DEF Slots
  <2>1. CASE h = height
    <3>1. i = 0 /\ n2[h + 1][i] = new
      BY <1>5, <1>6, <1>8, <2>1
    <3>2. n2[h][i * FANOUT + s] = n[height][s]
      BY <1>1, <1>5, <2>0, <2>1, <3>1, FanoutAssumption
    <3>3. n[height][s] = IF s = 0 THEN root ELSE NULL
      BY <1>1, <2>0 DEF Tree
    <3> QED
      BY <1>4, <3>1, <3>2, <3>3
  <2>2. CASE h # height
    <3>1. n2[h + 1] = n[h + 1] /\ h + 1 # height + 1
      BY <1>1, <1>5, <2>0, <2>2
    <3>2. h < height
      <4>1. ~(h + 1 > height)
        BY <1>8, <2>0, <3>1 DEF Tree
      <4> QED
        BY <1>1, <4>1
    <3>3. n2[h] = n[h]
      BY <1>1, <1>5, <3>2
    <3>4. heap[n[h + 1][i]][s] = n[h][i * FANOUT + s]
      BY <1>8, <3>1 DEF Tree
    <3>5. n[h + 1][i] \in DOMAIN heap
      BY <1>8, <2>0, <3>1, NodeFacts
    <3> QED
      BY <1>4, <3>1, <3>3, <3>4, <3>5
  <2> QED
    BY <2>1, <2>2
<1>9. ASSUME NEW h \in Nat, NEW i \in Nat, n2[h][i] # NULL, h < height + 1
      PROVE  n2[h + 1][i \div FANOUT] # NULL
  <2>0. i \div FANOUT \in Nat /\ h + 1 \in Nat
    BY FanoutAssumption, Divide
  <2>1. n2[h] = n[h]
    BY <1>1, <1>5, <1>9
  <2>2. CASE h = height
    <3>1. i = 0
      BY <1>9, <2>1, <2>2 DEF Tree
    <3>2. i \div FANOUT = 0
      BY <3>1, FanoutAssumption
    <3> QED
      BY <1>2, <1>5, <1>6, <2>2, <3>2
  <2>3. CASE h # height
    <3>1. h < height /\ h + 1 # height + 1
      BY <1>1, <1>9, <2>3
    <3>2. n[h + 1][i \div FANOUT] # NULL
      BY <1>9, <2>1, <3>1 DEF Tree
    <3> QED
      BY <1>5, <2>0, <3>1, <3>2
  <2> QED
    BY <2>2, <2>3
<1>10. n2[0] = n[0]
  BY <1>1, <1>5
<1>11. \A i \in Nat : n2[0][i] # NULL =>
           \A s \in Slots : heap2[n2[0][i]][s] # NULL => <<heap2[n2[0][i]][s], i * FANOUT + s>> \in ok
  <2>1. \A i \in Nat : n[0][i] # NULL => n[0][i] \in DOMAIN heap
    BY NodeFacts
  <2> QED
    BY <1>4, <1>10, <2>1 DEF Tree
<1>12. ASSUME NEW h \in Nat, NEW i \in Nat, n2[h][i] # NULL
       PROVE  \/ h = height + 1 /\ i = 0 /\ n2[h][i] = new
              \/ h # height + 1 /\ n2[h][i] = n[h][i] /\ n[h][i] \in DOMAIN heap
  BY <1>5, <1>6, <1>12, NodeFacts
<1>13. \A h, i, k, j \in Nat : n2[h][i] # NULL /\ n2[h][i] = n2[k][j] => h = k /\ i = j
  <2> SUFFICES ASSUME NEW h \in Nat, NEW i \in Nat, NEW k \in Nat, NEW j \in Nat,
                      n2[h][i] # NULL, n2[h][i] = n2[k][j]
               PROVE  h = k /\ i = j
    OBVIOUS
  <2>0. /\ \/ h = height + 1 /\ i = 0 /\ n2[h][i] = new
           \/ h # height + 1 /\ n2[h][i] = n[h][i] /\ n[h][i] \in DOMAIN heap
        /\ \/ k = height + 1 /\ j = 0 /\ n2[k][j] = new
           \/ k # height + 1 /\ n2[k][j] = n[k][j] /\ n[k][j] \in DOMAIN heap
    <3>1. n2[k][j] # NULL
      OBVIOUS
    <3> QED
      BY <1>12, <3>1
  <2>1. CASE n2[h][i] = new
    BY <1>2, <2>0, <2>1
  <2>2. CASE n2[h][i] # new
    <3>1. n[h][i] = n[k][j] /\ n[h][i] # NULL
      BY <2>0, <2>2
    <3> QED
      BY <3>1 DEF Tree
  <2> QED
    BY <2>1, <2>2
<1>14. Tree(heap2, n2, new, height + 1, ok)
  BY <1>1, <1>5, <1>6, <1>7, <1>8, <1>9, <1>11, <1>13 DEF Tree
<1>15. Nodes(n2) = Nodes(n) \cup {new}
  <2>1. Nodes(n2) \subseteq Nodes(n) \cup {new}
    BY <1>12, WordsDiffer DEF Nodes
  <2>2. new \in Nodes(n2)
    BY <1>1, <1>2, <1>5, <1>6 DEF Nodes
  <2>3. ASSUME NEW a \in Nodes(n) PROVE a \in Nodes(n2)
    <3>1. PICK h \in Nat, i \in Nat : n[h][i] = a /\ a # NULL /\ a \in Addresses
      BY NodeFacts DEF Nodes
    <3>2. h # height + 1
      BY <1>1, <3>1 DEF Tree
    <3>3. n2[h][i] = a
      BY <1>5, <3>1, <3>2
    <3> QED
      BY <3>1, <3>3 DEF Nodes
  <2> QED
    BY <2>1, <2>2, <2>3
<1>16. Extends(heap, n, heap2, n2)
  BY <1>2, <1>4, <1>15 DEF Extends
<1>17. \A c \in Nat : Content(heap2, n2, c) = Content(heap, n, c)
  <2>1. \A c \in Nat : c \div FANOUT \in Nat
    BY FanoutAssumption, Divide
  <2>2. \A i \in Nat : n[0][i] # NULL => heap2[n[0][i]] = heap[n[0][i]]
    BY <1>4, NodeFacts
  <2> QED
    BY <1>10, <2>1, <2>2 DEF Content
<1> QED
  BY <1>2, <1>4, <1>14, <1>16, <1>17 DEF heap2, new

TreesGrown(heap, root, height, newHeight) ==
    CHOOSE tree : tree = [h \in height .. newHeight |->
        IF h = height THEN [heap |-> heap, root |-> root]
        ELSE LET old == tree[h - 1]
                 new == Fresh(old.heap)
             IN  [heap |-> [WithTable(old.heap, new) EXCEPT ![new][0] = old.root],
                  root |-> new]]

(* The growth makes a tree of the new height with the same chunks. *)
LEMMA GrowIs ==
    ASSUME NEW heap, NEW n, NEW root, NEW height, NEW ok, HeapOK(heap),
           Tree(heap, n, root, height, ok), root # NULL, NEW newHeight \in Nat, height <= newHeight
    PROVE  LET g == Grow(heap, root, height, newHeight) IN
           \E n2 : /\ HeapOK(g.heap) /\ Tree(g.heap, n2, g.root, newHeight, ok) /\ g.root # NULL
                   /\ Extends(heap, n, g.heap, n2)
                   /\ \A c \in Nat : Content(g.heap, n2, c) = Content(heap, n, c)
<1> DEFINE Add(old) == LET new == Fresh(old.heap)
                       IN  [heap |-> [WithTable(old.heap, new) EXCEPT ![new][0] = old.root],
                            root |-> new]
           Rec(f, h) == IF h = height THEN [heap |-> heap, root |-> root] ELSE Add(f[h - 1])
           Good(h, g) ==
               \E n2 : /\ HeapOK(g.heap) /\ Tree(g.heap, n2, g.root, h, ok) /\ g.root # NULL
                       /\ Extends(heap, n, g.heap, n2)
                       /\ \A c \in Nat : Content(g.heap, n2, c) = Content(heap, n, c)
           grown == TreesGrown(heap, root, height, newHeight)
<1>1. height \in Nat
  BY DEF Tree
<1>2. grown = [h \in height .. newHeight |-> Rec(grown, h)]
  <2> DEFINE Fits(m, f) == f = [h \in height .. height + m |-> Rec(f, h)]
             T == {m \in Nat : \E f : Fits(m, f)}
  <2>1. 0 \in T
    <3> DEFINE f0 == [h \in height .. height |-> [heap |-> heap, root |-> root]]
    <3>1. height + 0 = height /\ \A h \in height .. height : h = height
      BY <1>1
    <3>2. \A h \in height .. height : f0[h] = Rec(f0, h)
      BY <3>1
    <3>3. Fits(0, f0)
      BY <3>1, <3>2
    <3> HIDE DEF Fits, f0
    <3> QED
      BY <3>3
  <2>2. ASSUME NEW m \in T PROVE m + 1 \in T
    <3>1. PICK f : Fits(m, f)
      OBVIOUS
    <3> DEFINE top == height + (m + 1)
               g == [h \in height .. top |-> IF h = top THEN Add(f[h - 1]) ELSE f[h]]
    <3>2. /\ m \in Nat /\ top \in height .. top /\ top # height /\ top - 1 = height + m
          /\ \A h \in height .. top : h # top => h \in height .. height + m
          /\ \A h \in height .. top : h # height => h - 1 \in height .. height + m /\ h - 1 # top
      BY <1>1
    <3> HIDE DEF Add, top
    <3>3. \A h \in height .. height + m : f[h] = Rec(f, h)
      BY <3>1
    <3>4. \A h \in height .. height + m : h # top => g[h] = f[h]
      <4>1. \A h \in height .. height + m : h \in height .. top
        BY <1>1, <3>2 DEF top
      <4> QED
        BY <4>1
    <3>5. ASSUME NEW h \in height .. top PROVE g[h] = Rec(g, h)
      <4>1. CASE h = top
        <5>1. h - 1 \in height .. height + m /\ h - 1 # top
          BY <1>1, <3>2, <4>1 DEF top
        <5>2. g[h] = Add(f[h - 1]) /\ g[h - 1] = f[h - 1] /\ h # height
          BY <3>2, <3>4, <4>1, <5>1
        <5> QED
          BY <5>2
      <4>2. CASE h # top
        <5>1. g[h] = f[h] /\ f[h] = Rec(f, h)
          BY <3>2, <3>3, <4>2
        <5>2. CASE h = height
          BY <5>1, <5>2
        <5>3. CASE h # height
          <6>1. h - 1 \in height .. height + m /\ h - 1 # top
            BY <1>1, <3>2, <4>2, <5>3 DEF top
          <6>2. g[h - 1] = f[h - 1]
            BY <3>4, <6>1
          <6> QED
            BY <5>1, <5>3, <6>2
        <5> QED
          BY <5>2, <5>3
      <4> QED
        BY <4>1, <4>2
    <3>6. Fits(m + 1, g)
      <4>1. g = [h \in height .. top |-> g[h]]
        OBVIOUS
      <4> HIDE DEF g, Rec
      <4>2. g = [h \in height .. top |-> Rec(g, h)]
        BY <3>5, <4>1
      <4> QED
        BY <4>2 DEF top
    <3> HIDE DEF Fits, g
    <3> QED
      BY <3>2, <3>6
  <2>3. T \in SUBSET Nat
    OBVIOUS
  <2> HIDE DEF T
  <2>4. newHeight - height \in T
    BY <1>1, <2>1, <2>2, <2>3, Induction
  <2>5. height + (newHeight - height) = newHeight
    BY <1>1
  <2>6. \E f : f = [h \in height .. newHeight |-> Rec(f, h)]
    <3> HIDE DEF Fits
    <3>1. PICK f : Fits(newHeight - height, f)
      BY <2>4 DEF T
    <3> HIDE DEF Rec
    <3>2. f = [h \in height .. newHeight |-> Rec(f, h)]
      BY <2>5, <3>1 DEF Fits
    <3> QED
      BY <3>2
  <2> QED
    BY <2>6 DEF TreesGrown
<1>3. \A h \in height .. newHeight : grown[h] = Rec(grown, h)
  <2> HIDE DEF Rec, grown
  <2> QED
    BY <1>2
<1> HIDE DEF grown
<1> DEFINE T == {m \in Nat : height + m <= newHeight => Good(height + m, grown[height + m])}
<1>4. 0 \in T
  <2>1. height + 0 = height /\ height \in height .. newHeight
    BY <1>1
  <2>2. grown[height] = [heap |-> heap, root |-> root]
    BY <1>3, <2>1
  <2>3. Extends(heap, n, heap, n)
    BY DEF Extends
  <2>4. Good(height, [heap |-> heap, root |-> root])
    BY <2>3
  <2> HIDE DEF Good
  <2> QED
    BY <2>1, <2>2, <2>4
<1>5. ASSUME NEW m \in T PROVE m + 1 \in T
  <2> SUFFICES ASSUME height + (m + 1) <= newHeight
               PROVE  Good(height + (m + 1), grown[height + (m + 1)])
    OBVIOUS
  <2> DEFINE h == height + (m + 1)
             old == grown[height + m]
             new == grown[h]
  <2>1. m \in Nat /\ height + m <= newHeight /\ h - 1 = height + m /\ h \in height .. newHeight
        /\ h # height /\ (height + m) + 1 = h
    BY <1>1
  <2>2. new = Add(old)
    BY <1>3, <2>1
  <2>3. Good(height + m, old)
    BY <2>1
  <2> HIDE DEF T, h, old, new
  <2>4. PICK n2 : /\ HeapOK(old.heap) /\ Tree(old.heap, n2, old.root, height + m, ok)
                  /\ old.root # NULL /\ Extends(heap, n, old.heap, n2)
                  /\ \A c \in Nat : Content(old.heap, n2, c) = Content(heap, n, c)
    BY <2>3
  <2>5. PICK n3 : /\ HeapOK(new.heap) /\ Tree(new.heap, n3, new.root, (height + m) + 1, ok)
                  /\ new.root # NULL /\ Extends(old.heap, n2, new.heap, n3)
                  /\ \A c \in Nat : Content(new.heap, n3, c) = Content(old.heap, n2, c)
    <3> DEFINE hp == old.heap
               rt == old.root
               next == Fresh(hp)
               hp2 == Raised(hp, next, rt)
    <3>1. new.root = next /\ new.heap = hp2
      BY <2>2 DEF Raised
    <3>2. HeapOK(old.heap) /\ Tree(old.heap, n2, old.root, height + m, ok) /\ old.root # NULL
      BY <2>4
    <3>3. \E n3 : /\ HeapOK(hp2) /\ Tree(hp2, n3, next, (height + m) + 1, ok) /\ next # NULL
                  /\ Extends(hp, n2, hp2, n3)
                  /\ \A c \in Nat : Content(hp2, n3, c) = Content(hp, n2, c)
      <4> DEFINE ht == height + m
      <4>1. HeapOK(hp) /\ Tree(hp, n2, rt, ht, ok) /\ rt # NULL
        BY <3>2
      <4> HIDE DEF hp, rt, ht
      <4>2. \E n3 : /\ HeapOK(hp2) /\ Tree(hp2, n3, next, ht + 1, ok) /\ next # NULL
                    /\ Extends(hp, n2, hp2, n3)
                    /\ \A c \in Nat : Content(hp2, n3, c) = Content(hp, n2, c)
        BY <4>1, GrowStep
      <4> QED
        BY <4>2 DEF ht
    <3> HIDE DEF hp2, next
    <3> QED
      BY <3>1, <3>3
  <2>6. Extends(heap, n, new.heap, n3)
    BY <2>4, <2>5, ExtendsTwice
  <2>7. Good(h, new)
    BY <2>1, <2>4, <2>5, <2>6
  <2> QED
    BY <2>7 DEF h, new
<1>6. T \in SUBSET Nat
  OBVIOUS
<1> HIDE DEF T
<1>7. newHeight - height \in T /\ height + (newHeight - height) = newHeight
  BY <1>1, <1>4, <1>5, <1>6, Induction
<1>8. Good(newHeight, grown[newHeight])
  <2>1. newHeight <= newHeight
    OBVIOUS
  <2> HIDE DEF Good
  <2> QED
    BY <1>7, <2>1 DEF T
<1>9. Grow(heap, root, height, newHeight) = grown[newHeight]
  BY DEF Grow, grown, TreesGrown
<1> QED
  BY <1>8, <1>9

-----------------------------------------------------------------------------
(* Insertion *)

Linked(heap, new, parent, slot) == [WithTable(heap, new) EXCEPT ![parent][slot] = new]

(* A table that is missing below a node, added in its slot. *)
LEMMA InsertStep ==
    ASSUME NEW heap, NEW n, NEW root, NEW height, NEW ok, HeapOK(heap),
           Tree(heap, n, root, height, ok), NEW h \in Nat, h < height, NEW i \in Nat,
           n[h + 1][i \div FANOUT] # NULL, n[h][i] = NULL
    PROVE  LET heap2 == Linked(heap, Fresh(heap), n[h + 1][i \div FANOUT], i % FANOUT) IN
           \E n2 : /\ HeapOK(heap2) /\ Tree(heap2, n2, root, height, ok)
                   /\ n2[h][i] = Fresh(heap) /\ Fresh(heap) # NULL
                   /\ Extends(heap, n, heap2, n2)
                   /\ \A c \in Nat : Content(heap2, n2, c) = Content(heap, n, c)
<1> DEFINE new == Fresh(heap)
           up == i \div FANOUT
           slot == i % FANOUT
           parent == n[h + 1][up]
           heap2 == Linked(heap, new, parent, slot)
           n2 == [n EXCEPT ![h][i] = new]
<1>1. height \in Nat /\ h + 1 \in Nat /\ h + 1 # 0 /\ h + 1 # h
  BY DEF Tree
<1>2. new \in Addresses /\ new \notin DOMAIN heap /\ new # NULL
  BY FreshIsNew, WordsDiffer
<1>3. /\ up \in Nat /\ slot \in Slots /\ up * FANOUT + slot = i
      /\ \A j \in Nat : \A s \in Slots : /\ j * FANOUT + s \in Nat
                                         /\ (j * FANOUT + s) \div FANOUT = j
                                         /\ (j * FANOUT + s) % FANOUT = s
  BY SlotOfPiece
<1>4. parent \in DOMAIN heap /\ parent # NULL
  BY <1>1, <1>3, NodeFacts
<1> HIDE DEF up, slot
<1>5. /\ HeapOK(heap2) /\ DOMAIN heap2 = DOMAIN heap \cup {new}
      /\ heap2[new] = EmptyTable /\ heap2[parent][slot] = new
      /\ \A s \in Slots \ {slot} : heap2[parent][s] = heap[parent][s]
      /\ \A a \in DOMAIN heap \ {parent} : heap2[a] = heap[a]
  <2> HIDE DEF new, parent
  <2> DEFINE with == WithTable(heap, new)
  <2>1. HeapOK(with) /\ DOMAIN with = DOMAIN heap \cup {new} /\ with[new] = EmptyTable
        /\ \A a \in DOMAIN heap : with[a] = heap[a]
    BY <1>2, AddedTable
  <2> HIDE DEF with
  <2>2. parent \in DOMAIN with /\ new \in Words /\ parent # new
    BY <1>2, <1>4, <2>1, WordsDiffer
  <2>3. LET w == [with EXCEPT ![parent][slot] = new] IN
        /\ HeapOK(w) /\ DOMAIN w = DOMAIN with /\ w[parent][slot] = new
        /\ \A s \in Slots \ {slot} : w[parent][s] = with[parent][s]
        /\ \A a \in DOMAIN with \ {parent} : w[a] = with[a]
    <3>1. HeapOK(with) /\ parent \in DOMAIN with /\ slot \in Slots /\ new \in Words
      BY <1>3, <2>1, <2>2
    <3> QED
      BY <3>1, WrittenWord
  <2>4. heap2 = [with EXCEPT ![parent][slot] = new]
    BY DEF with, Linked
  <2> HIDE DEF heap2
  <2> QED
    BY <1>2, <1>4, <2>1, <2>2, <2>3, <2>4
<1> HIDE DEF new, heap2
<1>6. /\ n2 \in [Nat -> [Nat -> {NULL} \cup DOMAIN heap2]]
      /\ n2[h][i] = new
      /\ \A k, j \in Nat : ~(k = h /\ j = i) => n2[k][j] = n[k][j]
  BY <1>1, <1>5 DEF Tree
<1> HIDE DEF n2
<1>7. \A k, j \in Nat : n[k][j] # NULL /\ n[k][j] = parent => k = h + 1 /\ j = up
  BY <1>1, <1>3, <1>4 DEF Tree
<1>8. \A k, j \in Nat : n[k][j] # NULL => n[k][j] \in DOMAIN heap
  BY NodeFacts
<1> HIDE DEF parent
<1>9. n2[height][0] = root
  <2>1. n[height][0] = root
    BY DEF Tree
  <2>2. ~(height = h)
    BY <1>1
  <2> QED
    BY <1>1, <1>6, <2>1, <2>2
<1>10. \A k, j \in Nat : k > height \/ (k = height /\ j # 0) => n2[k][j] = NULL
  <2>1. \A k \in Nat : k > height \/ k = height => k # h
    BY <1>1
  <2>2. \A k, j \in Nat : k > height \/ (k = height /\ j # 0) => n[k][j] = NULL
    BY DEF Tree
  <2> QED
    BY <1>6, <2>1, <2>2
<1>11. ASSUME NEW k \in Nat, NEW j \in Nat, n2[k + 1][j] # NULL, NEW s \in Slots
       PROVE  heap2[n2[k + 1][j]][s] = n2[k][j * FANOUT + s]
  <2>0. k + 1 \in Nat /\ j * FANOUT + s \in Nat /\ (j * FANOUT + s) \div FANOUT = j
        /\ (j * FANOUT + s) % FANOUT = s
    BY <1>3
  <2>1. CASE k + 1 = h /\ j = i
    <3>1. heap2[n2[k + 1][j]][s] = NULL
      BY <1>5, <1>6, <2>1 DEF EmptyTable
    <3>2. n[k][j * FANOUT + s] = NULL
      <4>1. k < height
        BY <1>1, <2>1
      <4> QED
        BY <2>0, <2>1, <4>1 DEF Tree
    <3>3. k # h
      BY <2>1
    <3> QED
      BY <1>6, <2>0, <3>1, <3>2, <3>3
  <2>2. CASE ~(k + 1 = h /\ j = i)
    <3>1. n2[k + 1][j] = n[k + 1][j] /\ n[k + 1][j] # NULL /\ n[k + 1][j] \in DOMAIN heap
      BY <1>6, <1>8, <1>11, <2>0, <2>2
    <3>2. heap[n[k + 1][j]][s] = n[k][j * FANOUT + s]
      BY <3>1 DEF Tree
    <3>3. CASE n[k + 1][j] = parent
      <4>1. k = h /\ j = up
        BY <1>7, <2>0, <3>1, <3>3
      <4>2. CASE s = slot
        BY <1>3, <1>5, <1>6, <3>1, <3>3, <4>1, <4>2
      <4>3. CASE s # slot
        <5>1. j * FANOUT + s # i
          BY <1>3, <2>0, <4>1, <4>3
        <5>2. n2[k][j * FANOUT + s] = n[k][j * FANOUT + s]
          BY <1>6, <2>0, <5>1
        <5> QED
          BY <1>5, <3>1, <3>2, <3>3, <4>3, <5>2
      <4> QED
        BY <4>2, <4>3
    <3>4. CASE n[k + 1][j] # parent
      <4>1. heap2[n2[k + 1][j]] = heap[n[k + 1][j]]
        BY <1>5, <3>1, <3>4
      <4>2. ~(k = h /\ j * FANOUT + s = i)
        <5> SUFFICES ASSUME k = h, j * FANOUT + s = i PROVE FALSE
          OBVIOUS
        <5>1. j = up
          BY <2>0 DEF up
        <5> QED
          BY <3>4, <5>1 DEF parent
      <4> QED
        BY <1>6, <2>0, <3>2, <4>1, <4>2
    <3> QED
      BY <3>3, <3>4
  <2> QED
    BY <2>1, <2>2
<1>12. ASSUME NEW k \in Nat, NEW j \in Nat, n2[k][j] # NULL, k < height
       PROVE  n2[k + 1][j \div FANOUT] # NULL
  <2>0. k + 1 \in Nat /\ j \div FANOUT \in Nat
    <3>1. FANOUT \in Nat \ {0}
      BY FanoutAssumption
    <3> QED
      BY <3>1, Divide
  <2>1. n[k + 1][j \div FANOUT] # NULL
    <3>1. CASE k = h /\ j = i
      BY <1>4, <3>1 DEF parent, up
    <3>2. CASE ~(k = h /\ j = i)
      BY <1>6, <1>12, <3>2 DEF Tree
    <3> QED
      BY <3>1, <3>2
  <2> QED
    BY <1>2, <1>6, <2>0, <2>1
<1>13. \A j \in Nat : n2[0][j] # NULL =>
           \A s \in Slots : heap2[n2[0][j]][s] # NULL => <<heap2[n2[0][j]][s], j * FANOUT + s>> \in ok
  <2> SUFFICES ASSUME NEW j \in Nat, n2[0][j] # NULL, NEW s \in Slots, heap2[n2[0][j]][s] # NULL
               PROVE  <<heap2[n2[0][j]][s], j * FANOUT + s>> \in ok
    OBVIOUS
  <2>1. ~(0 = h /\ j = i)
    BY <1>5, <1>6 DEF EmptyTable
  <2>2. n2[0][j] = n[0][j] /\ n[0][j] # NULL
    BY <1>6, <2>1
  <2>3. heap2[n2[0][j]] = heap[n[0][j]]
    BY <1>1, <1>5, <1>7, <1>8, <2>2
  <2> QED
    BY <2>2, <2>3 DEF Tree
<1>14. \A k, j, l, m \in Nat : n2[k][j] # NULL /\ n2[k][j] = n2[l][m] => k = l /\ j = m
  <2> SUFFICES ASSUME NEW k \in Nat, NEW j \in Nat, NEW l \in Nat, NEW m \in Nat,
                      n2[k][j] # NULL, n2[k][j] = n2[l][m]
               PROVE  k = l /\ j = m
    OBVIOUS
  <2>0. /\ (k = h /\ j = i /\ n2[k][j] = new) \/ (n2[k][j] = n[k][j] /\ n[k][j] \in DOMAIN heap)
        /\ (l = h /\ m = i /\ n2[l][m] = new) \/ (n2[l][m] = n[l][m] /\ n[l][m] \in DOMAIN heap)
    BY <1>6, <1>8
  <2>1. CASE n2[k][j] = new
    BY <1>2, <2>0, <2>1
  <2>2. CASE n2[k][j] # new
    <3>1. n[k][j] = n[l][m] /\ n[k][j] # NULL
      BY <2>0, <2>2
    <3> QED
      BY <3>1 DEF Tree
  <2> QED
    BY <2>1, <2>2
<1>15. Tree(heap2, n2, root, height, ok)
  BY <1>1, <1>6, <1>9, <1>10, <1>11, <1>12, <1>13, <1>14 DEF Tree
<1>16. Nodes(n2) = Nodes(n) \cup {new}
  <2>1. Nodes(n2) \subseteq Nodes(n) \cup {new}
    BY <1>6 DEF Nodes
  <2>2. new \in Nodes(n2)
    BY <1>2, <1>6 DEF Nodes
  <2>3. ASSUME NEW a \in Nodes(n) PROVE a \in Nodes(n2)
    <3>1. PICK k \in Nat, j \in Nat : n[k][j] = a /\ a # NULL /\ a \in Addresses
      BY NodeFacts DEF Nodes
    <3>2. n2[k][j] = a
      BY <1>6, <3>1
    <3> QED
      BY <3>1, <3>2 DEF Nodes
  <2> QED
    BY <2>1, <2>2, <2>3
<1>17. parent \in Nodes(n)
  BY <1>1, <1>3, <1>4, NodeFacts DEF parent
<1>18. Extends(heap, n, heap2, n2)
  BY <1>2, <1>5, <1>16, <1>17 DEF Extends
<1>19. ASSUME NEW c \in Nat PROVE Content(heap2, n2, c) = Content(heap, n, c)
  <2>0. c \div FANOUT \in Nat /\ c % FANOUT \in Slots
    BY SlotOfPiece
  <2>1. CASE 0 = h /\ c \div FANOUT = i
    <3>1. Content(heap2, n2, c) = NULL
      BY <1>2, <1>5, <1>6, <2>0, <2>1 DEF Content, EmptyTable
    <3>2. Content(heap, n, c) = NULL
      BY <2>1 DEF Content
    <3> QED
      BY <3>1, <3>2
  <2>2. CASE ~(0 = h /\ c \div FANOUT = i)
    <3>1. n2[0][c \div FANOUT] = n[0][c \div FANOUT]
      BY <1>6, <2>0, <2>2
    <3>2. n[0][c \div FANOUT] # NULL => heap2[n[0][c \div FANOUT]] = heap[n[0][c \div FANOUT]]
      BY <1>1, <1>5, <1>7, <1>8, <2>0
    <3> QED
      BY <3>1, <3>2 DEF Content
  <2> QED
    BY <2>1, <2>2
<1> QED
  BY <1>2, <1>5, <1>6, <1>15, <1>18, <1>19 DEF heap2, new, parent, up, slot

Written(heap, a, slot, w) == [heap EXCEPT ![a][slot] = w]

(* A mapping written into its slot of its leaf. *)
LEMMA WriteLeaf ==
    ASSUME NEW heap, NEW n, NEW root, NEW height, NEW ok, HeapOK(heap),
           Tree(heap, n, root, height, ok), NEW i \in Nat, n[0][i] # NULL, NEW s \in Slots,
           NEW w \in Mappings, NEW more, ok \subseteq more, <<w, i * FANOUT + s>> \in more
    PROVE  LET heap2 == Written(heap, n[0][i], s, w) IN
           /\ HeapOK(heap2) /\ Tree(heap2, n, root, height, more)
           /\ Extends(heap, n, heap2, n)
           /\ \A c \in Nat : Content(heap2, n, c) =
                                 IF c = i * FANOUT + s THEN w ELSE Content(heap, n, c)
<1> DEFINE leaf == n[0][i]
           heap2 == Written(heap, leaf, s, w)
<1>1. leaf \in DOMAIN heap /\ leaf \in Nodes(n) /\ w \in Words /\ w # NULL
  BY NodeFacts, WordsDiffer
<1> HIDE DEF leaf
<1>2. /\ HeapOK(heap2) /\ DOMAIN heap2 = DOMAIN heap /\ heap2[leaf][s] = w
      /\ \A t \in Slots \ {s} : heap2[leaf][t] = heap[leaf][t]
      /\ \A a \in DOMAIN heap \ {leaf} : heap2[a] = heap[a]
  BY <1>1, WrittenWord DEF Written
<1> HIDE DEF heap2
<1>3. \A k, j \in Nat : n[k][j] # NULL => n[k][j] \in DOMAIN heap
  BY NodeFacts
<1>4. \A k, j \in Nat : n[k][j] # NULL /\ n[k][j] = leaf => k = 0 /\ j = i
  BY DEF leaf, Tree
<1>5. \A k, j \in Nat : n[k + 1][j] # NULL =>
          \A t \in Slots : heap2[n[k + 1][j]][t] = n[k][j * FANOUT + t]
  <2>1. \A k \in Nat : k + 1 \in Nat /\ k + 1 # 0
    OBVIOUS
  <2>2. \A k, j \in Nat : n[k + 1][j] # NULL => heap2[n[k + 1][j]] = heap[n[k + 1][j]]
    BY <1>2, <1>3, <1>4, <2>1
  <2> QED
    BY <2>2 DEF Tree
<1>6. \A j \in Nat : n[0][j] # NULL =>
          \A t \in Slots : heap2[n[0][j]][t] # NULL => <<heap2[n[0][j]][t], j * FANOUT + t>> \in more
  <2> SUFFICES ASSUME NEW j \in Nat, n[0][j] # NULL, NEW t \in Slots, heap2[n[0][j]][t] # NULL
               PROVE  <<heap2[n[0][j]][t], j * FANOUT + t>> \in more
    OBVIOUS
  <2>1. CASE j = i /\ t = s
    BY <1>2, <2>1 DEF leaf
  <2>2. CASE ~(j = i /\ t = s)
    <3>1. heap2[n[0][j]][t] = heap[n[0][j]][t]
      <4>1. CASE n[0][j] = leaf
        BY <1>2, <1>4, <2>2, <4>1
      <4>2. CASE n[0][j] # leaf
        BY <1>2, <1>3, <4>2
      <4> QED
        BY <4>1, <4>2
    <3> QED
      BY <3>1 DEF Tree
  <2> QED
    BY <2>1, <2>2
<1>7. Tree(heap2, n, root, height, more)
  BY <1>2, <1>5, <1>6 DEF Tree
<1>8. Extends(heap, n, heap2, n)
  BY <1>1, <1>2 DEF Extends
<1>9. ASSUME NEW c \in Nat
      PROVE  Content(heap2, n, c) = IF c = i * FANOUT + s THEN w ELSE Content(heap, n, c)
  <2>0. /\ c \div FANOUT \in Nat /\ c % FANOUT \in Slots
        /\ (c \div FANOUT) * FANOUT + (c % FANOUT) = c
        /\ (i * FANOUT + s) \div FANOUT = i /\ (i * FANOUT + s) % FANOUT = s
    BY SlotOfPiece
  <2>1. CASE c = i * FANOUT + s
    <3>1. c \div FANOUT = i /\ c % FANOUT = s
      BY <2>0, <2>1
    <3> QED
      BY <1>2, <2>1, <3>1 DEF Content, leaf
  <2>2. CASE c # i * FANOUT + s
    <3>1. ~(c \div FANOUT = i /\ c % FANOUT = s)
      BY <2>0, <2>2
    <3>2. CASE n[0][c \div FANOUT] = NULL
      BY <2>2, <3>2 DEF Content
    <3>3. CASE n[0][c \div FANOUT] # NULL
      <4>1. heap2[n[0][c \div FANOUT]][c % FANOUT] = heap[n[0][c \div FANOUT]][c % FANOUT]
        <5>1. CASE n[0][c \div FANOUT] = leaf
          <6>1. c \div FANOUT = i
            BY <1>4, <2>0, <3>3, <5>1
          <6> QED
            BY <1>2, <2>0, <3>1, <5>1, <6>1
        <5>2. CASE n[0][c \div FANOUT] # leaf
          BY <1>2, <1>3, <2>0, <3>3, <5>2
        <5> QED
          BY <5>1, <5>2
      <4> QED
        BY <2>2, <3>3, <4>1 DEF Content
    <3> QED
      BY <3>2, <3>3
  <2> QED
    BY <2>1, <2>2
<1> QED
  BY <1>2, <1>7, <1>8, <1>9 DEF heap2, leaf

WalkDown(heap, root, height, offset) ==
    CHOOSE walk : walk = [h \in 0 .. height |->
        IF h = height THEN [heap |-> heap, table |-> root]
        ELSE LET up == walk[h + 1]
                 slot == SlotIn(offset, h + 1, h + 1 = height)
                 new == Fresh(up.heap)
             IN  IF up.heap[up.table][slot] # NULL
                 THEN [up EXCEPT !.table = up.heap[up.table][slot]]
                 ELSE [heap |-> [WithTable(up.heap, new) EXCEPT ![up.table][slot] = new],
                       table |-> new]]

(* The insertion puts the mapping into the chunk of the offset, if the     *)
(* tree is high enough for it, and leaves the other chunks as they are.    *)
LEMMA InsertIs ==
    ASSUME NEW heap, NEW n, NEW root, NEW height, NEW ok, HeapOK(heap),
           Tree(heap, n, root, height, ok), root # NULL, NEW offset \in Nat,
           offset < calculate_capacity(height + 1), NEW w \in Mappings,
           NEW more, ok \subseteq more, <<w, Piece(offset, 0)>> \in more
    PROVE  LET heap2 == Insert(heap, root, height, offset, w) IN
           \E n2 : /\ HeapOK(heap2) /\ Tree(heap2, n2, root, height, more)
                   /\ Extends(heap, n, heap2, n2)
                   /\ \A c \in Nat : Content(heap2, n2, c) =
                                         IF c = Piece(offset, 0) THEN w ELSE Content(heap, n, c)
<1> DEFINE P(h) == Piece(offset, h)
           Down(up, h) ==
               LET slot == SlotIn(offset, h + 1, h + 1 = height)
                   new == Fresh(up.heap)
               IN  IF up.heap[up.table][slot] # NULL
                   THEN [up EXCEPT !.table = up.heap[up.table][slot]]
                   ELSE [heap |-> [WithTable(up.heap, new) EXCEPT ![up.table][slot] = new],
                         table |-> new]
           Rec(f, h) == IF h = height THEN [heap |-> heap, table |-> root] ELSE Down(f[h + 1], h)
           Good(h, hp, t) ==
               \E n2 : /\ HeapOK(hp) /\ Tree(hp, n2, root, height, ok)
                       /\ t = n2[h][P(h + 1)] /\ t # NULL
                       /\ Extends(heap, n, hp, n2)
                       /\ \A c \in Nat : Content(hp, n2, c) = Content(heap, n, c)
           walk == WalkDown(heap, root, height, offset)
<1>1. height \in Nat
  BY DEF Tree
<1>2. \A h \in Nat : /\ P(h) \in Nat /\ P(h + 1) = P(h) \div FANOUT
                     /\ SlotIn(offset, h, FALSE) = P(h) % FANOUT
                     /\ SlotIn(offset, h, TRUE) = P(h)
                     /\ P(h) % FANOUT \in Slots
                     /\ P(h) = P(h + 1) * FANOUT + (P(h) % FANOUT)
  BY Pieces, SlotOfPiece
<1>3. P(height + 1) = 0 /\ P(height) % FANOUT = P(height)
  BY <1>1, Pieces
<1>4. walk = [h \in 0 .. height |-> Rec(walk, h)]
  <2> DEFINE Fits(m, f) == f = [h \in height - m .. height |-> Rec(f, h)]
             T == {m \in Nat : m <= height => \E f : Fits(m, f)}
  <2>1. 0 \in T
    <3> DEFINE f0 == [h \in height .. height |-> [heap |-> heap, table |-> root]]
    <3>1. height - 0 = height /\ \A h \in height .. height : h = height
      BY <1>1
    <3>2. \A h \in height .. height : f0[h] = Rec(f0, h)
      BY <3>1
    <3>3. Fits(0, f0)
      BY <3>1, <3>2
    <3> HIDE DEF Fits, f0
    <3> QED
      BY <3>3
  <2>2. ASSUME NEW m \in T PROVE m + 1 \in T
    <3> HIDE DEF Fits
    <3> SUFFICES ASSUME m + 1 <= height PROVE \E f : Fits(m + 1, f)
      OBVIOUS
    <3>0. m \in Nat /\ m <= height
      BY <1>1
    <3>1. PICK f : Fits(m, f)
      BY <3>0
    <3> USE DEF Fits
    <3> DEFINE low == height - (m + 1)
               g == [h \in low .. height |-> IF h = low THEN Down(f[h + 1], h) ELSE f[h]]
    <3>2. low \in low .. height /\ low # height /\ low + 1 = height - m /\ low \in Nat
          /\ height - m \in height - m .. height
      BY <1>1, <3>0
    <3>3. ASSUME NEW h \in low .. height, h # low
          PROVE  h \in height - m .. height
      BY <1>1, <3>0, <3>3
    <3>4. ASSUME NEW h \in low .. height, h # height
          PROVE  h + 1 \in height - m .. height
      BY <1>1, <3>0, <3>4
    <3>5. ASSUME NEW h \in height - m .. height
          PROVE  h \in low .. height /\ h # low
      BY <1>1, <3>0
    <3> HIDE DEF Down, low
    <3>6. \A h \in height - m .. height : f[h] = Rec(f, h)
      BY <3>1
    <3>7. \A h \in height - m .. height : g[h] = f[h]
      BY <3>5
    <3>8. ASSUME NEW h \in low .. height PROVE g[h] = Rec(g, h)
      <4>1. CASE h = low
        <5>1. h + 1 \in height - m .. height /\ h # height
          BY <3>2, <3>4, <4>1
        <5>2. g[h] = Down(f[h + 1], h) /\ g[h + 1] = f[h + 1]
          BY <3>2, <3>7, <4>1, <5>1
        <5> QED
          BY <5>1, <5>2
      <4>2. CASE h # low
        <5>1. g[h] = f[h] /\ f[h] = Rec(f, h)
          BY <3>3, <3>6, <4>2
        <5>2. CASE h = height
          BY <5>1, <5>2
        <5>3. CASE h # height
          <6>1. h + 1 \in height - m .. height
            BY <3>4, <5>3
          <6>2. g[h + 1] = f[h + 1]
            BY <3>7, <6>1
          <6> QED
            BY <5>1, <5>3, <6>2
        <5> QED
          BY <5>2, <5>3
      <4> QED
        BY <4>1, <4>2
    <3>9. Fits(m + 1, g)
      <4>1. g = [h \in low .. height |-> g[h]]
        OBVIOUS
      <4> HIDE DEF g, Rec
      <4>2. g = [h \in low .. height |-> Rec(g, h)]
        BY <3>8, <4>1
      <4> QED
        BY <4>2 DEF low
    <3> HIDE DEF Fits, g
    <3> QED
      BY <3>9
  <2>3. T \in SUBSET Nat
    OBVIOUS
  <2> HIDE DEF T
  <2>4. height \in T
    BY <1>1, <2>1, <2>2, <2>3, Induction
  <2>5. height - height = 0 /\ height <= height
    BY <1>1
  <2>6. \E f : f = [h \in 0 .. height |-> Rec(f, h)]
    BY <2>4, <2>5 DEF T
  <2> QED
    BY <2>6 DEF WalkDown
<1>5. \A h \in 0 .. height : walk[h] = Rec(walk, h)
  <2> HIDE DEF Rec, walk
  <2> QED
    BY <1>4
<1> HIDE DEF walk, P
<1> DEFINE At(h) == \E hp, t : walk[h] = [heap |-> hp, table |-> t] /\ Good(h, hp, t)
           T == {m \in Nat : m <= height => At(height - m)}
<1>6. 0 \in T
  <2>1. height - 0 = height /\ height \in 0 .. height
    BY <1>1
  <2>2. walk[height] = [heap |-> heap, table |-> root]
    BY <1>5, <2>1
  <2>3. Extends(heap, n, heap, n)
    BY DEF Extends
  <2>4. root = n[height][P(height + 1)]
    BY <1>3 DEF Tree
  <2>5. Good(height, heap, root)
    BY <2>3, <2>4
  <2> HIDE DEF Good
  <2> QED
    BY <2>1, <2>2, <2>5
<1> HIDE DEF At
<1>7. ASSUME NEW m \in T PROVE m + 1 \in T
  <2> SUFFICES ASSUME m + 1 <= height PROVE At(height - (m + 1))
    OBVIOUS
  <2> DEFINE h == height - (m + 1)
  <2>1. h \in Nat /\ h + 1 = height - m /\ h < height /\ h \in 0 .. height /\ h # height
        /\ m <= height /\ h + 1 \in Nat /\ (h + 1) + 1 = h + 2 /\ h + 2 \in Nat
    BY <1>1
  <2>2. At(h + 1)
    BY <2>1
  <2> HIDE DEF T, h
  <2>3. PICK hp, t : walk[h + 1] = [heap |-> hp, table |-> t] /\ Good(h + 1, hp, t)
    BY <2>2 DEF At
  <2>4. PICK n2 : /\ HeapOK(hp) /\ Tree(hp, n2, root, height, ok)
                  /\ t = n2[h + 1][P(h + 2)] /\ t # NULL
                  /\ Extends(heap, n, hp, n2)
                  /\ \A c \in Nat : Content(hp, n2, c) = Content(heap, n, c)
    BY <2>1, <2>3
  <2> DEFINE i == P(h + 1)
             slot == i % FANOUT
             new == Fresh(hp)
  <2>5. i \in Nat /\ slot \in Slots /\ i \div FANOUT = P(h + 2)
        /\ i = P(h + 2) * FANOUT + slot /\ P(h + 2) \in Nat
    BY <1>2, <2>1
  <2>6. SlotIn(offset, h + 1, h + 1 = height) = slot
    <3>1. CASE h + 1 = height
      BY <1>2, <1>3, <2>1, <3>1
    <3>2. CASE h + 1 # height
      BY <1>2, <2>1, <3>2
    <3> QED
      BY <3>1, <3>2
  <2>7. walk[h] = IF hp[t][slot] # NULL THEN [heap |-> hp, table |-> hp[t][slot]]
                  ELSE [heap |-> Linked(hp, new, t, slot), table |-> new]
    <3> DEFINE up == [heap |-> hp, table |-> t]
    <3>1. walk[h] = Down(up, h)
      BY <1>5, <2>1, <2>3
    <3>2. up.heap = hp /\ up.table = t
          /\ [up EXCEPT !.table = hp[t][slot]] = [heap |-> hp, table |-> hp[t][slot]]
      OBVIOUS
    <3> HIDE DEF up, slot, i
    <3>3. Down(up, h) = IF hp[t][slot] # NULL THEN [up EXCEPT !.table = hp[t][slot]]
                        ELSE [heap |-> Linked(hp, new, t, slot), table |-> new]
      BY <2>6, <3>2 DEF Linked
    <3> QED
      BY <3>1, <3>2, <3>3
  <2> HIDE DEF Down, new
  <2>8. hp[t][slot] = n2[h][i]
    <3>1. hp[n2[h + 1][P(h + 2)]][slot] = n2[h][P(h + 2) * FANOUT + slot]
      <4> HIDE DEF i, slot
      <4> QED
        BY <2>1, <2>4, <2>5 DEF Tree
    <3> QED
      BY <2>4, <2>5, <3>1
  <2>9. CASE hp[t][slot] # NULL
    <3> HIDE DEF slot
    <3>1. Good(h, hp, n2[h][i])
      BY <2>4, <2>8, <2>9
    <3>2. walk[h] = [heap |-> hp, table |-> n2[h][i]]
      BY <2>7, <2>8, <2>9
    <3> HIDE DEF Good, i
    <3> QED
      BY <3>1, <3>2 DEF h, At
  <2>10. CASE hp[t][slot] = NULL
    <3> DEFINE hp2 == Linked(hp, new, t, slot)
    <3>1. \E n3 : /\ HeapOK(hp2) /\ Tree(hp2, n3, root, height, ok)
                  /\ n3[h][i] = new /\ new # NULL
                  /\ Extends(hp, n2, hp2, n3)
                  /\ \A c \in Nat : Content(hp2, n3, c) = Content(hp, n2, c)
      <4>1. n2[h + 1][i \div FANOUT] = t /\ n2[h + 1][i \div FANOUT] # NULL /\ n2[h][i] = NULL
        BY <2>4, <2>5, <2>8, <2>10
      <4>2. hp2 = Linked(hp, Fresh(hp), n2[h + 1][i \div FANOUT], i % FANOUT)
        BY <4>1 DEF new
      <4> HIDE DEF i, hp2
      <4> QED
        BY <2>1, <2>4, <2>5, <4>1, <4>2, InsertStep DEF new
    <3> HIDE DEF hp2, slot
    <3>2. PICK n3 : /\ HeapOK(hp2) /\ Tree(hp2, n3, root, height, ok)
                    /\ n3[h][i] = new /\ new # NULL
                    /\ Extends(hp, n2, hp2, n3)
                    /\ \A c \in Nat : Content(hp2, n3, c) = Content(hp, n2, c)
      BY <3>1
    <3>3. Extends(heap, n, hp2, n3)
      BY <2>4, <3>2, ExtendsTwice
    <3>4. Good(h, hp2, new)
      BY <2>4, <3>2, <3>3
    <3>5. walk[h] = [heap |-> hp2, table |-> new]
      BY <2>7, <2>10 DEF hp2
    <3> HIDE DEF Good
    <3> QED
      BY <3>4, <3>5 DEF h, At
  <2> QED
    BY <2>9, <2>10
<1>8. T \in SUBSET Nat
  OBVIOUS
<1> HIDE DEF T
<1>9. height \in T
  BY <1>1, <1>6, <1>7, <1>8, Induction
<1>10. At(0)
  <2>1. height - height = 0 /\ height <= height
    BY <1>1
  <2> QED
    BY <1>9, <2>1 DEF T
<1>11. PICK hp, t : walk[0] = [heap |-> hp, table |-> t] /\ Good(0, hp, t)
  BY <1>10 DEF At
<1>12. PICK n2 : /\ HeapOK(hp) /\ Tree(hp, n2, root, height, ok)
                 /\ t = n2[0][P(1)] /\ t # NULL
                 /\ Extends(heap, n, hp, n2)
                 /\ \A c \in Nat : Content(hp, n2, c) = Content(heap, n, c)
  <2>1. 0 + 1 = 1
    OBVIOUS
  <2> QED
    BY <1>11, <2>1
<1> DEFINE s == P(0) % FANOUT
           i == P(1)
<1>13. i \in Nat /\ s \in Slots /\ P(0) = i * FANOUT + s /\ SlotIn(offset, 0, height = 0) = s
  <2>1. 0 + 1 = 1 /\ 0 \in Nat /\ 1 \in Nat
    OBVIOUS
  <2>2. i \in Nat /\ s \in Slots /\ P(0) = i * FANOUT + s
    BY <1>2, <2>1
  <2>3. CASE height = 0
    BY <1>2, <1>3, <2>1, <2>3
  <2>4. CASE height # 0
    BY <1>2, <2>1, <2>4
  <2> QED
    BY <2>2, <2>3, <2>4
<1> HIDE DEF s, i, Good
<1> DEFINE heap2 == Written(hp, n2[0][i], s, w)
<1>14. Insert(heap, root, height, offset, w) = heap2
  <2>1. Insert(heap, root, height, offset, w)
            = [walk[0].heap EXCEPT ![walk[0].table][SlotIn(offset, 0, height = 0)] = w]
    BY DEF Insert, walk, WalkDown
  <2>2. walk[0].heap = hp /\ walk[0].table = n2[0][i]
    BY <1>11, <1>12 DEF i
  <2> QED
    BY <1>13, <2>1, <2>2 DEF Written
<1>15. /\ HeapOK(heap2) /\ Tree(heap2, n2, root, height, more)
       /\ Extends(hp, n2, heap2, n2)
       /\ \A c \in Nat : Content(heap2, n2, c) =
                             IF c = i * FANOUT + s THEN w ELSE Content(hp, n2, c)
  <2>1. n2[0][i] # NULL
    BY <1>12 DEF i
  <2>2. HeapOK(hp) /\ Tree(hp, n2, root, height, ok) /\ i \in Nat /\ s \in Slots /\ w \in Mappings
    BY <1>12, <1>13
  <2>3. <<w, i * FANOUT + s>> \in more
    BY <1>13 DEF P
  <2> QED
    BY <2>1, <2>2, <2>3, WriteLeaf
<1> HIDE DEF heap2
<1>16. Extends(heap, n, heap2, n2)
  BY <1>12, <1>15, ExtendsTwice
<1>17. i * FANOUT + s = Piece(offset, 0)
  BY <1>13 DEF P
<1> HIDE DEF P
<1>18. /\ HeapOK(heap2) /\ Tree(heap2, n2, root, height, more)
       /\ Extends(heap, n, heap2, n2)
       /\ \A c \in Nat : Content(heap2, n2, c) =
                             IF c = Piece(offset, 0) THEN w ELSE Content(heap, n, c)
  BY <1>12, <1>15, <1>16, <1>17
<1> QED
  BY <1>14, <1>18

-----------------------------------------------------------------------------
(* Trees that are empty, new, or extended *)

NoNodes == [h \in Nat |-> [i \in Nat |-> NULL]]

(* A descriptor without a root has no tables. *)
LEMMA EmptyTree ==
    /\ \A heap1, ok : Tree(heap1, NoNodes, NULL, 0, ok)
    /\ Nodes(NoNodes) = {}
    /\ \A heap1, c : c \in Nat => Content(heap1, NoNodes, c) = NULL
<1>1. \A h, i \in Nat : NoNodes[h][i] = NULL
  BY DEF NoNodes
<1>2. \A h \in Nat : h + 1 \in Nat
  OBVIOUS
<1>3. ASSUME NEW heap1, NEW ok PROVE Tree(heap1, NoNodes, NULL, 0, ok)
  <2>1. NoNodes \in [Nat -> [Nat -> {NULL} \cup DOMAIN heap1]]
    BY DEF NoNodes
  <2> QED
    BY <1>1, <1>2, <2>1 DEF Tree
<1>4. Nodes(NoNodes) = {}
  BY <1>1, WordsDiffer DEF Nodes
<1>5. ASSUME NEW heap1, NEW c, c \in Nat PROVE Content(heap1, NoNodes, c) = NULL
  BY <1>1, <1>5, SlotOfPiece DEF Content
<1> QED
  BY <1>3, <1>4, <1>5

(* A tree without a root has no nodes. *)
LEMMA RootlessTree ==
    ASSUME NEW heap1, NEW n, NEW ok, Tree(heap1, n, NULL, 0, ok)
    PROVE  Nodes(n) = {} /\ \A c \in Nat : Content(heap1, n, c) = NULL
<1>1. \A h, i \in Nat : n[h][i] = NULL
  BY DEF Tree
<1>2. \A c \in Nat : c \div FANOUT \in Nat
  BY FanoutAssumption, Divide
<1> QED
  BY <1>1, <1>2, WordsDiffer DEF Nodes, Content

OnlyRoot(a) == [NoNodes EXCEPT ![0] = [i \in Nat |-> IF i = 0 THEN a ELSE NULL]]

(* An empty table is the root of a tree with nothing in it. *)
LEMMA LoneRoot ==
    ASSUME NEW heap1, HeapOK(heap1), NEW a \in DOMAIN heap1, heap1[a] = EmptyTable, NEW ok
    PROVE  /\ Tree(heap1, OnlyRoot(a), a, 0, ok) /\ a # NULL
           /\ Nodes(OnlyRoot(a)) = {a}
           /\ \A c \in Nat : Content(heap1, OnlyRoot(a), c) = NULL
<1> DEFINE n == OnlyRoot(a)
<1>1. a \in Addresses /\ a # NULL
  BY WordsDiffer DEF HeapOK
<1>2. /\ n \in [Nat -> [Nat -> {NULL} \cup DOMAIN heap1]]
      /\ \A h, i \in Nat : n[h][i] = IF h = 0 /\ i = 0 THEN a ELSE NULL
  BY DEF NoNodes, OnlyRoot
<1> HIDE DEF n
<1>3. \A h \in Nat : h + 1 \in Nat /\ h + 1 # 0
  OBVIOUS
<1>4. \A s \in Slots : heap1[a][s] = NULL
  BY DEF EmptyTable
<1>5. Tree(heap1, n, a, 0, ok)
  BY <1>2, <1>3, <1>4 DEF Tree
<1>6. Nodes(n) = {a}
  BY <1>1, <1>2, WordsDiffer DEF Nodes
<1>7. ASSUME NEW c \in Nat PROVE Content(heap1, n, c) = NULL
  <2>1. c \div FANOUT \in Nat /\ c % FANOUT \in Slots
    BY SlotOfPiece
  <2> QED
    BY <1>2, <1>4, <2>1 DEF Content
<1> QED
  BY <1>1, <1>5, <1>6, <1>7 DEF n

(* The root that open1 allocates is such a table. *)
LEMMA NewTree ==
    ASSUME NEW heap1, HeapOK(heap1), NEW ok
    PROVE  LET new == Fresh(heap1)
               heap2 == WithTable(heap1, new)
           IN  \E n : /\ HeapOK(heap2) /\ Tree(heap2, n, new, 0, ok) /\ new # NULL
                      /\ new \notin DOMAIN heap1 /\ DOMAIN heap2 = DOMAIN heap1 \cup {new}
                      /\ \A a \in DOMAIN heap1 : heap2[a] = heap1[a]
                      /\ Nodes(n) = {new}
                      /\ \A c \in Nat : Content(heap2, n, c) = NULL
<1> DEFINE new == Fresh(heap1)
           heap2 == WithTable(heap1, new)
<1>1. new \in Addresses /\ new \notin DOMAIN heap1
  BY FreshIsNew
<1>2. /\ HeapOK(heap2) /\ DOMAIN heap2 = DOMAIN heap1 \cup {new} /\ heap2[new] = EmptyTable
      /\ \A a \in DOMAIN heap1 : heap2[a] = heap1[a]
  BY <1>1, AddedTable
<1> HIDE DEF new, heap2
<1>3. /\ Tree(heap2, OnlyRoot(new), new, 0, ok) /\ new # NULL /\ Nodes(OnlyRoot(new)) = {new}
      /\ \A c \in Nat : Content(heap2, OnlyRoot(new), c) = NULL
  BY <1>2, LoneRoot
<1> QED
  BY <1>1, <1>2, <1>3 DEF heap2, new

(* What get_mmap_address makes of a tree: every chunk keeps its mapping,   *)
(* and the chunk of the offset has the new one.                            *)
LEMMA WithMappingIs ==
    ASSUME NEW heap, NEW n, NEW root, NEW height, NEW ok, HeapOK(heap),
           Tree(heap, n, root, height, ok), root # NULL,
           NEW offset \in Nat, NEW w \in Mappings,
           NEW more, ok \subseteq more, <<w, Piece(offset, 0)>> \in more
    PROVE  LET tree == WithMapping(heap, root, height, offset, w) IN
           \E n2 : /\ HeapOK(tree.heap) /\ Tree(tree.heap, n2, tree.root, tree.height, more)
                   /\ tree.root # NULL
                   /\ Extends(heap, n, tree.heap, n2)
                   /\ AddsChunk(heap, n, tree.heap, n2, Piece(offset, 0), w)
<1> DEFINE tree == WithMapping(heap, root, height, offset, w)
           new == calculate_new_height(offset)
           newHeight == IF height < new THEN new ELSE height
           grown == Grow(heap, root, height, newHeight)
           heap2 == Insert(grown.heap, grown.root, newHeight, offset, w)
<1>1. height \in Nat /\ new \in Nat /\ offset < calculate_capacity(new + 1)
  BY NewHeight DEF Tree
<1> HIDE DEF new
<1>2. newHeight \in Nat /\ height <= newHeight /\ new <= newHeight
  BY <1>1
<1> HIDE DEF newHeight
<1>3. offset < calculate_capacity(newHeight + 1)
  <2> DEFINE T == {m \in Nat : calculate_capacity(new + 1) <= calculate_capacity((new + 1) + m)}
  <2>1. 0 \in T
    <3>1. (new + 1) + 0 = new + 1 /\ new + 1 \in Nat /\ calculate_capacity(new + 1) \in Nat
      BY <1>1, Capacity
    <3> QED
      BY <3>1
  <2>2. ASSUME NEW m \in T PROVE m + 1 \in T
    <3> DEFINE h == (new + 1) + m
               c == calculate_capacity(h)
    <3>1. h \in Nat /\ (new + 1) + (m + 1) = h + 1 /\ calculate_capacity(new + 1) <= c
          /\ new + 1 \in Nat
      BY <1>1
    <3>2. c \in Nat /\ calculate_capacity(h + 1) = c * FANOUT /\ calculate_capacity(new + 1) \in Nat
      BY <3>1, Capacity
    <3> HIDE DEF c
    <3>3. c <= c * FANOUT /\ c * FANOUT \in Nat
      BY <3>2, FanoutAssumption
    <3> QED
      BY <3>1, <3>2, <3>3
  <2>3. T \in SUBSET Nat
    OBVIOUS
  <2> HIDE DEF T
  <2>4. newHeight - new \in T /\ (new + 1) + (newHeight - new) = newHeight + 1
    BY <1>1, <1>2, <2>1, <2>2, <2>3, Induction
  <2>5. calculate_capacity(new + 1) <= calculate_capacity(newHeight + 1)
    BY <2>4 DEF T
  <2>6. calculate_capacity(new + 1) \in Nat /\ calculate_capacity(newHeight + 1) \in Nat
    <3>1. new + 1 \in Nat /\ newHeight + 1 \in Nat
      BY <1>1, <1>2
    <3> QED
      BY <3>1, Capacity
  <2> QED
    BY <1>1, <2>5, <2>6
<1>4. PICK n2 : /\ HeapOK(grown.heap) /\ Tree(grown.heap, n2, grown.root, newHeight, ok)
                /\ grown.root # NULL /\ Extends(heap, n, grown.heap, n2)
                /\ \A c \in Nat : Content(grown.heap, n2, c) = Content(heap, n, c)
  BY <1>2, GrowIs
<1> DEFINE hp == grown.heap
           rt == grown.root
<1>5. PICK n3 : /\ HeapOK(heap2) /\ Tree(heap2, n3, rt, newHeight, more)
                /\ Extends(hp, n2, heap2, n3)
                /\ \A c \in Nat : Content(heap2, n3, c) =
                                      IF c = Piece(offset, 0) THEN w ELSE Content(hp, n2, c)
  <2>1. HeapOK(hp) /\ Tree(hp, n2, rt, newHeight, ok) /\ rt # NULL
    BY <1>4
  <2>2. heap2 = Insert(hp, rt, newHeight, offset, w)
    OBVIOUS
  <2> HIDE DEF hp, rt, heap2
  <2> QED
    BY <1>3, <2>1, <2>2, InsertIs
<1>6. Extends(heap, n, heap2, n3)
  BY <1>4, <1>5, ExtendsTwice
<1>7. tree = [heap |-> heap2, root |-> rt, height |-> newHeight]
  BY DEF WithMapping, newHeight, new
<1>8. tree.heap = heap2 /\ tree.root = rt /\ tree.height = newHeight
  BY <1>7
<1>9. AddsChunk(heap, n, heap2, n3, Piece(offset, 0), w)
  BY <1>4, <1>5 DEF AddsChunk
<1> HIDE DEF heap2, tree
<1>10. /\ HeapOK(tree.heap) /\ Tree(tree.heap, n3, tree.root, tree.height, more)
       /\ tree.root # NULL /\ Extends(heap, n, tree.heap, n3)
       /\ AddsChunk(heap, n, tree.heap, n3, Piece(offset, 0), w)
  BY <1>4, <1>5, <1>6, <1>8, <1>9
<1> QED
  BY <1>10 DEF tree
=============================================================================
