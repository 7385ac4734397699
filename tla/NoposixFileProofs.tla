------------------------- MODULE NoposixFileProofs -------------------------
(***************************************************************************)
(* libnoposix for any files, descriptors, chunk size, fan-out and number   *)
(* of calls: the trees stay apart, reads hand out the bytes they are asked *)
(* for, closing loses leaves only, and the trees implement ChunkCache.     *)
(***************************************************************************)
EXTENDS NoposixFile, MmapTreeProofs

(* What a descriptor's leaves may hold: the mappings of its file, each in  *)
(* the slot of its chunk.                                                  *)
Mapped(fd) ==
    {<<Mapping(k), maps[k].chunk>> : k \in {j \in 1 .. Len(maps) : maps[j].path = kernel[fd].path}}

(* The heap as node describes it: a tree for each descriptor, no table in  *)
(* two of them, and no table that is in none of them and points to another *)
(* table.                                                                  *)
Trees(node) ==
    /\ \A fd \in Fds : Tree(heap, node[fd], nvf[fd].root, nvf[fd].height, Mapped(fd))
    /\ \A fd, g \in Fds : fd # g => Nodes(node[fd]) \cap Nodes(node[g]) = {}
    /\ \A a \in DOMAIN heap :
           (\A fd \in Fds : a \notin Nodes(node[fd])) => \A s \in Slots : heap[a][s] \notin Addresses

(* A descriptor has a tree exactly while it is open. *)
FilesInv ==
    \A fd \in Fds :
        /\ nvf[fd].valid <=> IsOpen(fd)
        /\ nvf[fd].root # NULL <=> IsOpen(fd)
        /\ ~IsOpen(fd) => nvf[fd].height = 0
        /\ IsOpen(fd) => nvf[fd].length = FileLength[kernel[fd].path]

(* The last read handed out bytes of its descriptor's file.                *)
RetInv ==
    ret.n > 0 =>
        /\ ret.fd \in Fds /\ IsOpen(ret.fd)
        /\ \E k \in 1 .. Len(maps) :
               /\ ret.map = Mapping(k)
               /\ maps[k].path = kernel[ret.fd].path
               /\ maps[k].chunk * CHUNK + ret.at = ret.from
               /\ ret.at + ret.n <= CHUNK
               /\ ret.from + ret.n <= FileLength[maps[k].path]

IInv == TypeOK /\ HeapOK(heap) /\ FilesInv /\ RetInv /\ \E node : Trees(node)

(* What get_mmap_address makes of a descriptor's tree.                     *)
LEMMA TreeWithIs ==
    ASSUME NEW fd, NEW n, NEW ok, HeapOK(heap),
           Tree(heap, n, nvf[fd].root, nvf[fd].height, ok), nvf[fd].root # NULL,
           NEW offset \in Nat, NEW w \in Mappings,
           NEW more, ok \subseteq more, <<w, Piece(offset, 0)>> \in more
    PROVE  \E n2 : /\ HeapOK(TreeWith(fd, offset, w).heap)
                   /\ Tree(TreeWith(fd, offset, w).heap, n2, TreeWith(fd, offset, w).root,
                           TreeWith(fd, offset, w).height, more)
                   /\ TreeWith(fd, offset, w).root # NULL
                   /\ Extends(heap, n, TreeWith(fd, offset, w).heap, n2)
                   /\ AddsChunk(heap, n, TreeWith(fd, offset, w).heap, n2, Piece(offset, 0), w)
BY WithMappingIs DEF TreeWith

-----------------------------------------------------------------------------
(* Reads *)

(* What a call of read1 or pread1 is asked to read lies in the file.       *)
LEMMA ReadFacts ==
    ASSUME TypeOK, FilesInv, NEW fd \in Fds, IsOpen(fd),
           NEW size \in 0 .. WORD - 1, NEW offset \in 0 .. WORD - 1,
           ReadLength(fd, size, offset) # 0
    PROVE  /\ ReadLength(fd, size, offset) \in Nat /\ ReadLength(fd, size, offset) > 0
           /\ offset + ReadLength(fd, size, offset) <= FileLength[kernel[fd].path]
           /\ kernel[fd].path \in Paths
<1> DEFINE L == nvf[fd].length
           half == WORD \div 2
           m == (offset + size) % WORD
           length == IF L >= m THEN size ELSE L - offset
<1>1. WORD \in Nat /\ WORD > 0 /\ half \in Nat /\ WORD = 2 * half
  BY WordAssumption
<1>2. kernel[fd].path \in Paths /\ L = FileLength[kernel[fd].path] /\ L \in Nat /\ L < half
  <2>1. kernel[fd].path \in Paths
    BY DEF TypeOK, IsOpen
  <2>2. L = FileLength[kernel[fd].path]
    BY DEF FilesInv
  <2>3. FileLength[kernel[fd].path] \in 0 .. half - 1
    BY <2>1, LengthAssumption
  <2> QED
    BY <1>1, <2>1, <2>2, <2>3
<1> HIDE DEF L, half
<1>3. ReadLength(fd, size, offset) = IF offset >= L \/ length >= half THEN 0 ELSE length
  BY DEF ReadLength, L, half
<1>4. ~(offset >= L) /\ ~(length >= half) /\ ReadLength(fd, size, offset) = length
  BY <1>3
<1>5. offset \in Nat /\ size \in Nat /\ offset < L
  BY <1>1, <1>2, <1>4
<1>6. CASE L >= m
  <2>1. length = size /\ size < half
    BY <1>1, <1>4, <1>5, <1>6
  <2>2. offset + size < WORD /\ offset + size \in Nat
    BY <1>1, <1>2, <1>5, <2>1
  <2>3. m = offset + size
    BY <1>1, <2>2
  <2> QED
    BY <1>2, <1>4, <1>5, <1>6, <2>1, <2>3
<1>7. CASE ~(L >= m)
  BY <1>2, <1>4, <1>5, <1>7
<1> QED
  BY <1>6, <1>7

(* The bytes handed out lie in the chunk that holds the offset, and are    *)
(* not more than were asked for.                                           *)
LEMMA BytesFacts ==
    ASSUME NEW fd, NEW offset \in Nat, NEW length \in Nat, length > 0, NEW mapping
    PROVE  LET b == Bytes(fd, offset, length, mapping) IN
           /\ b.fd = fd /\ b.map = mapping /\ b.from = offset
           /\ b.n \in 0 .. CHUNK /\ b.n > 0 /\ b.n <= length
           /\ b.at \in Nat /\ b.at + b.n <= CHUNK
           /\ Piece(offset, 0) * CHUNK + b.at = offset
           /\ Piece(offset, 0) = offset \div CHUNK /\ Piece(offset, 0) \in Nat
<1> DEFINE at == offset % CHUNK
           q == offset \div CHUNK
<1>1. CHUNK \in Nat /\ CHUNK > 0
  BY ChunkAssumption
<1>2. q \in Nat /\ at \in Nat /\ at < CHUNK /\ q * CHUNK + at = offset
  BY <1>1
<1>3. Piece(offset, 0) = q
  BY Capacity DEF Piece
<1> HIDE DEF at, q
<1>4. Bytes(fd, offset, length, mapping)
          = [fd |-> fd, from |-> offset, n |-> IF CHUNK - at > length THEN length ELSE CHUNK - at,
             map |-> mapping, at |-> at]
  BY DEF Bytes, at
<1> DEFINE b == Bytes(fd, offset, length, mapping)
<1>5. /\ b.fd = fd /\ b.map = mapping /\ b.from = offset /\ b.at = at
      /\ b.n = IF CHUNK - at > length THEN length ELSE CHUNK - at
  BY <1>4
<1> HIDE DEF b
<1>6. b.n \in 0 .. CHUNK /\ b.n > 0 /\ b.n <= length /\ b.at \in Nat /\ b.at + b.n <= CHUNK
  BY <1>1, <1>2, <1>5
<1>7. Piece(offset, 0) * CHUNK + b.at = offset /\ Piece(offset, 0) = offset \div CHUNK
      /\ Piece(offset, 0) \in Nat
  BY <1>2, <1>3, <1>5 DEF q
<1> QED
  BY <1>5, <1>6, <1>7 DEF b

(* The offset of a descriptor stays a word.                                *)
LEMMA WordFacts ==
    /\ WORD \in Nat /\ WORD > 0 /\ 0 \in 0 .. WORD - 1
    /\ \A x \in Int : x % WORD \in 0 .. WORD - 1
BY WordAssumption

(* What the tree of an open descriptor finds for an offset: a mapping of   *)
(* the offset's chunk of this descriptor's file.                           *)
LEMMA HitFacts ==
    ASSUME TypeOK, HeapOK(heap), NEW node, Trees(node), NEW fd \in Fds, NEW offset \in Nat,
           LookupChunk(fd, offset) # NULL
    PROVE  \E k \in 1 .. Len(maps) : /\ LookupChunk(fd, offset) = Mapping(k)
                                     /\ maps[k].path = kernel[fd].path
                                     /\ maps[k].chunk = Piece(offset, 0)
<1> DEFINE n == node[fd]
           c == Piece(offset, 0)
           i == c \div FANOUT
           s == c % FANOUT
<1>1. Tree(heap, n, nvf[fd].root, nvf[fd].height, Mapped(fd))
  BY DEF Trees
<1> HIDE DEF n
<1>2. LookupChunk(fd, offset) = Content(heap, n, c)
  BY <1>1, LookupIs DEF LookupChunk
<1>3. c \in Nat
  BY Pieces
<1>4. i \in Nat /\ s \in Slots /\ i * FANOUT + s = c
  BY <1>3, SlotOfPiece
<1> HIDE DEF c
<1>5. n[0][i] # NULL /\ heap[n[0][i]][s] = LookupChunk(fd, offset)
  BY <1>2 DEF Content
<1>6. <<LookupChunk(fd, offset), c>> \in Mapped(fd)
  <2>1. <<heap[n[0][i]][s], i * FANOUT + s>> \in Mapped(fd)
    <3> HIDE DEF i, s
    <3> QED
      BY <1>1, <1>4, <1>5 DEF Tree
  <2> QED
    BY <1>4, <1>5, <2>1
<1> QED
  BY <1>6 DEF Mapped, c

-----------------------------------------------------------------------------
(* How the calls change the trees *)

(* A call that changes the tree of one descriptor, if it leaves the tables *)
(* of the others alone.                                                    *)
LEMMA OneTree ==
    ASSUME NEW node, Trees(node), HeapOK(heap), NEW fd \in Fds, NEW n2,
           Tree(heap', n2, nvf[fd].root', nvf[fd].height', Mapped(fd)'),
           \A g \in Fds \ {fd} : /\ nvf[g].root' = nvf[g].root /\ nvf[g].height' = nvf[g].height
                                 /\ Mapped(g) \subseteq Mapped(g)'
                                 /\ \A a \in Nodes(node[g]) : a \in DOMAIN heap' /\ heap'[a] = heap[a]
                                 /\ Nodes(n2) \cap Nodes(node[g]) = {},
           \A a \in DOMAIN heap' :
               a \notin Nodes(n2) /\ (\A g \in Fds \ {fd} : a \notin Nodes(node[g])) =>
                   \A s \in Slots : heap'[a][s] \notin Addresses
    PROVE  LET node2 == [g \in Fds |-> IF g = fd THEN n2 ELSE node[g]] IN
           /\ Trees(node2)'
           /\ \A g \in Fds \ {fd} : \A c \in Nat :
                  Content(heap', node2[g], c) = Content(heap, node[g], c)
<1> DEFINE node2 == [g \in Fds |-> IF g = fd THEN n2 ELSE node[g]]
<1>1. node2[fd] = n2 /\ \A g \in Fds \ {fd} : node2[g] = node[g]
  OBVIOUS
<1> HIDE DEF node2
<1>2. ASSUME NEW g \in Fds \ {fd}
      PROVE  /\ Tree(heap', node2[g], nvf[g].root', nvf[g].height', Mapped(g)')
             /\ \A c \in Nat : Content(heap', node2[g], c) = Content(heap, node[g], c)
  <2>1. Tree(heap, node[g], nvf[g].root, nvf[g].height, Mapped(g))
    BY DEF Trees
  <2>2. node2[g] = node[g] /\ nvf[g].root' = nvf[g].root /\ nvf[g].height' = nvf[g].height
        /\ Mapped(g) \subseteq Mapped(g)'
        /\ \A a \in Nodes(node[g]) : a \in DOMAIN heap' /\ heap'[a] = heap[a]
    BY <1>1
  <2> DEFINE n == node[g]
             rt == nvf[g].root
             ht == nvf[g].height
             ok == Mapped(g)
             more == Mapped(g)'
             new == heap'
  <2>3. Tree(new, n, rt, ht, more) /\ SameChunks(heap, n, new, n)
    <3>1. /\ Tree(heap, n, rt, ht, ok) /\ ok \subseteq more
          /\ \A a \in Nodes(n) : a \in DOMAIN new /\ new[a] = heap[a]
      BY <2>1, <2>2
    <3> HIDE DEF n, rt, ht, ok, more, new
    <3> QED
      BY <3>1, TreeFrame
  <2> QED
    BY <2>2, <2>3 DEF SameChunks
<1>3. \A g \in Fds : Tree(heap', node2[g], nvf[g].root', nvf[g].height', Mapped(g)')
  BY <1>1, <1>2
<1>4. \A g, h \in Fds : g # h => Nodes(node2[g]) \cap Nodes(node2[h]) = {}
  <2> SUFFICES ASSUME NEW g \in Fds, NEW h \in Fds, g # h
               PROVE  Nodes(node2[g]) \cap Nodes(node2[h]) = {}
    OBVIOUS
  <2>1. CASE g = fd
    BY <1>1, <2>1
  <2>2. CASE h = fd
    BY <1>1, <2>2
  <2>3. CASE g # fd /\ h # fd
    BY <1>1, <2>3 DEF Trees
  <2> QED
    BY <2>1, <2>2, <2>3
<1>5. \A a \in DOMAIN heap' :
          (\A g \in Fds : a \notin Nodes(node2[g])) => \A s \in Slots : heap'[a][s] \notin Addresses
  BY <1>1
<1>6. Trees(node2)'
  BY <1>3, <1>4, <1>5 DEF Trees
<1> QED
  BY <1>2, <1>6 DEF node2

(* A chunk that is mapped for the first time.                              *)
LEMMA MissTrees ==
    ASSUME TypeOK, HeapOK(heap), FilesInv, NEW node, Trees(node), NEW fd \in Fds, IsOpen(fd),
           NEW size, NEW offset \in Nat, NEW advance, Miss(fd, size, offset, advance)
    PROVE  \E node2 :
               /\ HeapOK(heap)' /\ Trees(node2)' /\ nvf'[fd].root # NULL
               /\ \A g \in Fds : \A c \in Nat :
                      Content(heap', node2[g], c) =
                          IF g = fd /\ c = Piece(offset, 0) THEN Mapping(Len(maps) + 1)
                          ELSE Content(heap, node[g], c)
<1> DEFINE w == Mapping(Len(maps) + 1)
           tree == TreeWith(fd, offset, w)
           more == Mapped(fd)'
<1>1. /\ heap' = tree.heap /\ kernel' = kernel
      /\ maps' = Append(maps, [path |-> kernel[fd].path, chunk |-> offset \div CHUNK,
                               prot |-> Perms(fd)])
      /\ nvf' = [nvf EXCEPT ![fd].root = tree.root, ![fd].height = tree.height,
                            ![fd].offset = Advanced(nvf[fd], ret'.n, advance)]
  BY DEF Miss
<1>2. /\ nvf'[fd].root = tree.root /\ nvf'[fd].height = tree.height
      /\ \A g \in Fds \ {fd} : nvf'[g] = nvf[g]
  <2>1. nvf \in [Fds -> NVFile]
    BY DEF TypeOK
  <2> HIDE DEF tree
  <2> QED
    BY <1>1, <2>1 DEF NVFile
<1>3. /\ Len(maps) \in Nat /\ Len(maps') = Len(maps) + 1
      /\ \A k \in 1 .. Len(maps) : maps'[k] = maps[k]
      /\ maps'[Len(maps) + 1].path = kernel[fd].path
      /\ maps'[Len(maps) + 1].chunk = offset \div CHUNK
  BY <1>1 DEF TypeOK
<1>4. \A g \in Fds : Mapped(g) \subseteq Mapped(g)'
  BY <1>1, <1>3 DEF Mapped
<1>5. <<w, Piece(offset, 0)>> \in more /\ w \in Mappings
  <2>1. Piece(offset, 0) = offset \div CHUNK
    BY Capacity DEF Piece
  <2>2. Len(maps) + 1 \in 1 .. Len(maps')
    BY <1>3
  <2>3. <<w, maps'[Len(maps) + 1].chunk>> \in more
    BY <1>1, <1>3, <2>2 DEF Mapped
  <2>4. w \in Mappings
    BY <1>3 DEF Mappings
  <2> QED
    BY <1>3, <2>1, <2>3, <2>4
<1> HIDE DEF w, more, tree
<1> DEFINE n == node[fd]
<1>6. Tree(heap, n, nvf[fd].root, nvf[fd].height, Mapped(fd)) /\ nvf[fd].root # NULL
  BY DEF Trees, FilesInv
<1> HIDE DEF n
<1>7. PICK n2 : /\ HeapOK(tree.heap) /\ Tree(tree.heap, n2, tree.root, tree.height, more)
                /\ tree.root # NULL /\ Extends(heap, n, tree.heap, n2)
                /\ AddsChunk(heap, n, tree.heap, n2, Piece(offset, 0), w)
  <2>1. Mapped(fd) \subseteq more
    BY <1>4 DEF more
  <2> QED
    BY <1>5, <1>6, <2>1, TreeWithIs DEF tree
<1>8. Extends(heap, n, heap', n2)
  BY <1>1, <1>7
<1>9. ASSUME NEW g \in Fds \ {fd}
      PROVE  /\ \A a \in Nodes(node[g]) : a \in DOMAIN heap' /\ heap'[a] = heap[a]
             /\ Nodes(n2) \cap Nodes(node[g]) = {}
  <2>1. Nodes(node[g]) \cap Nodes(n) = {}
    BY DEF Trees, n
  <2>2. Nodes(node[g]) \subseteq DOMAIN heap
    <3>1. Tree(heap, node[g], nvf[g].root, nvf[g].height, Mapped(g))
      BY DEF Trees
    <3> QED
      BY <3>1, NodeFacts
  <2> QED
    BY <1>8, <2>1, <2>2 DEF Extends
<1>10. ASSUME NEW a \in DOMAIN heap', a \notin Nodes(n2), \A g \in Fds \ {fd} : a \notin Nodes(node[g]),
              NEW s \in Slots
       PROVE  heap'[a][s] \notin Addresses
  <2>1. a \in DOMAIN heap /\ a \notin Nodes(n) /\ heap'[a] = heap[a]
    BY <1>8, <1>10 DEF Extends
  <2>2. \A g \in Fds : a \notin Nodes(node[g])
    BY <1>10, <2>1 DEF n
  <2> QED
    BY <2>1, <2>2 DEF Trees
<1>11. Tree(heap', n2, nvf[fd].root', nvf[fd].height', Mapped(fd)')
  BY <1>1, <1>2, <1>7 DEF more
<1> DEFINE node2 == [g \in Fds |-> IF g = fd THEN n2 ELSE node[g]]
<1>12. /\ Trees(node2)'
       /\ \A g \in Fds \ {fd} : \A c \in Nat :
              Content(heap', node2[g], c) = Content(heap, node[g], c)
  BY <1>2, <1>4, <1>9, <1>10, <1>11, OneTree
<1>13. \A c \in Nat : Content(heap', node2[fd], c) =
                          IF c = Piece(offset, 0) THEN w ELSE Content(heap, node[fd], c)
  BY <1>1, <1>7 DEF n, AddsChunk
<1>14. HeapOK(heap)' /\ nvf'[fd].root # NULL
  BY <1>1, <1>2, <1>7
<1> HIDE DEF node2
<1>15. \A g \in Fds : \A c \in Nat :
           Content(heap', node2[g], c) = IF g = fd /\ c = Piece(offset, 0) THEN w
                                         ELSE Content(heap, node[g], c)
  BY <1>12, <1>13
<1> QED
  BY <1>12, <1>14, <1>15 DEF w

(* A call that leaves the tables alone.                                    *)
LEMMA SameTrees ==
    ASSUME NEW node, Trees(node), HeapOK(heap), UNCHANGED <<heap, maps, kernel>>,
           \A g \in Fds : nvf[g].root' = nvf[g].root /\ nvf[g].height' = nvf[g].height
    PROVE  HeapOK(heap)' /\ Trees(node)'
<1>1. \A g \in Fds : Mapped(g)' = Mapped(g)
  BY DEF Mapped
<1>2. \A g \in Fds : Tree(heap', node[g], nvf[g].root', nvf[g].height', Mapped(g)')
  BY <1>1 DEF Trees
<1>3. HeapOK(heap)'
  OBVIOUS
<1> QED
  BY <1>2, <1>3 DEF Trees

(* A descriptor that is opened gets a tree of its own, which is empty.     *)
LEMMA OpenTrees ==
    ASSUME TypeOK, HeapOK(heap), FilesInv, NEW node, Trees(node), NEW fd \in Fds,
           NEW path, NEW oflag, open1(fd, path, oflag)
    PROVE  \E node2 :
               /\ HeapOK(heap)' /\ Trees(node2)' /\ nvf'[fd].root # NULL
               /\ \A g \in Fds : \A c \in Nat :
                      Content(heap', node2[g], c) = Content(heap, node[g], c)
<1> DEFINE new == Fresh(heap)
           heap2 == WithTable(heap, new)
           ok == Mapped(fd)'
           n == node[fd]
<1>1. ~IsOpen(fd) /\ nvf[fd].root = NULL /\ nvf[fd].height = 0
  BY DEF open1, LowestFd, FilesInv
<1>2. /\ heap' = heap2 /\ maps' = maps
      /\ nvf'[fd].root = new /\ nvf'[fd].height = 0
      /\ \A g \in Fds \ {fd} : nvf'[g] = nvf[g] /\ kernel'[g] = kernel[g]
  BY <1>1 DEF open1, TypeOK
<1>3. PICK n2 : /\ HeapOK(heap2) /\ Tree(heap2, n2, new, 0, ok) /\ new # NULL
                /\ new \notin DOMAIN heap /\ DOMAIN heap2 = DOMAIN heap \cup {new}
                /\ \A a \in DOMAIN heap : heap2[a] = heap[a]
                /\ Nodes(n2) = {new}
                /\ \A c \in Nat : Content(heap2, n2, c) = NULL
  <2> HIDE DEF ok
  <2> QED
    BY NewTree
<1>4. Nodes(n) = {} /\ \A c \in Nat : Content(heap, n, c) = NULL
  <2>1. Tree(heap, n, NULL, 0, Mapped(fd))
    BY <1>1 DEF Trees
  <2> HIDE DEF n
  <2> QED
    BY <2>1, RootlessTree
<1> HIDE DEF new, heap2, ok
<1>5. \A g \in Fds \ {fd} : Mapped(g) \subseteq Mapped(g)'
  BY <1>2 DEF Mapped
<1>6. ASSUME NEW g \in Fds \ {fd}
      PROVE  /\ \A a \in Nodes(node[g]) : a \in DOMAIN heap' /\ heap'[a] = heap[a]
             /\ Nodes(n2) \cap Nodes(node[g]) = {}
  <2>1. Tree(heap, node[g], nvf[g].root, nvf[g].height, Mapped(g))
    BY DEF Trees
  <2>2. Nodes(node[g]) \subseteq DOMAIN heap
    BY <2>1, NodeFacts
  <2> QED
    BY <1>2, <1>3, <2>2
<1>7. ASSUME NEW a \in DOMAIN heap', a \notin Nodes(n2), \A g \in Fds \ {fd} : a \notin Nodes(node[g]),
             NEW s \in Slots
      PROVE  heap'[a][s] \notin Addresses
  <2>1. a \in DOMAIN heap /\ heap'[a] = heap[a]
    BY <1>2, <1>3, <1>7
  <2>2. \A g \in Fds : a \notin Nodes(node[g])
    BY <1>4, <1>7
  <2> QED
    BY <2>1, <2>2 DEF Trees
<1>8. Tree(heap', n2, nvf[fd].root', nvf[fd].height', Mapped(fd)')
  BY <1>2, <1>3 DEF ok
<1> DEFINE node2 == [g \in Fds |-> IF g = fd THEN n2 ELSE node[g]]
<1>9. /\ Trees(node2)'
      /\ \A g \in Fds \ {fd} : \A c \in Nat :
             Content(heap', node2[g], c) = Content(heap, node[g], c)
  BY <1>2, <1>5, <1>6, <1>7, <1>8, OneTree
<1>10. \A c \in Nat : Content(heap', node2[fd], c) = Content(heap, node[fd], c)
  BY <1>2, <1>3, <1>4
<1>11. HeapOK(heap)' /\ nvf'[fd].root # NULL
  BY <1>2, <1>3
<1> HIDE DEF node2
<1> QED
  BY <1>9, <1>10, <1>11

(* A descriptor that is closed has no tree any more.  The leaves it leaves *)
(* behind point to no table.                                               *)
LEMMA CloseTrees ==
    ASSUME TypeOK, HeapOK(heap), FilesInv, NEW node, Trees(node), NEW fd \in Fds, close1(fd)
    PROVE  \E node2 :
               /\ HeapOK(heap)' /\ Trees(node2)'
               /\ \A g \in Fds : \A c \in Nat :
                      Content(heap', node2[g], c) =
                          IF g = fd THEN NULL ELSE Content(heap, node[g], c)
<1> DEFINE n == node[fd]
           rt == nvf[fd].root
           ht == nvf[fd].height
           ok == Mapped(fd)
           heap2 == free_file(heap, rt, ht)
<1>1. /\ heap' = heap2 /\ maps' = maps
      /\ nvf'[fd].root = NULL /\ nvf'[fd].height = 0
      /\ \A g \in Fds \ {fd} : nvf'[g] = nvf[g] /\ kernel'[g] = kernel[g]
  BY DEF close1, TypeOK
<1>2. Tree(heap, n, rt, ht, ok)
  BY DEF Trees
<1> HIDE DEF n, rt, ht, ok
<1>3. /\ HeapOK(heap2)
      /\ DOMAIN heap2 \subseteq DOMAIN heap /\ DOMAIN heap \ DOMAIN heap2 \subseteq Nodes(n)
      /\ DOMAIN heap2 \cap Nodes(n) \subseteq NodesAt(n, 0)
      /\ \A a \in DOMAIN heap2 : heap2[a] = heap[a]
  BY <1>2, FreedTables
<1> HIDE DEF heap2
<1>0. PICK n2 : n2 = NoNodes
  OBVIOUS
<1>4. \A g \in Fds \ {fd} : Mapped(g) \subseteq Mapped(g)'
  BY <1>1 DEF Mapped
<1>5. ASSUME NEW g \in Fds \ {fd}
      PROVE  /\ \A a \in Nodes(node[g]) : a \in DOMAIN heap' /\ heap'[a] = heap[a]
             /\ Nodes(n2) \cap Nodes(node[g]) = {}
  <2>1. Tree(heap, node[g], nvf[g].root, nvf[g].height, Mapped(g))
    BY DEF Trees
  <2>2. Nodes(node[g]) \subseteq DOMAIN heap
    BY <2>1, NodeFacts
  <2>3. Nodes(node[g]) \cap Nodes(n) = {}
    BY DEF Trees, n
  <2> QED
    BY <1>0, <1>1, <1>3, <2>2, <2>3, EmptyTree
<1>6. ASSUME NEW a \in DOMAIN heap', a \notin Nodes(n2), \A g \in Fds \ {fd} : a \notin Nodes(node[g]),
             NEW s \in Slots
      PROVE  heap'[a][s] \notin Addresses
  <2>1. a \in DOMAIN heap /\ heap'[a] = heap[a] /\ a \in DOMAIN heap2
    BY <1>1, <1>3
  <2>2. CASE a \notin Nodes(n)
    <3>1. \A g \in Fds : a \notin Nodes(node[g])
      BY <1>6, <2>2 DEF n
    <3> QED
      BY <2>1, <3>1 DEF Trees
  <2>3. CASE a \in Nodes(n)
    <3>1. PICK i \in Nat : n[0][i] = a /\ a # NULL
      <4>1. a \in NodesAt(n, 0)
        BY <1>3, <2>1, <2>3
      <4> QED
        BY <4>1, WordsDiffer DEF NodesAt
    <3>2. heap[a][s] # NULL => <<heap[a][s], i * FANOUT + s>> \in ok
      BY <1>2, <3>1 DEF Tree
    <3>3. \A p \in ok : p[1] \in Mappings
      <4>1. Len(maps) \in Nat
        BY DEF TypeOK
      <4> QED
        BY <4>1 DEF ok, Mapped, Mappings
    <3>4. heap[a][s] # NULL => heap[a][s] \in Mappings
      BY <3>2, <3>3
    <3> QED
      BY <2>1, <3>4, WordsDiffer
  <2> QED
    BY <2>2, <2>3
<1>7. Tree(heap', n2, nvf[fd].root', nvf[fd].height', Mapped(fd)')
  BY <1>0, <1>1, EmptyTree
<1> DEFINE node2 == [g \in Fds |-> IF g = fd THEN n2 ELSE node[g]]
<1>8. /\ Trees(node2)'
      /\ \A g \in Fds \ {fd} : \A c \in Nat :
             Content(heap', node2[g], c) = Content(heap, node[g], c)
  BY <1>1, <1>4, <1>5, <1>6, <1>7, OneTree
<1>9. \A c \in Nat : Content(heap', node2[fd], c) = NULL
  BY <1>0, EmptyTree
<1>10. HeapOK(heap)'
  BY <1>1, <1>3
<1> HIDE DEF node2
<1> QED
  BY <1>8, <1>9, <1>10

-----------------------------------------------------------------------------
(* The invariant *)

Records == [valid : BOOLEAN, canRead : BOOLEAN, canWrite : BOOLEAN,
            offset : 0 .. WORD - 1, length : 0 .. WORD - 1,
            root : {NULL} \cup Addresses, height : Nat]

(* A record of a descriptor, with a root that is a table in use or not.    *)
LEMMA RecordsNow ==
    ASSUME TypeOK, HeapOK(heap)
    PROVE  nvf \in [Fds -> Records]
<1>1. DOMAIN heap \subseteq Addresses /\ nvf \in [Fds -> NVFile]
  BY DEF HeapOK, TypeOK
<1>2. NVFile \subseteq Records
  BY <1>1 DEF NVFile, Records
<1> QED
  BY <1>1, <1>2

(* The types after a step, the roots by the trees.                         *)
LEMMA TypeNext ==
    ASSUME NEW node, Trees(node)', HeapOK(heap)', nvf' \in [Fds -> Records],
           maps' \in Seq([path : Paths, chunk : Nat, prot : SUBSET {"r", "w"}]),
           hit_count' \in Nat, mmap_count' \in Nat,
           kernel' \in [Fds -> {CLOSED} \cup [path : Paths, oflag : OpenFlags]],
           ret'.n \in 0 .. CHUNK, aborted' \in BOOLEAN
    PROVE  TypeOK'
<1>1. \A fd \in Fds : nvf'[fd].root \in {NULL} \cup DOMAIN heap' /\ nvf'[fd].height \in Nat
  <2> SUFFICES ASSUME NEW fd \in Fds
               PROVE  nvf'[fd].root \in {NULL} \cup DOMAIN heap' /\ nvf'[fd].height \in Nat
    OBVIOUS
  <2>1. Tree(heap', node[fd], nvf'[fd].root, nvf'[fd].height, Mapped(fd)')
    BY DEF Trees
  <2> QED
    BY <2>1 DEF Tree
<1>2. nvf' \in [Fds -> NVFile']
  <2>1. \A fd \in Fds : nvf'[fd] \in NVFile'
    <3> SUFFICES ASSUME NEW fd \in Fds PROVE nvf'[fd] \in NVFile'
      OBVIOUS
    <3>1. nvf'[fd] \in Records /\ nvf'[fd].root \in {NULL} \cup DOMAIN heap'
      BY <1>1
    <3> DEFINE r == nvf'[fd]
    <3>2. r \in Records /\ r.root \in {NULL} \cup DOMAIN heap'
      BY <3>1
    <3> HIDE DEF r
    <3>3. r \in NVFile'
      BY <3>2 DEF NVFile, Records
    <3> QED
      BY <3>3 DEF r
  <2> QED
    BY <2>1
<1>3. \A a \in DOMAIN heap' : DOMAIN (heap'[a]) = Slots
  BY DEF HeapOK
<1> QED
  BY <1>2, <1>3 DEF TypeOK

(* A call that changes no tree, but the offset of a descriptor perhaps.    *)
LEMMA QuietStep ==
    ASSUME IInv, UNCHANGED <<heap, maps, kernel>>, hit_count' \in Nat, mmap_count' \in Nat,
           aborted' \in BOOLEAN, ret'.n \in 0 .. CHUNK, RetInv',
           \/ nvf' = nvf
           \/ \E fd \in Fds : \E x \in 0 .. WORD - 1 : nvf' = [nvf EXCEPT ![fd].offset = x]
    PROVE  IInv'
<1>1. PICK node : Trees(node)
  BY DEF IInv
<1>2. nvf \in [Fds -> Records]
  BY RecordsNow DEF IInv
<1>3. /\ nvf' \in [Fds -> Records]
      /\ \A g \in Fds : /\ nvf'[g].root = nvf[g].root /\ nvf'[g].height = nvf[g].height
                        /\ nvf'[g].valid = nvf[g].valid /\ nvf'[g].length = nvf[g].length
  <2>1. CASE nvf' = nvf
    BY <1>2, <2>1
  <2>2. CASE \E fd \in Fds : \E x \in 0 .. WORD - 1 : nvf' = [nvf EXCEPT ![fd].offset = x]
    <3>1. PICK fd \in Fds : \E x \in 0 .. WORD - 1 : nvf' = [nvf EXCEPT ![fd].offset = x]
      BY <2>2
    <3>2. PICK x \in 0 .. WORD - 1 : nvf' = [nvf EXCEPT ![fd].offset = x]
      BY <3>1
    <3> DEFINE W == 0 .. WORD - 1
    <3>3. x \in W
      OBVIOUS
    <3> QED
      BY <1>2, <3>2, <3>3 DEF Records
  <2> QED
    BY <2>1, <2>2
<1>4. HeapOK(heap)' /\ Trees(node)'
  BY <1>1, <1>3, SameTrees DEF IInv
<1>5. TypeOK'
  <2>1. /\ maps' \in Seq([path : Paths, chunk : Nat, prot : SUBSET {"r", "w"}])
        /\ kernel' \in [Fds -> {CLOSED} \cup [path : Paths, oflag : OpenFlags]]
    BY DEF IInv, TypeOK
  <2> QED
    BY <1>3, <1>4, <2>1, TypeNext
<1>6. FilesInv'
  <2>1. \A fd \in Fds : IsOpen(fd)' <=> IsOpen(fd)
    BY DEF IsOpen
  <2> QED
    BY <1>3, <2>1 DEF IInv, FilesInv
<1> QED
  BY <1>4, <1>5, <1>6 DEF IInv

(* The calls that hand out nothing and change nothing else.                *)
LEMMA IdleStep ==
    ASSUME IInv, UNCHANGED <<heap, maps, hit_count, kernel>>, ret' = NoRead,
           mmap_count' \in Nat, aborted' \in BOOLEAN,
           \/ nvf' = nvf
           \/ \E fd \in Fds : \E x \in 0 .. WORD - 1 : nvf' = [nvf EXCEPT ![fd].offset = x]
    PROVE  IInv'
<1>1. hit_count' \in Nat
  BY DEF IInv, TypeOK
<1>2. ret'.n = 0
  BY DEF NoRead
<1>3. ret'.n \in 0 .. CHUNK
  BY <1>2, ChunkAssumption
<1>4. RetInv'
  BY <1>2 DEF RetInv
<1> QED
  BY <1>1, <1>3, <1>4, QuietStep

(* The offset after a read is a word.                                      *)
LEMMA AdvancedIsWord ==
    ASSUME TypeOK, NEW fd \in Fds, NEW m \in Nat, NEW advance
    PROVE  Advanced(nvf[fd], m, advance) \in 0 .. WORD - 1
<1> DEFINE o == nvf[fd].offset
<1>1. o \in 0 .. WORD - 1
  BY DEF TypeOK, NVFile
<1>2. Advanced(nvf[fd], m, advance) = IF advance THEN (o + m) % WORD ELSE o
  BY DEF Advanced
<1> HIDE DEF o
<1>3. o \in Int /\ o + m \in Int
  BY <1>1, WordFacts
<1>4. (o + m) % WORD \in 0 .. WORD - 1
  BY <1>3, WordFacts
<1> QED
  BY <1>1, <1>2, <1>4

(* A read that finds its chunk mapped.                                     *)
LEMMA HitStep ==
    ASSUME IInv, NEW fd \in Fds, IsOpen(fd), NEW size \in 0 .. WORD - 1,
           NEW offset \in 0 .. WORD - 1, NEW advance, Hit(fd, size, offset, advance)
    PROVE  IInv'
<1> DEFINE length == ReadLength(fd, size, offset)
           found == LookupChunk(fd, offset)
<1>1. /\ length # 0 /\ found # NULL /\ ret' = Bytes(fd, offset, length, found)
      /\ hit_count' = hit_count + 1
      /\ nvf' = [nvf EXCEPT ![fd].offset = Advanced(nvf[fd], ret'.n, advance)]
      /\ UNCHANGED <<heap, maps, mmap_count, kernel, aborted>>
  BY DEF Hit
<1>2. TypeOK /\ HeapOK(heap) /\ FilesInv /\ offset \in Nat
  BY WordFacts DEF IInv
<1>3. length \in Nat /\ length > 0 /\ offset + length <= FileLength[kernel[fd].path]
      /\ kernel[fd].path \in Paths
  BY <1>1, <1>2, ReadFacts
<1>4. PICK k \in 1 .. Len(maps) : /\ found = Mapping(k)
                                  /\ maps[k].path = kernel[fd].path
                                  /\ maps[k].chunk = Piece(offset, 0)
  <2>1. PICK node : Trees(node)
    BY DEF IInv
  <2> QED
    BY <1>1, <1>2, <2>1, HitFacts
<1> HIDE DEF length, found
<1> DEFINE b == Bytes(fd, offset, length, found)
<1>5. /\ b.fd = fd /\ b.map = found /\ b.from = offset
      /\ b.n \in 0 .. CHUNK /\ b.n > 0 /\ b.n <= length
      /\ b.at \in Nat /\ b.at + b.n <= CHUNK
      /\ Piece(offset, 0) * CHUNK + b.at = offset
  BY <1>2, <1>3, BytesFacts
<1> HIDE DEF b
<1>6. ret' = b
  BY <1>1 DEF b
<1>7. RetInv'
  <2>1. FileLength[kernel[fd].path] \in Nat
    BY <1>3, LengthAssumption
  <2>2. b.from + b.n <= FileLength[maps[k].path]
    BY <1>2, <1>3, <1>4, <1>5, <2>1, ChunkAssumption
  <2>3. /\ b.map = Mapping(k) /\ maps[k].path = kernel[fd].path
        /\ maps[k].chunk * CHUNK + b.at = b.from
    BY <1>4, <1>5
  <2>4. maps' = maps /\ kernel' = kernel
    BY <1>1
  <2>5. IsOpen(fd)'
    BY <2>4 DEF IsOpen
  <2> QED
    BY <1>4, <1>5, <1>6, <2>2, <2>3, <2>4, <2>5 DEF RetInv
<1>8. \E x \in 0 .. WORD - 1 : nvf' = [nvf EXCEPT ![fd].offset = x]
  <2>1. ret'.n \in Nat
    BY <1>5, <1>6, ChunkAssumption
  <2>2. Advanced(nvf[fd], ret'.n, advance) \in 0 .. WORD - 1
    BY <1>2, <2>1, AdvancedIsWord
  <2> QED
    BY <1>1, <2>2
<1>9. hit_count' \in Nat /\ mmap_count' \in Nat /\ aborted' \in BOOLEAN
  <2>1. hit_count \in Nat /\ mmap_count \in Nat /\ aborted \in BOOLEAN
    BY <1>2 DEF TypeOK
  <2>2. aborted' \in BOOLEAN
    BY <1>1, <2>1, Zenon
  <2> QED
    BY <1>1, <2>1, <2>2
<1>10. ret'.n \in 0 .. CHUNK
  BY <1>5, <1>6
<1> QED
  BY <1>1, <1>7, <1>8, <1>9, <1>10, QuietStep

(* A read that maps its chunk.                                             *)
LEMMA MissStep ==
    ASSUME IInv, NEW fd \in Fds, IsOpen(fd), NEW size \in 0 .. WORD - 1,
           NEW offset \in 0 .. WORD - 1, NEW advance, Miss(fd, size, offset, advance)
    PROVE  IInv'
<1> DEFINE length == ReadLength(fd, size, offset)
           k == Len(maps) + 1
           w == Mapping(k)
           tree == TreeWith(fd, offset, w)
           last == [path |-> kernel[fd].path, chunk |-> offset \div CHUNK, prot |-> Perms(fd)]
           x == Advanced(nvf[fd], ret'.n, advance)
<1>1. /\ length # 0 /\ ret' = Bytes(fd, offset, length, w)
      /\ mmap_count' = mmap_count + 1
      /\ maps' = Append(maps, last)
      /\ nvf' = [nvf EXCEPT ![fd].root = tree.root, ![fd].height = tree.height,
                            ![fd].offset = x]
      /\ UNCHANGED <<hit_count, kernel, aborted>>
  BY DEF Miss
<1>2. TypeOK /\ HeapOK(heap) /\ FilesInv /\ offset \in Nat
  BY WordFacts DEF IInv
<1>3. length \in Nat /\ length > 0 /\ offset + length <= FileLength[kernel[fd].path]
      /\ kernel[fd].path \in Paths
  BY <1>1, <1>2, ReadFacts
<1>4. PICK node : Trees(node)
  BY DEF IInv
<1>5. PICK node2 : HeapOK(heap)' /\ Trees(node2)' /\ nvf'[fd].root # NULL
  BY <1>2, <1>4, MissTrees
<1> HIDE DEF length, w, tree, x
<1> DEFINE b == Bytes(fd, offset, length, w)
<1>6. /\ b.fd = fd /\ b.map = w /\ b.from = offset
      /\ b.n \in 0 .. CHUNK /\ b.n > 0 /\ b.n <= length
      /\ b.at \in Nat /\ b.at + b.n <= CHUNK
      /\ Piece(offset, 0) * CHUNK + b.at = offset
      /\ Piece(offset, 0) = offset \div CHUNK /\ Piece(offset, 0) \in Nat
  BY <1>2, <1>3, BytesFacts
<1> HIDE DEF b
<1>7. ret' = b
  BY <1>1 DEF b
<1>8. /\ maps \in Seq([path : Paths, chunk : Nat, prot : SUBSET {"r", "w"}])
      /\ last \in [path : Paths, chunk : Nat, prot : SUBSET {"r", "w"}]
  <2>1. Perms(fd) \in SUBSET {"r", "w"}
    BY DEF Perms
  <2> QED
    BY <1>2, <1>3, <1>6, <2>1 DEF TypeOK
<1>9. /\ maps' \in Seq([path : Paths, chunk : Nat, prot : SUBSET {"r", "w"}])
      /\ k \in 1 .. Len(maps') /\ maps'[k].path = kernel[fd].path
      /\ maps'[k].chunk = Piece(offset, 0)
  <2>1. maps'[k] = last /\ Len(maps') = k /\ k \in Nat /\ k >= 1
    BY <1>1, <1>8
  <2> QED
    BY <1>1, <1>6, <1>8, <2>1
<1> HIDE DEF last, k
<1>10. RetInv'
  <2>1. FileLength[kernel[fd].path] \in Nat
    BY <1>3, LengthAssumption
  <2>2. b.from + b.n <= FileLength[maps'[k].path]
    <3>1. b.from + b.n <= FileLength[kernel[fd].path]
      BY <1>2, <1>3, <1>6, <2>1, ChunkAssumption
    <3> QED
      BY <1>9, <3>1
  <2>3. /\ b.map = Mapping(k) /\ maps'[k].path = kernel'[fd].path
        /\ maps'[k].chunk * CHUNK + b.at = b.from
    BY <1>1, <1>6, <1>9 DEF w
  <2>4. IsOpen(fd)'
    BY <1>1 DEF IsOpen
  <2> QED
    BY <1>6, <1>7, <1>9, <2>2, <2>3, <2>4 DEF RetInv
<1>11. /\ nvf' \in [Fds -> Records]
       /\ nvf'[fd].valid = nvf[fd].valid /\ nvf'[fd].length = nvf[fd].length
       /\ \A g \in Fds \ {fd} : nvf'[g] = nvf[g]
  <2>1. nvf \in [Fds -> Records]
    BY <1>2, RecordsNow
  <2> DEFINE W == 0 .. WORD - 1
             R == {NULL} \cup Addresses
  <2>2. x \in W
    <3>1. ret'.n \in Nat
      BY <1>6, <1>7, ChunkAssumption
    <3> QED
      BY <1>2, <3>1, AdvancedIsWord DEF x
  <2>3. nvf'[fd].root = tree.root /\ nvf'[fd].height = tree.height
    BY <1>1, <2>1 DEF Records
  <2>4. tree.root \in R /\ tree.height \in Nat
    <3>1. Tree(heap', node2[fd], nvf'[fd].root, nvf'[fd].height, Mapped(fd)')
      BY <1>5 DEF Trees
    <3>2. nvf'[fd].height \in Nat /\ nvf'[fd].root \in {NULL} \cup DOMAIN heap'
      BY <3>1 DEF Tree
    <3> QED
      BY <1>5, <2>3, <3>2 DEF HeapOK
  <2>5. Records = [valid : BOOLEAN, canRead : BOOLEAN, canWrite : BOOLEAN,
                   offset : W, length : W, root : R, height : Nat]
    BY DEF Records
  <2> HIDE DEF W, R
  <2>6. nvf' = [nvf EXCEPT ![fd].offset = x, ![fd].root = tree.root, ![fd].height = tree.height]
    BY <1>1
  <2>7. [nvf[fd] EXCEPT !.offset = x, !.root = tree.root, !.height = tree.height] \in Records
    <3>1. nvf[fd] \in Records
      BY <2>1
    <3> QED
      BY <2>2, <2>4, <2>5, <3>1
  <2>8. nvf'[fd] = [nvf[fd] EXCEPT !.offset = x, !.root = tree.root, !.height = tree.height]
    BY <2>1, <2>6
  <2>9. nvf' \in [Fds -> Records]
    BY <2>1, <2>6, <2>7
  <2>10. nvf[fd] \in Records
    BY <2>1
  <2>11. nvf'[fd].valid = nvf[fd].valid /\ nvf'[fd].length = nvf[fd].length
    BY <2>5, <2>8, <2>10
  <2> QED
    BY <2>1, <2>6, <2>9, <2>11
<1>12. TypeOK'
  <2>1. hit_count \in Nat /\ mmap_count \in Nat /\ aborted \in BOOLEAN
        /\ kernel \in [Fds -> {CLOSED} \cup [path : Paths, oflag : OpenFlags]]
    BY <1>2 DEF TypeOK
  <2>2. aborted' \in BOOLEAN
    BY <1>1, <2>1, Zenon
  <2>3. hit_count' \in Nat /\ mmap_count' \in Nat
        /\ kernel' \in [Fds -> {CLOSED} \cup [path : Paths, oflag : OpenFlags]]
    BY <1>1, <2>1
  <2>4. ret'.n \in 0 .. CHUNK
    BY <1>6, <1>7
  <2> QED
    BY <1>5, <1>9, <1>11, <2>2, <2>3, <2>4, TypeNext
<1>13. FilesInv'
  <2>1. \A g \in Fds : IsOpen(g)' <=> IsOpen(g)
    BY <1>1 DEF IsOpen
  <2>2. kernel' = kernel
    BY <1>1
  <2> QED
    BY <1>2, <1>5, <1>11, <2>1, <2>2 DEF FilesInv
<1> QED
  BY <1>5, <1>10, <1>12, <1>13 DEF IInv

(* Opening a file.                                                         *)
LEMMA OpenStep ==
    ASSUME IInv, NEW fd \in Fds, NEW path \in Paths, NEW oflag \in OpenFlags,
           open1(fd, path, oflag)
    PROVE  IInv'
<1> DEFINE r == nvf'[fd]
           entry == [path |-> path, oflag |-> oflag]
<1>1. /\ UNCHANGED <<maps, hit_count, mmap_count, aborted>> /\ ret' = NoRead
      /\ kernel' = [kernel EXCEPT ![fd] = entry]
  BY DEF open1
<1>2. TypeOK /\ HeapOK(heap) /\ FilesInv
  BY DEF IInv
<1>3. PICK node : Trees(node)
  BY DEF IInv
<1>4. PICK node2 : HeapOK(heap)' /\ Trees(node2)' /\ r.root # NULL
  BY <1>2, <1>3, OpenTrees
<1>5. /\ kernel' \in [Fds -> {CLOSED} \cup [path : Paths, oflag : OpenFlags]]
      /\ kernel'[fd] = entry /\ kernel'[fd] # CLOSED /\ kernel'[fd].path = path
      /\ \A g \in Fds \ {fd} : kernel'[g] = kernel[g]
  BY <1>1, <1>2, PathsAssumption DEF TypeOK, CLOSED
<1>6. /\ DOMAIN nvf' = Fds /\ nvf' = [g \in Fds |-> nvf'[g]]
      /\ \A g \in Fds \ {fd} : nvf'[g] = nvf[g] /\ nvf'[g] \in Records
      /\ r = [valid |-> TRUE, offset |-> 0, length |-> FileLength[path],
              canRead |-> HasFlag(oflag, O_RDWR) \/
                          (~HasFlag(oflag, O_WRONLY) /\ HasFlag(oflag, O_RDONLY)),
              canWrite |-> HasFlag(oflag, O_RDWR) \/ HasFlag(oflag, O_WRONLY),
              root |-> r.root, height |-> nvf[fd].height]
  <2>1. nvf \in [Fds -> Records]
    BY <1>2, RecordsNow
  <2> QED
    BY <2>1 DEF open1
<1>7. r.valid = TRUE /\ r.length = FileLength[path] /\ r.height = nvf[fd].height
  BY <1>6
<1>8. r \in Records
  <2>1. FileLength[path] \in 0 .. WORD - 1
    <3>1. FileLength[path] \in 0 .. (WORD \div 2) - 1
      BY LengthAssumption
    <3> QED
      BY <3>1, WordAssumption
  <2>2. r.height \in Nat /\ r.root \in {NULL} \cup Addresses
    <3>1. Tree(heap', node2[fd], r.root, r.height, Mapped(fd)')
      BY <1>4 DEF Trees
    <3>2. r.height \in Nat /\ r.root \in {NULL} \cup DOMAIN heap'
      BY <3>1 DEF Tree
    <3> QED
      BY <1>4, <3>2 DEF HeapOK
  <2> DEFINE cr == HasFlag(oflag, O_RDWR) \/
                   (~HasFlag(oflag, O_WRONLY) /\ HasFlag(oflag, O_RDONLY))
             cw == HasFlag(oflag, O_RDWR) \/ HasFlag(oflag, O_WRONLY)
             W == 0 .. WORD - 1
             R == {NULL} \cup Addresses
             rt == r.root
             ht == r.height
  <2>3. cr \in BOOLEAN /\ cw \in BOOLEAN
    OBVIOUS
  <2>4. r = [valid |-> TRUE, offset |-> 0, length |-> FileLength[path], canRead |-> cr,
             canWrite |-> cw, root |-> rt, height |-> ht]
    BY <1>6, <1>7
  <2>5. Records = [valid : BOOLEAN, canRead : BOOLEAN, canWrite : BOOLEAN,
                   offset : W, length : W, root : R, height : Nat]
    BY DEF Records
  <2>6. 0 \in W /\ FileLength[path] \in W /\ rt \in R /\ ht \in Nat
    BY <2>1, <2>2, WordFacts
  <2> HIDE DEF W, R, cr, cw, rt, ht, r
  <2> QED
    BY <2>3, <2>4, <2>5, <2>6
<1>9. nvf' \in [Fds -> Records]
  BY <1>6, <1>8
<1> HIDE DEF r
<1>10. ret'.n = 0
  BY <1>1 DEF NoRead
<1>11. TypeOK'
  <2>1. /\ hit_count \in Nat /\ mmap_count \in Nat /\ aborted \in BOOLEAN
        /\ maps \in Seq([path : Paths, chunk : Nat, prot : SUBSET {"r", "w"}])
    BY <1>2 DEF TypeOK
  <2>2. aborted' \in BOOLEAN
    BY <1>1, <2>1, Zenon
  <2>3. /\ hit_count' \in Nat /\ mmap_count' \in Nat
        /\ maps' \in Seq([path : Paths, chunk : Nat, prot : SUBSET {"r", "w"}])
    BY <1>1, <2>1
  <2>4. ret'.n \in 0 .. CHUNK
    BY <1>10, ChunkAssumption
  <2> QED
    BY <1>4, <1>5, <1>9, <2>2, <2>3, <2>4, TypeNext
<1>12. FilesInv'
  <2>1. \A g \in Fds \ {fd} : IsOpen(g)' <=> IsOpen(g)
    BY <1>5 DEF IsOpen
  <2>2. IsOpen(fd)'
    BY <1>5 DEF IsOpen
  <2>3. nvf'[fd].valid = TRUE /\ nvf'[fd].length = FileLength[path] /\ nvf'[fd].root # NULL
    BY <1>4, <1>7 DEF r
  <2> QED
    BY <1>2, <1>5, <1>6, <2>1, <2>2, <2>3 DEF FilesInv
<1>13. RetInv'
  BY <1>10 DEF RetInv
<1> QED
  BY <1>4, <1>11, <1>12, <1>13 DEF IInv

(* Closing one.                                                            *)
LEMMA CloseStep ==
    ASSUME IInv, NEW fd \in Fds, close1(fd)
    PROVE  IInv'
<1>1. /\ UNCHANGED <<maps, hit_count, mmap_count, aborted>> /\ ret' = NoRead
      /\ kernel' = [kernel EXCEPT ![fd] = CLOSED]
      /\ nvf' = [nvf EXCEPT ![fd].valid = FALSE, ![fd].root = NULL, ![fd].height = 0]
  BY DEF close1
<1>2. TypeOK /\ HeapOK(heap) /\ FilesInv
  BY DEF IInv
<1>3. PICK node : Trees(node)
  BY DEF IInv
<1>4. PICK node2 : HeapOK(heap)' /\ Trees(node2)'
  BY <1>2, <1>3, CloseTrees
<1>5. /\ kernel' \in [Fds -> {CLOSED} \cup [path : Paths, oflag : OpenFlags]]
      /\ kernel'[fd] = CLOSED
      /\ \A g \in Fds \ {fd} : kernel'[g] = kernel[g]
  BY <1>1, <1>2 DEF TypeOK
<1>6. /\ nvf' \in [Fds -> Records]
      /\ \A g \in Fds \ {fd} : nvf'[g] = nvf[g]
      /\ nvf'[fd].valid = FALSE /\ nvf'[fd].root = NULL /\ nvf'[fd].height = 0
  <2>1. nvf \in [Fds -> Records]
    BY <1>2, RecordsNow
  <2> DEFINE shut == [nvf[fd] EXCEPT !.valid = FALSE, !.root = NULL, !.height = 0]
  <2>2. /\ shut \in Records
        /\ shut.valid = FALSE /\ shut.root = NULL /\ shut.height = 0
    <3>1. nvf[fd] \in Records
      BY <2>1
    <3> QED
      BY <3>1 DEF Records
  <2>3. nvf' = [nvf EXCEPT ![fd] = shut]
    BY <1>1, <2>1
  <2> HIDE DEF shut
  <2> QED
    BY <2>1, <2>2, <2>3
<1>7. ret'.n = 0
  BY <1>1 DEF NoRead
<1>8. TypeOK'
  <2>1. /\ hit_count \in Nat /\ mmap_count \in Nat /\ aborted \in BOOLEAN
        /\ maps \in Seq([path : Paths, chunk : Nat, prot : SUBSET {"r", "w"}])
    BY <1>2 DEF TypeOK
  <2>2. aborted' \in BOOLEAN
    BY <1>1, <2>1, Zenon
  <2>3. /\ hit_count' \in Nat /\ mmap_count' \in Nat
        /\ maps' \in Seq([path : Paths, chunk : Nat, prot : SUBSET {"r", "w"}])
    BY <1>1, <2>1
  <2>4. ret'.n \in 0 .. CHUNK
    BY <1>7, ChunkAssumption
  <2> QED
    BY <1>4, <1>5, <1>6, <2>2, <2>3, <2>4, TypeNext
<1>9. FilesInv'
  <2>1. \A g \in Fds \ {fd} : IsOpen(g)' <=> IsOpen(g)
    BY <1>5 DEF IsOpen
  <2>2. ~IsOpen(fd)'
    BY <1>5 DEF IsOpen
  <2> QED
    BY <1>2, <1>5, <1>6, <2>1, <2>2 DEF FilesInv
<1>10. RetInv'
  BY <1>7 DEF RetInv
<1> QED
  BY <1>4, <1>8, <1>9, <1>10 DEF IInv

(* A whole call of read1 or pread1.                                        *)
LEMMA ReadStep ==
    ASSUME IInv, NEW fd \in Fds, IsOpen(fd), NEW size \in 0 .. WORD - 1,
           NEW offset \in 0 .. WORD - 1, NEW advance, do_pread(fd, size, offset, advance)
    PROVE  IInv'
<1>1. CASE Nothing(fd, size, offset)
  <2>1. mmap_count \in Nat /\ aborted \in BOOLEAN
    BY DEF IInv, TypeOK
  <2>2. mmap_count' \in Nat
    BY <1>1, <2>1 DEF Nothing
  <2>3. aborted' \in BOOLEAN
    BY <1>1, <2>1, Zenon DEF Nothing
  <2>4. UNCHANGED <<heap, maps, hit_count, kernel>> /\ ret' = NoRead /\ nvf' = nvf
    BY <1>1 DEF Nothing
  <2> QED
    BY <2>2, <2>3, <2>4, IdleStep
<1>2. CASE Hit(fd, size, offset, advance)
  BY <1>2, HitStep
<1>3. CASE Miss(fd, size, offset, advance)
  BY <1>3, MissStep
<1>4. CASE MmapFails(fd, size, offset)
  <2>1. mmap_count \in Nat
    BY DEF IInv, TypeOK
  <2>2. mmap_count' \in Nat
    BY <1>4, <2>1 DEF MmapFails
  <2>3. aborted' \in BOOLEAN
    BY <1>4, Zenon DEF MmapFails
  <2>4. UNCHANGED <<heap, maps, hit_count, kernel>> /\ ret' = NoRead /\ nvf' = nvf
    BY <1>4 DEF MmapFails
  <2> QED
    BY <2>2, <2>3, <2>4, IdleStep
<1> QED
  BY <1>1, <1>2, <1>3, <1>4 DEF do_pread

(* Nothing is open at first. *)
LEMMA Initially == Init => IInv
<1> SUFFICES ASSUME Init PROVE IInv
  OBVIOUS
<1>1. heap = [a \in {} |-> EmptyTable] /\ DOMAIN heap = {}
  BY DEF Init
<1>2. HeapOK(heap)
  <2>1. IsFiniteSet({})
    BY FS_EmptySet
  <2> QED
    BY <1>1, <2>1 DEF HeapOK
<1>3. \A fd \in Fds : /\ nvf[fd].root = NULL /\ nvf[fd].height = 0 /\ nvf[fd].valid = FALSE
                      /\ ~IsOpen(fd)
  BY DEF Init, IsOpen
<1>4. ret.n = 0
  BY DEF Init, NoRead
<1>5. TypeOK
  <2>1. nvf \in [Fds -> NVFile]
    <3>1. 0 \in 0 .. WORD - 1
      BY WordFacts
    <3> DEFINE W == 0 .. WORD - 1
               R == {NULL} \cup DOMAIN heap
    <3>2. NVFile = [valid : BOOLEAN, canRead : BOOLEAN, canWrite : BOOLEAN,
                    offset : W, length : W, root : R, height : Nat]
      BY DEF NVFile
    <3>3. 0 \in W /\ NULL \in R
      BY <3>1
    <3> HIDE DEF W, R
    <3> QED
      BY <3>2, <3>3 DEF Init
  <2>2. maps \in Seq([path : Paths, chunk : Nat, prot : SUBSET {"r", "w"}])
    BY DEF Init
  <2>3. kernel \in [Fds -> {CLOSED} \cup [path : Paths, oflag : OpenFlags]]
    BY DEF Init
  <2>4. aborted \in BOOLEAN
    BY DEF Init
  <2>5. ret.n \in 0 .. CHUNK
    BY <1>4, ChunkAssumption
  <2>6. hit_count \in Nat /\ mmap_count \in Nat
    BY DEF Init
  <2> QED
    BY <1>1, <2>1, <2>2, <2>3, <2>4, <2>5, <2>6 DEF TypeOK
<1>6. FilesInv
  BY <1>3 DEF FilesInv
<1>7. RetInv
  BY <1>4 DEF RetInv
<1>8. Trees([fd \in Fds |-> NoNodes])
  <2> DEFINE node == [fd \in Fds |-> NoNodes]
  <2>1. \A fd \in Fds : node[fd] = NoNodes
    OBVIOUS
  <2> HIDE DEF node
  <2>2. \A fd \in Fds : Tree(heap, node[fd], nvf[fd].root, nvf[fd].height, Mapped(fd))
    BY <1>3, <2>1, EmptyTree
  <2>3. Trees(node)
    BY <1>1, <2>1, <2>2, EmptyTree DEF Trees
  <2> QED
    BY <2>3 DEF node
<1> QED
  BY <1>2, <1>5, <1>6, <1>7, <1>8 DEF IInv

(* Every call keeps the invariant. *)
LEMMA Step == IInv /\ [Next]_vars => IInv'
<1> SUFFICES ASSUME IInv, [Next]_vars PROVE IInv'
  OBVIOUS
<1>1. /\ hit_count \in Nat /\ mmap_count \in Nat /\ aborted \in BOOLEAN
      /\ ret.n \in 0 .. CHUNK /\ RetInv
      /\ \A fd \in Fds : nvf[fd].offset \in 0 .. WORD - 1 /\ nvf[fd].length \in 0 .. WORD - 1
  BY DEF IInv, TypeOK, NVFile
<1>2. CASE UNCHANGED vars
  <2>1. /\ UNCHANGED <<heap, maps, kernel>> /\ nvf' = nvf
        /\ hit_count' \in Nat /\ mmap_count' \in Nat /\ ret'.n \in 0 .. CHUNK
    BY <1>1, <1>2 DEF vars
  <2>2. aborted' \in BOOLEAN
    BY <1>1, <1>2, Zenon DEF vars
  <2>3. RetInv'
    BY <1>1, <1>2 DEF vars, RetInv, IsOpen
  <2> QED
    BY <2>1, <2>2, <2>3, QuietStep
<1>3. ASSUME NEW fd \in Fds, NEW size \in Sizes, read1(fd, size) PROVE IInv'
  <2>1. size \in 0 .. WORD - 1 /\ nvf[fd].offset \in 0 .. WORD - 1
    BY <1>1, CallersAssumption
  <2> QED
    BY <1>3, <2>1, ReadStep DEF read1
<1>4. ASSUME NEW fd \in Fds, NEW size \in Sizes, NEW offset \in Offsets, pread1(fd, size, offset)
      PROVE  IInv'
  <2>1. size \in 0 .. WORD - 1 /\ offset \in 0 .. WORD - 1
    BY CallersAssumption
  <2> QED
    BY <1>4, <2>1, ReadStep DEF pread1
<1>5. ASSUME NEW fd \in Fds, write1(fd) PROVE IInv'
  <2>1. UNCHANGED <<heap, maps, hit_count, kernel>> /\ ret' = NoRead /\ nvf' = nvf
        /\ mmap_count' \in Nat
    BY <1>1, <1>5 DEF write1
  <2>2. aborted' \in BOOLEAN
    BY <1>1, <1>5, Zenon DEF write1
  <2> QED
    BY <2>1, <2>2, IdleStep
<1>6. ASSUME NEW fd \in Fds, NEW seek \in Seeks, lseek1(fd, seek[1], seek[2]) PROVE IInv'
  <2> DEFINE o == nvf[fd].offset
             x == CASE seek[2] = "SEEK_SET" -> seek[1]
                    [] seek[2] = "SEEK_CUR" -> (o + seek[1]) % WORD
                    [] seek[2] = "SEEK_END" -> (nvf[fd].length + seek[1]) % WORD
                    [] OTHER -> o
  <2>1. UNCHANGED <<heap, maps, hit_count, kernel>> /\ ret' = NoRead /\ mmap_count' \in Nat
    BY <1>1, <1>6 DEF lseek1
  <2>2. aborted' \in BOOLEAN
    BY <1>1, <1>6, Zenon DEF lseek1
  <2>3. nvf' = [nvf EXCEPT ![fd].offset = x]
    <3>1. nvf \in [Fds -> NVFile]
      BY DEF IInv, TypeOK
    <3> QED
      BY <1>6, <3>1 DEF lseek1, NVFile
  <2>4. x \in 0 .. WORD - 1
    <3>1. seek[1] \in 0 .. WORD - 1 /\ o \in 0 .. WORD - 1 /\ nvf[fd].length \in 0 .. WORD - 1
      BY <1>1, CallersAssumption
    <3>2. (o + seek[1]) % WORD \in 0 .. WORD - 1 /\ (nvf[fd].length + seek[1]) % WORD \in 0 .. WORD - 1
      BY <3>1, WordFacts
    <3> HIDE DEF o
    <3> QED
      BY <3>1, <3>2
  <2> HIDE DEF x
  <2> QED
    BY <2>1, <2>2, <2>3, <2>4, IdleStep
<1>7. ASSUME NEW fd \in Fds, NEW opening \in Openings, open1(fd, opening[1], opening[2])
      PROVE  IInv'
  BY <1>7, OpenStep, CallersAssumption
<1>8. ASSUME NEW fd \in Fds, close1(fd) PROVE IInv'
  BY <1>8, CloseStep
<1> QED
  BY <1>2, <1>3, <1>4, <1>5, <1>6, <1>7, <1>8 DEF Next, Call

(* libnoposix keeps the invariant, whatever it is called with. *)
THEOREM Invariance == Spec => []IInv
<1> QED
  BY Initially, Step, PTL DEF Spec

(* The fields of a descriptor, the heap and the counters keep their types. *)
THEOREM AlwaysTyped == Spec => []TypeOK
<1>1. IInv => TypeOK
  BY DEF IInv
<1> QED
  BY <1>1, Invariance, PTL

-----------------------------------------------------------------------------
(* What the reads hand out *)

(* A read hands out a pointer into a mapping of its own file and chunk,    *)
(* and no bytes past the end of either.                                    *)
THEOREM ReadsTheFile == Spec => []BytesAreTheFiles
<1>1. IInv => BytesAreTheFiles
  <2> SUFFICES ASSUME IInv, ret.n > 0
               PROVE  LET m == maps[ret.map[2]] IN
                      /\ m.path = kernel[ret.fd].path
                      /\ m.chunk * CHUNK + ret.at = ret.from
                      /\ ret.at + ret.n <= CHUNK
                      /\ ret.from + ret.n <= FileLength[m.path]
    BY DEF BytesAreTheFiles
  <2>1. PICK k \in 1 .. Len(maps) :
            /\ ret.map = Mapping(k)
            /\ maps[k].path = kernel[ret.fd].path
            /\ maps[k].chunk * CHUNK + ret.at = ret.from
            /\ ret.at + ret.n <= CHUNK
            /\ ret.from + ret.n <= FileLength[maps[k].path]
    BY DEF IInv, RetInv
  <2>2. ret.map[2] = k
    BY <2>1 DEF Mapping
  <2> QED
    BY <2>1, <2>2
<1> QED
  BY <1>1, Invariance, PTL

-----------------------------------------------------------------------------
(* Where the tables hang *)

(* The tables of an open descriptor are its nodes. *)
LEMMA TreeOfIs ==
    ASSUME IInv, NEW node, Trees(node)
    PROVE  /\ OpenFds = {fd \in Fds : IsOpen(fd)}
           /\ \A fd \in Fds : Tree(heap, node[fd], nvf[fd].root, nvf[fd].height, Mapped(fd))
           /\ \A fd \in OpenFds : TreeOf(fd) = Nodes(node[fd]) /\ Nodes(node[fd]) \subseteq DOMAIN heap
           /\ \A fd \in Fds \ OpenFds : Nodes(node[fd]) = {}
           /\ Reachable = {a \in DOMAIN heap : \E fd \in Fds : a \in Nodes(node[fd])}
<1>1. HeapOK(heap) /\ FilesInv
  BY DEF IInv
<1>2. OpenFds = {fd \in Fds : IsOpen(fd)} /\ \A fd \in Fds \ OpenFds : ~IsOpen(fd)
  BY <1>1 DEF OpenFds, FilesInv
<1>3. ASSUME NEW fd \in Fds
      PROVE  Tree(heap, node[fd], nvf[fd].root, nvf[fd].height, Mapped(fd))
  BY DEF Trees
<1>4. ASSUME NEW fd \in Fds
      PROVE  TreeOf(fd) = Nodes(node[fd]) /\ Nodes(node[fd]) \subseteq DOMAIN heap
  BY <1>1, <1>3, TablesAreNodes, NodeFacts DEF TreeOf
<1>5. ASSUME NEW fd \in Fds \ OpenFds PROVE Nodes(node[fd]) = {}
  <2>1. nvf[fd].root = NULL /\ nvf[fd].height = 0
    BY <1>1, <1>2 DEF FilesInv
  <2>2. Tree(heap, node[fd], NULL, 0, Mapped(fd))
    BY <1>3, <2>1
  <2> QED
    BY <2>2, RootlessTree
<1>6. OpenFds \subseteq Fds
  BY DEF OpenFds
<1>7. Reachable = {a \in DOMAIN heap : \E fd \in Fds : a \in Nodes(node[fd])}
  BY <1>4, <1>5, <1>6 DEF Reachable
<1> QED
  BY <1>2, <1>3, <1>4, <1>5, <1>6, <1>7

(* A node that is no root hangs in exactly one slot, a root in none.       *)
LEMMA ParentIs ==
    ASSUME IInv, NEW node, Trees(node), NEW fd \in Fds, NEW h \in Nat, NEW i \in Nat,
           node[fd][h][i] # NULL
    PROVE  LET a == node[fd][h][i]
               hang == {w \in Reachable \X Slots : heap[w[1]][w[2]] = a}
           IN  IF h = nvf[fd].height THEN hang = {}
               ELSE hang = {<<node[fd][h + 1][i \div FANOUT], i % FANOUT>>}
<1> DEFINE a == node[fd][h][i]
           hang == {w \in Reachable \X Slots : heap[w[1]][w[2]] = a}
<1>1. /\ HeapOK(heap)
      /\ \A g \in Fds : Tree(heap, node[g], nvf[g].root, nvf[g].height, Mapped(g))
      /\ \A b \in Reachable : \E g \in Fds : b \in Nodes(node[g])
      /\ \A g \in Fds : Nodes(node[g]) \subseteq Reachable
  <2>1. \A g \in Fds : Nodes(node[g]) \subseteq DOMAIN heap
    BY TreeOfIs
  <2> QED
    BY <2>1, TreeOfIs DEF IInv
<1>2. \A g \in Fds : \A k, j \in Nat : node[g][k][j] # NULL =>
          node[g][k][j] \in Nodes(node[g]) /\ node[g][k][j] \in Addresses
  BY <1>1, NodeFacts
<1>3. i \div FANOUT \in Nat /\ i % FANOUT \in Slots /\ (i \div FANOUT) * FANOUT + (i % FANOUT) = i
      /\ h + 1 \in Nat
  BY SlotOfPiece
<1>4. ASSUME NEW b \in Reachable, NEW s \in Slots, heap[b][s] = a
      PROVE  h # nvf[fd].height /\ b = node[fd][h + 1][i \div FANOUT] /\ s = i % FANOUT
  <2>1. PICK g \in Fds : b \in Nodes(node[g])
    BY <1>1
  <2> DEFINE n == node[g]
             ht == nvf[g].height
  <2>2. Tree(heap, n, nvf[g].root, ht, Mapped(g))
    BY <1>1
  <2>3. PICK k \in Nat, j \in Nat : n[k][j] = b /\ b # NULL
    BY <2>1, WordsDiffer DEF Nodes
  <2>4. a \in Addresses /\ a # NULL
    BY <1>2
  <2>5. j * FANOUT + s \in Nat /\ (j * FANOUT + s) \div FANOUT = j /\ (j * FANOUT + s) % FANOUT = s
    BY SlotOfPiece
  <2>6. k # 0
    <3> SUFFICES ASSUME k = 0 PROVE FALSE
      OBVIOUS
    <3> HIDE DEF n, ht, a
    <3>1. <<heap[b][s], j * FANOUT + s>> \in Mapped(g)
      <4>1. n[0][j] = b
        BY <2>3
      <4>2. \A t \in Slots : heap[n[0][j]][t] # NULL => <<heap[n[0][j]][t], j * FANOUT + t>> \in Mapped(g)
        BY <2>2, <2>3, <4>1 DEF Tree
      <4> QED
        BY <1>4, <2>4, <4>1, <4>2
    <3>2. heap[b][s] \in Mappings
      <4>1. Len(maps) \in Nat
        BY DEF IInv, TypeOK
      <4> QED
        BY <3>1, <4>1 DEF Mapped, Mappings
    <3> QED
      BY <1>4, <2>4, <3>2, WordsDiffer
  <2>7. PICK l \in Nat : k = l + 1
    BY <2>6
  <2>8. n[l][j * FANOUT + s] = a
    <3> HIDE DEF n, ht, a
    <3>1. n[l + 1][j] = b
      BY <2>3, <2>7
    <3> QED
      BY <1>4, <2>2, <2>3, <3>1 DEF Tree
  <2>9. g = fd
    <3>1. a \in Nodes(node[g])
      BY <1>2, <2>4, <2>5, <2>8
    <3>2. a \in Nodes(node[fd])
      BY <1>2, <2>4
    <3> QED
      BY <3>1, <3>2 DEF Trees
  <2>10. l = h /\ j * FANOUT + s = i
    <3>1. n[h][i] = a
      BY <2>9
    <3> HIDE DEF n, ht, a
    <3> QED
      BY <2>2, <2>4, <2>5, <2>8, <3>1 DEF Tree
  <2>11. ~(h + 1 > ht)
    <3> HIDE DEF n, ht
    <3> QED
      BY <1>3, <2>2, <2>3, <2>7, <2>10 DEF Tree
  <2>12. h # nvf[fd].height
    <3>1. ht \in Nat
      BY <2>2 DEF Tree
    <3> QED
      BY <2>9, <2>11, <3>1
  <2> QED
    BY <2>3, <2>5, <2>7, <2>9, <2>10, <2>12
<1>5. CASE h = nvf[fd].height
  BY <1>4, <1>5
<1>6. CASE h # nvf[fd].height
  <2> DEFINE n == node[fd]
             b == n[h + 1][i \div FANOUT]
             s == i % FANOUT
  <2>1. Tree(heap, n, nvf[fd].root, nvf[fd].height, Mapped(fd))
    BY <1>1
  <2>2. b # NULL /\ heap[b][s] = a
    <3>1. a = n[h][i] /\ a # NULL
      OBVIOUS
    <3> HIDE DEF n, a
    <3>2. h < nvf[fd].height
      <4>1. nvf[fd].height \in Nat /\ ~(h > nvf[fd].height)
        BY <2>1, <3>1 DEF Tree
      <4> QED
        BY <1>6, <4>1
    <3>3. b # NULL
      BY <2>1, <3>1, <3>2 DEF Tree
    <3> QED
      BY <1>3, <2>1, <3>1, <3>3 DEF Tree
  <2>3. b \in Reachable /\ s \in Slots
    <3>1. b \in Nodes(node[fd])
      BY <1>2, <1>3, <2>2
    <3>2. Nodes(node[fd]) \subseteq Reachable
      BY <1>1
    <3>3. s \in Slots
      BY <1>3
    <3> HIDE DEF b, s
    <3> QED
      BY <3>1, <3>2, <3>3
  <2>4. <<b, s>> \in hang
    BY <2>2, <2>3
  <2>5. hang \subseteq {<<b, s>>}
    <3> SUFFICES ASSUME NEW w \in hang PROVE w = <<b, s>>
      OBVIOUS
    <3>1. PICK u \in Reachable, t \in Slots : w = <<u, t>>
      OBVIOUS
    <3>2. heap[u][t] = a
      BY <3>1
    <3> QED
      BY <1>4, <3>1, <3>2
  <2> QED
    BY <1>6, <2>4, <2>5
<1> QED
  BY <1>5, <1>6

(* No table is in two trees, and each hangs where it belongs.              *)
THEOREM TreesStayApart == Spec => []TreesApart
<1>1. IInv => TreesApart
  <2> SUFFICES ASSUME IInv PROVE TreesApart
    OBVIOUS
  <2>1. PICK node : Trees(node)
    BY DEF IInv
  <2>2. /\ OpenFds \subseteq Fds
        /\ \A fd \in Fds : Tree(heap, node[fd], nvf[fd].root, nvf[fd].height, Mapped(fd))
        /\ \A fd \in OpenFds : TreeOf(fd) = Nodes(node[fd]) /\ Nodes(node[fd]) \subseteq DOMAIN heap
        /\ \A fd \in Fds \ OpenFds : Nodes(node[fd]) = {}
        /\ \A a \in Reachable : a \in DOMAIN heap /\ \E fd \in Fds : a \in Nodes(node[fd])
    BY <2>1, TreeOfIs
  <2>3. \A fd \in OpenFds : TreeOf(fd) \subseteq DOMAIN heap
    BY <2>2
  <2>4. \A fd, g \in OpenFds : fd # g => TreeOf(fd) \cap TreeOf(g) = {}
    BY <2>1, <2>2 DEF Trees
  <2>5. ASSUME NEW a \in Reachable
        PROVE  Cardinality({w \in Reachable \X Slots : heap[w[1]][w[2]] = a})
                   = IF \E fd \in OpenFds : nvf[fd].root = a THEN 0 ELSE 1
    <3> DEFINE hang == {w \in Reachable \X Slots : heap[w[1]][w[2]] = a}
    <3>1. PICK fd \in Fds : a \in Nodes(node[fd])
      BY <2>2
    <3> DEFINE n == node[fd]
    <3>2. PICK h \in Nat, i \in Nat : n[h][i] = a
      BY <3>1 DEF Nodes
    <3>3. a # NULL
      BY <3>1, WordsDiffer DEF Nodes
    <3>4. /\ h = nvf[fd].height => hang = {}
          /\ h # nvf[fd].height => hang = {<<n[h + 1][i \div FANOUT], i % FANOUT>>}
      <4>1. node[fd][h][i] # NULL /\ node[fd][h][i] = a
        BY <3>2, <3>3
      <4>2. LET b == node[fd][h][i]
                hung == {w \in Reachable \X Slots : heap[w[1]][w[2]] = b}
            IN  IF h = nvf[fd].height THEN hung = {}
                ELSE hung = {<<node[fd][h + 1][i \div FANOUT], i % FANOUT>>}
        BY <2>1, <4>1, ParentIs
      <4> QED
        BY <4>1, <4>2
    <3>5. (\E g \in OpenFds : nvf[g].root = a) <=> h = nvf[fd].height
      <4>0. fd \in OpenFds
        BY <2>2, <3>1
      <4>1. ASSUME h = nvf[fd].height PROVE nvf[fd].root = a
        <5>1. Tree(heap, n, nvf[fd].root, nvf[fd].height, Mapped(fd))
          BY <2>2
        <5> HIDE DEF n
        <5> QED
          BY <3>2, <3>3, <4>1, <5>1 DEF Tree
      <4>2. ASSUME NEW g \in OpenFds, nvf[g].root = a PROVE h = nvf[fd].height
        <5> DEFINE m == node[g]
        <5>1. g \in Fds /\ Tree(heap, m, nvf[g].root, nvf[g].height, Mapped(g))
          BY <2>2
        <5> HIDE DEF m
        <5>2. m[nvf[g].height][0] = a /\ nvf[g].height \in Nat
          BY <4>2, <5>1 DEF Tree
        <5>3. a \in Nodes(m)
          BY <3>1, <5>2 DEF Nodes
        <5>4. g = fd
          BY <2>1, <3>1, <5>1, <5>3 DEF Trees, m
        <5>5. m = n
          BY <5>4 DEF m
        <5> HIDE DEF n
        <5> QED
          BY <3>2, <3>3, <5>1, <5>2, <5>4, <5>5 DEF Tree
      <4> QED
        BY <4>0, <4>1, <4>2
    <3> HIDE DEF hang, n
    <3>6. CASE h = nvf[fd].height
      BY <3>4, <3>5, <3>6, FS_EmptySet DEF hang
    <3>7. CASE h # nvf[fd].height
      <4>1. Cardinality(hang) = 1
        BY <3>4, <3>7, FS_Singleton
      <4> QED
        BY <3>5, <3>7, <4>1 DEF hang
    <3> QED
      BY <3>6, <3>7
  <2> QED
    BY <2>3, <2>4, <2>5 DEF TreesApart
<1> QED
  BY <1>1, Invariance, PTL

(* A table that is lost points to no other table.                          *)
THEOREM LeavesLeak == Spec => []OnlyLeavesLeak
<1>1. IInv => OnlyLeavesLeak
  <2> SUFFICES ASSUME IInv, NEW a \in DOMAIN heap \ Reachable
               PROVE  Range(heap[a]) \cap DOMAIN heap = {}
    BY DEF OnlyLeavesLeak
  <2>1. PICK node : Trees(node)
    BY DEF IInv
  <2>2. \A fd \in Fds : a \notin Nodes(node[fd])
    BY <2>1, TreeOfIs
  <2>3. \A s \in Slots : heap[a][s] \notin Addresses
    BY <2>1, <2>2 DEF Trees
  <2>4. DOMAIN heap \subseteq Addresses /\ DOMAIN (heap[a]) = Slots
    BY DEF IInv, HeapOK
  <2> QED
    BY <2>3, <2>4 DEF Range
<1> QED
  BY <1>1, Invariance, PTL

-----------------------------------------------------------------------------
(* The trees implement the table of mappings *)

(* The last byte of the longest file is a number, and so is its chunk.     *)
LEMMA ChunksAreNumbers == Chunks \subseteq Nat
<1> DEFINE R == Range(FileLength)
           half == WORD \div 2
           T == {k \in Nat : \E l \in R : k = half - l}
<1>1. half \in Nat
  BY WordAssumption
<1>2. \A l \in R : l \in Nat /\ half - l \in Nat
  BY <1>1, LengthAssumption DEF Range
<1>3. R # {}
  BY LengthAssumption, PathsAssumption DEF Range
<1> HIDE DEF R, half
<1>4. PICK n \in T : \A m \in T : n <= m
  <2>1. T # {} /\ T \in SUBSET Nat
    BY <1>2, <1>3
  <2> HIDE DEF T
  <2> QED
    BY <2>1, LeastNumber
<1>5. \E l \in R : \A k \in R : k <= l
  BY <1>1, <1>2, <1>4
<1>6. LastByte \in R
  BY <1>5 DEF LastByte, R
<1>7. LastByte \in Nat /\ CHUNK \in Nat /\ CHUNK > 0
  BY <1>2, <1>6, ChunkAssumption
<1>8. LastByte \div CHUNK \in Nat
  BY <1>7, Divide
<1> QED
  BY <1>8 DEF Chunks

(* The chunks that a tree n has a mapping for, with their mappings.        *)
ChunksOf(heap1, n) ==
    [c \in {d \in Chunks : Content(heap1, n, d) # NULL} |-> Content(heap1, n, c)]

CacheOf(heap1, node) == [fd \in Fds |-> ChunksOf(heap1, node[fd])]

LookedUp(heap1, root, height, c) == Lookup(heap1, root, height, c * CHUNK)

(* Looking up the first byte of each chunk finds what the tree contains.   *)
LEMMA LookupsAre ==
    ASSUME NEW heap1, HeapOK(heap1), NEW n, NEW root, NEW height, NEW ok,
           Tree(heap1, n, root, height, ok)
    PROVE  \A c \in Chunks : LookedUp(heap1, root, height, c) = Content(heap1, n, c)
<1> SUFFICES ASSUME NEW c \in Chunks
             PROVE  LookedUp(heap1, root, height, c) = Content(heap1, n, c)
  OBVIOUS
<1>1. c \in Nat /\ CHUNK \in Nat /\ CHUNK > 0
  BY ChunksAreNumbers, ChunkAssumption
<1> DEFINE offset == c * CHUNK
<1>2. offset \in Nat /\ offset = CHUNK * c + 0
  BY <1>1
<1> HIDE DEF offset
<1>3. offset \div CHUNK = c
  BY <1>1, <1>2, Quotient
<1>4. Piece(offset, 0) = c
  BY <1>3, Capacity DEF Piece
<1>5. Lookup(heap1, root, height, offset) = Content(heap1, n, c)
  BY <1>2, <1>4, LookupIs
<1> QED
  BY <1>5 DEF LookedUp, offset

(* What the lookups find in the trees of the descriptors that are opened.  *)
Found(heap1, opened, root, height) ==
    [fd \in Fds |->
        [c \in (IF fd \in opened
                THEN {d \in Chunks : LookedUp(heap1, root[fd], height[fd], d) # NULL}
                ELSE {})
            |-> LookedUp(heap1, root[fd], height[fd], c)]]

(* What the abstract table is, given the trees. *)
LEMMA CacheIs ==
    ASSUME NEW heap1, HeapOK(heap1), NEW node, NEW opened, NEW root, NEW height, NEW ok,
           \A fd \in Fds : Tree(heap1, node[fd], root[fd], height[fd], ok[fd]),
           \A fd \in Fds : fd \notin opened => root[fd] = NULL /\ height[fd] = 0
    PROVE  CacheOf(heap1, node) = Found(heap1, opened, root, height)
<1>1. ASSUME NEW fd \in Fds
      PROVE  ChunksOf(heap1, node[fd]) =
                 [c \in (IF fd \in opened
                         THEN {d \in Chunks : LookedUp(heap1, root[fd], height[fd], d) # NULL}
                         ELSE {})
                     |-> LookedUp(heap1, root[fd], height[fd], c)]
  <2> DEFINE n == node[fd]
             rt == root[fd]
             ht == height[fd]
             k == ok[fd]
  <2>1. Tree(heap1, n, rt, ht, k) /\ (fd \notin opened => rt = NULL /\ ht = 0)
    OBVIOUS
  <2> HIDE DEF n, rt, ht, k
  <2>2. \A c \in Chunks : LookedUp(heap1, rt, ht, c) = Content(heap1, n, c)
    BY <2>1, LookupsAre
  <2>3. fd \notin opened => \A c \in Chunks : Content(heap1, n, c) = NULL
    <3> SUFFICES ASSUME fd \notin opened PROVE \A c \in Chunks : Content(heap1, n, c) = NULL
      OBVIOUS
    <3>1. Tree(heap1, n, NULL, 0, k)
      BY <2>1
    <3> QED
      BY <3>1, RootlessTree, ChunksAreNumbers
  <2>4. ChunksOf(heap1, n) =
            [c \in (IF fd \in opened THEN {d \in Chunks : LookedUp(heap1, rt, ht, d) # NULL}
                    ELSE {}) |-> LookedUp(heap1, rt, ht, c)]
    <3>1. CASE fd \in opened
      BY <2>2, <3>1 DEF ChunksOf
    <3>2. CASE fd \notin opened
      BY <2>3, <3>2 DEF ChunksOf
    <3> QED
      BY <3>1, <3>2
  <2> QED
    BY <2>4 DEF n, rt, ht
<1> QED
  BY <1>1 DEF CacheOf, Found

Bar == [fd \in Fds |-> Cached(fd)]

(* The abstract table in a state, *)
LEMMA BarIs ==
    ASSUME HeapOK(heap), FilesInv, NEW node, Trees(node)
    PROVE  Bar = CacheOf(heap, node)
<1> DEFINE opened == {fd \in Fds : IsOpen(fd)}
           root == [fd \in Fds |-> nvf[fd].root]
           height == [fd \in Fds |-> nvf[fd].height]
           ok == [fd \in Fds |-> Mapped(fd)]
<1>1. \A fd \in Fds : Tree(heap, node[fd], root[fd], height[fd], ok[fd])
  BY DEF Trees
<1>2. \A fd \in Fds : fd \notin opened => root[fd] = NULL /\ height[fd] = 0
  BY DEF FilesInv
<1>3. \A fd \in Fds :
          Cached(fd) = [c \in (IF fd \in opened
                               THEN {d \in Chunks : LookedUp(heap, root[fd], height[fd], d) # NULL}
                               ELSE {})
                           |-> LookedUp(heap, root[fd], height[fd], c)]
  BY DEF Cached, LookupChunk, LookedUp
<1> HIDE DEF opened, root, height, ok
<1>4. CacheOf(heap, node) = Found(heap, opened, root, height)
  BY <1>1, <1>2, CacheIs
<1> QED
  BY <1>3, <1>4 DEF Bar, Found

(* and in the next one. *)
LEMMA NextBarIs ==
    ASSUME HeapOK(heap)', FilesInv', NEW node, Trees(node)'
    PROVE  Bar' = CacheOf(heap', node)
<1> DEFINE opened == {fd \in Fds : IsOpen(fd)'}
           root == [fd \in Fds |-> nvf'[fd].root]
           height == [fd \in Fds |-> nvf'[fd].height]
           ok == [fd \in Fds |-> Mapped(fd)']
<1>1. \A fd \in Fds : Tree(heap', node[fd], root[fd], height[fd], ok[fd])
  BY DEF Trees
<1>2. \A fd \in Fds : fd \notin opened => root[fd] = NULL /\ height[fd] = 0
  BY DEF FilesInv
<1>3. \A fd \in Fds :
          Cached(fd)' = [c \in (IF fd \in opened
                                THEN {d \in Chunks : LookedUp(heap', root[fd], height[fd], d) # NULL}
                                ELSE {})
                            |-> LookedUp(heap', root[fd], height[fd], c)]
  BY DEF Cached, LookupChunk, LookedUp
<1> HIDE DEF opened, root, height, ok
<1>4. CacheOf(heap', node) = Found(heap', opened, root, height)
  BY <1>1, <1>2, CacheIs
<1> QED
  BY <1>3, <1>4 DEF Bar, Found

(* Trees that contain the same are the same table, *)
LEMMA SameCache ==
    ASSUME NEW heap1, NEW node, NEW heap2, NEW node2,
           \A g \in Fds : \A c \in Nat : Content(heap2, node2[g], c) = Content(heap1, node[g], c)
    PROVE  CacheOf(heap2, node2) = CacheOf(heap1, node)
<1>1. \A g \in Fds : ChunksOf(heap2, node2[g]) = ChunksOf(heap1, node[g])
  BY ChunksAreNumbers DEF ChunksOf
<1> QED
  BY <1>1 DEF CacheOf

(* a tree that has been emptied is a descriptor that is forgotten, *)
TreeEmptied(heap1, node, heap2, node2, fd) ==
    \A g \in Fds : \A c \in Nat :
        Content(heap2, node2[g], c) = IF g = fd THEN NULL ELSE Content(heap1, node[g], c)

TableForgets(table, table2, fd) == table2 = [table EXCEPT ![fd] = Cache!NoChunks]

(* The table of the trees after a close is the one before, without the     *)
(* descriptor.                                                             *)
LEMMA ForgottenCache ==
    ASSUME NEW heap1, NEW node, NEW heap2, NEW node2, NEW fd \in Fds,
           TreeEmptied(heap1, node, heap2, node2, fd)
    PROVE  TableForgets(CacheOf(heap1, node), CacheOf(heap2, node2), fd)
<1>1. \A g \in Fds \ {fd} : ChunksOf(heap2, node2[g]) = ChunksOf(heap1, node[g])
  BY ChunksAreNumbers DEF ChunksOf, TreeEmptied
<1>2. ChunksOf(heap2, node2[fd]) = Cache!NoChunks
  BY ChunksAreNumbers DEF ChunksOf, TreeEmptied, Cache!NoChunks
<1> QED
  BY <1>1, <1>2 DEF CacheOf, TableForgets

(* One descriptor's tree gains chunk d, with mapping w; the table gains    *)
(* the same, unless the chunk is not one of its own.                       *)
TreeGains(heap1, node, heap2, node2, fd, d, w) ==
    \A g \in Fds : \A c \in Nat :
        Content(heap2, node2[g], c) = IF g = fd /\ c = d THEN w ELSE Content(heap1, node[g], c)

TableGains(table, table2, fd, d, w) ==
    \/ table2 = table
    \/ /\ d \notin DOMAIN (table[fd])
       /\ table2 = [table EXCEPT ![fd] = Cache!With(table[fd], d, w)]

(* and a chunk that had no mapping is one that is added. *)
LEMMA AddedCache ==
    ASSUME NEW heap1, NEW node, NEW heap2, NEW node2, NEW fd \in Fds, NEW d \in Nat, NEW w, w # NULL,
           Content(heap1, node[fd], d) = NULL, TreeGains(heap1, node, heap2, node2, fd, d, w)
    PROVE  TableGains(CacheOf(heap1, node), CacheOf(heap2, node2), fd, d, w)
<1>1. \A g \in Fds \ {fd} : ChunksOf(heap2, node2[g]) = ChunksOf(heap1, node[g])
  BY ChunksAreNumbers DEF ChunksOf, TreeGains
<1>2. \A c \in Nat : Content(heap2, node2[fd], c) = IF c = d THEN w ELSE Content(heap1, node[fd], c)
  BY DEF TreeGains
<1>3. CASE d \notin Chunks
  <2>1. ChunksOf(heap2, node2[fd]) = ChunksOf(heap1, node[fd])
    BY <1>2, <1>3, ChunksAreNumbers DEF ChunksOf
  <2> QED
    BY <1>1, <2>1 DEF CacheOf, TableGains
<1>4. CASE d \in Chunks
  <2>1. d \notin DOMAIN ChunksOf(heap1, node[fd])
    BY DEF ChunksOf
  <2>2. ChunksOf(heap2, node2[fd]) = Cache!With(ChunksOf(heap1, node[fd]), d, w)
    BY <1>2, <1>4, ChunksAreNumbers DEF ChunksOf, Cache!With
  <2> QED
    BY <1>1, <2>1, <2>2 DEF CacheOf, TableGains
<1> QED
  BY <1>3, <1>4

(* What a tree contains is mappings made so far, so the next one is new. *)
LEMMA NextIsNew ==
    ASSUME TypeOK, NEW node, Trees(node), NEW fd \in Fds, NEW c \in Nat,
           Content(heap, node[fd], c) # NULL
    PROVE  Content(heap, node[fd], c) # Mapping(Len(maps) + 1)
<1> DEFINE n == node[fd]
           i == c \div FANOUT
           s == c % FANOUT
<1>1. Tree(heap, n, nvf[fd].root, nvf[fd].height, Mapped(fd))
  BY DEF Trees
<1> HIDE DEF n
<1>2. i \in Nat /\ s \in Slots /\ i * FANOUT + s = c
  BY SlotOfPiece
<1>3. n[0][i] # NULL /\ heap[n[0][i]][s] = Content(heap, n, c) /\ Content(heap, n, c) # NULL
  BY DEF Content, n
<1>4. <<heap[n[0][i]][s], i * FANOUT + s>> \in Mapped(fd)
  <2> HIDE DEF i, s
  <2> QED
    BY <1>1, <1>2, <1>3 DEF Tree
<1>5. PICK k \in 1 .. Len(maps) : heap[n[0][i]][s] = Mapping(k)
  BY <1>4 DEF Mapped
<1>6. Len(maps) \in Nat
  BY DEF TypeOK
<1>7. k \in Nat /\ Len(maps) + 1 \in Nat /\ k # Len(maps) + 1
  BY <1>6
<1>8. Mapping(k) # Mapping(Len(maps) + 1)
  BY <1>7, WordsDiffer
<1> QED
  BY <1>3, <1>5, <1>8 DEF n

(* A chunk that is added is a step of the abstract table, *)
LEMMA AddIsStep ==
    ASSUME NEW fd \in Fds, NEW d, NEW w, d \notin DOMAIN (Bar[fd]), w \notin Cache!Cached,
           Bar' = [Bar EXCEPT ![fd] = Cache!With(Bar[fd], d, w)]
    PROVE  Cache!CNext
<1>1. Bar'[fd] = Cache!With(Bar[fd], d, w)
  BY DEF Bar
<1>2. DOMAIN (Bar'[fd]) = DOMAIN (Bar[fd]) \cup {d} /\ Bar'[fd][d] = w
  BY <1>1 DEF Cache!With
<1>3. d \in DOMAIN (Bar'[fd]) \ DOMAIN (Bar[fd])
  BY <1>2
<1>4. Bar' # Bar
  BY <1>3
<1>5. Cache!AddChunk(fd, d, Bar'[fd][d])
  BY <1>2 DEF Cache!AddChunk, Bar
<1> QED
  BY <1>3, <1>4, <1>5 DEF Cache!CNext, Bar

(* and so is a descriptor that is forgotten. *)
LEMMA ForgetIsStep ==
    ASSUME NEW fd \in Fds, Bar' = [Bar EXCEPT ![fd] = Cache!NoChunks]
    PROVE  Cache!CNext \/ Bar' = Bar
<1>1. Cache!Forget(fd)
  BY DEF Cache!Forget, Bar
<1> QED
  BY <1>1 DEF Cache!CNext, Bar

(* A call that leaves the heap and the trees' roots alone.                 *)
LEMMA BarStays ==
    ASSUME UNCHANGED <<heap, kernel>>,
           \A g \in Fds : nvf[g].root' = nvf[g].root /\ nvf[g].height' = nvf[g].height
    PROVE  Bar' = Bar
<1>1. \A g \in Fds : Cached(g)' = Cached(g)
  BY DEF Cached, LookupChunk, IsOpen
<1> QED
  BY <1>1 DEF Bar

(* A read that maps a chunk adds it.                                       *)
LEMMA MissIsStep ==
    ASSUME IInv, IInv', NEW fd \in Fds, IsOpen(fd), NEW size, NEW offset \in Nat, NEW advance,
           Miss(fd, size, offset, advance)
    PROVE  Cache!CNext \/ Bar' = Bar
<1> DEFINE w == Mapping(Len(maps) + 1)
           d == Piece(offset, 0)
<1>1. TypeOK /\ HeapOK(heap) /\ FilesInv /\ HeapOK(heap)' /\ FilesInv'
  BY DEF IInv
<1>2. PICK node : Trees(node)
  BY DEF IInv
<1>3. PICK node2 : /\ Trees(node2)'
                   /\ \A g \in Fds : \A c \in Nat :
                          Content(heap', node2[g], c) =
                              IF g = fd /\ c = d THEN w ELSE Content(heap, node[g], c)
  BY <1>1, <1>2, MissTrees
<1>4. Bar = CacheOf(heap, node) /\ Bar' = CacheOf(heap', node2)
  <2>1. Bar = CacheOf(heap, node)
    BY <1>1, <1>2, BarIs
  <2>2. Bar' = CacheOf(heap', node2)
    BY <1>1, <1>3, NextBarIs
  <2> QED
    BY <2>1, <2>2
<1>5. d \in Nat
  BY Pieces
<1>6. Content(heap, node[fd], d) = NULL
  <2>1. LookupChunk(fd, offset) = NULL
    BY DEF Miss
  <2>2. Tree(heap, node[fd], nvf[fd].root, nvf[fd].height, Mapped(fd))
    BY <1>2 DEF Trees
  <2> QED
    BY <1>1, <2>1, <2>2, LookupIs DEF LookupChunk
<1>7. w # NULL
  <2>1. Len(maps) + 1 \in Nat
    BY <1>1 DEF TypeOK
  <2> QED
    BY <2>1, WordsDiffer DEF Mappings
<1>8. w \notin Cache!Cached
  <2> SUFFICES ASSUME w \in Cache!Cached PROVE FALSE
    OBVIOUS
  <2>1. PICK g \in Fds : w \in Range(Bar[g])
    BY DEF Cache!Cached, Cache!Range, Range, Bar
  <2>2. Bar[g] = ChunksOf(heap, node[g])
    BY <1>4 DEF CacheOf
  <2>3. PICK c \in Chunks : Content(heap, node[g], c) # NULL /\ Content(heap, node[g], c) = w
    BY <2>1, <2>2 DEF Range, ChunksOf
  <2>4. c \in Nat
    BY ChunksAreNumbers
  <2> QED
    BY <1>1, <1>2, <2>3, <2>4, NextIsNew
<1> HIDE DEF w, d
<1>9. TableGains(Bar, Bar', fd, d, w)
  <2> DEFINE heap2 == heap'
  <2>1. TreeGains(heap, node, heap2, node2, fd, d, w)
    BY <1>3 DEF TreeGains
  <2>2. Bar' = CacheOf(heap2, node2)
    BY <1>4
  <2> HIDE DEF heap2
  <2>3. TableGains(CacheOf(heap, node), CacheOf(heap2, node2), fd, d, w)
    BY <1>5, <1>6, <1>7, <2>1, AddedCache
  <2> QED
    BY <1>4, <2>2, <2>3
<1> QED
  BY <1>8, <1>9, AddIsStep DEF TableGains

(* A new descriptor has no chunks, as it had none before it was opened. *)
LEMMA OpenIsStutter ==
    ASSUME IInv, IInv', NEW fd \in Fds, NEW path, NEW oflag, open1(fd, path, oflag)
    PROVE  Bar' = Bar
<1>1. TypeOK /\ HeapOK(heap) /\ FilesInv /\ HeapOK(heap)' /\ FilesInv'
  BY DEF IInv
<1>2. PICK node : Trees(node)
  BY DEF IInv
<1>3. PICK node2 : /\ Trees(node2)'
                   /\ \A g \in Fds : \A c \in Nat :
                          Content(heap', node2[g], c) = Content(heap, node[g], c)
  BY <1>1, <1>2, OpenTrees
<1>4. Bar = CacheOf(heap, node)
  BY <1>1, <1>2, BarIs
<1>5. Bar' = CacheOf(heap', node2)
  BY <1>1, <1>3, NextBarIs
<1>6. CacheOf(heap', node2) = CacheOf(heap, node)
  BY <1>3, SameCache
<1> QED
  BY <1>4, <1>5, <1>6

(* Closing a descriptor forgets its chunks. *)
LEMMA CloseIsStep ==
    ASSUME IInv, IInv', NEW fd \in Fds, close1(fd)
    PROVE  Cache!CNext \/ Bar' = Bar
<1>1. TypeOK /\ HeapOK(heap) /\ FilesInv /\ HeapOK(heap)' /\ FilesInv'
  BY DEF IInv
<1>2. PICK node : Trees(node)
  BY DEF IInv
<1>3. PICK node2 : /\ Trees(node2)'
                   /\ \A g \in Fds : \A c \in Nat :
                          Content(heap', node2[g], c) =
                              IF g = fd THEN NULL ELSE Content(heap, node[g], c)
  BY <1>1, <1>2, CloseTrees
<1>4. Bar = CacheOf(heap, node)
  BY <1>1, <1>2, BarIs
<1>5. Bar' = CacheOf(heap', node2)
  BY <1>1, <1>3, NextBarIs
<1>6. CacheOf(heap', node2) = [CacheOf(heap, node) EXCEPT ![fd] = Cache!NoChunks]
  <2> DEFINE heap2 == heap'
  <2>1. TreeEmptied(heap, node, heap2, node2, fd)
    BY <1>3 DEF TreeEmptied
  <2> HIDE DEF heap2
  <2>2. TableForgets(CacheOf(heap, node), CacheOf(heap2, node2), fd)
    BY <2>1, ForgottenCache
  <2> QED
    BY <2>2 DEF TableForgets, heap2
<1> QED
  BY <1>4, <1>5, <1>6, ForgetIsStep

(* A whole call of read1 or pread1, as the abstract table sees it. *)
LEMMA ReadIsStep ==
    ASSUME IInv, IInv', NEW fd \in Fds, IsOpen(fd), NEW size, NEW offset \in Nat, NEW advance,
           do_pread(fd, size, offset, advance)
    PROVE  Cache!CNext \/ Bar' = Bar
<1>1. CASE Nothing(fd, size, offset)
  BY <1>1, BarStays DEF Nothing
<1>2. CASE Hit(fd, size, offset, advance)
  <2>1. UNCHANGED <<heap, kernel>>
        /\ nvf' = [nvf EXCEPT ![fd].offset = Advanced(nvf[fd], ret'.n, advance)]
    BY <1>2 DEF Hit
  <2>2. nvf \in [Fds -> NVFile]
    BY DEF IInv, TypeOK
  <2>3. \A g \in Fds : nvf[g].root' = nvf[g].root /\ nvf[g].height' = nvf[g].height
    BY <2>1, <2>2 DEF NVFile
  <2> QED
    BY <2>1, <2>3, BarStays
<1>3. CASE Miss(fd, size, offset, advance)
  BY <1>3, MissIsStep
<1>4. CASE MmapFails(fd, size, offset)
  BY <1>4, BarStays DEF MmapFails
<1> QED
  BY <1>1, <1>2, <1>3, <1>4 DEF do_pread

(* At first nothing is mapped. *)
LEMMA CacheInitially == Init => Cache!CInit
<1> SUFFICES ASSUME Init PROVE Cache!CInit
  OBVIOUS
<1>1. \A fd \in Fds : ~IsOpen(fd)
  BY DEF Init, IsOpen
<1>2. \A fd \in Fds : Cached(fd) = Cache!NoChunks
  BY <1>1 DEF Cached, Cache!NoChunks
<1> QED
  BY <1>2 DEF Cache!CInit

(* libnoposix implements the table of mappings: a descriptor's chunk, once *)
(* mapped, is found at the same mapping until the descriptor is closed,    *)
(* and no mapping serves two chunks or two descriptors                     *)
(* (fileops_noposix.c:181-196,291-372).                                    *)
THEOREM CacheImplemented == Spec => ImplementsCache
<1>1. IInv /\ IInv' /\ [Next]_vars => [Cache!CNext]_Bar
  <2> SUFFICES ASSUME IInv, IInv', [Next]_vars PROVE Cache!CNext \/ Bar' = Bar
    OBVIOUS
  <2>1. CASE UNCHANGED vars
    BY <2>1, BarStays DEF vars
  <2>2. ASSUME NEW fd \in Fds, NEW size \in Sizes, read1(fd, size)
        PROVE  Cache!CNext \/ Bar' = Bar
    <3>1. nvf[fd].offset \in Nat
      BY WordFacts DEF IInv, TypeOK, NVFile
    <3> QED
      BY <2>2, <3>1, ReadIsStep DEF read1
  <2>3. ASSUME NEW fd \in Fds, NEW size \in Sizes, NEW offset \in Offsets, pread1(fd, size, offset)
        PROVE  Cache!CNext \/ Bar' = Bar
    <3>1. offset \in Nat
      BY CallersAssumption, WordFacts
    <3> QED
      BY <2>3, <3>1, ReadIsStep DEF pread1
  <2>4. ASSUME NEW fd \in Fds, write1(fd) PROVE Bar' = Bar
    BY <2>4, BarStays DEF write1
  <2>5. ASSUME NEW fd \in Fds, NEW seek \in Seeks, lseek1(fd, seek[1], seek[2])
        PROVE  Bar' = Bar
    <3>1. nvf \in [Fds -> NVFile]
      BY DEF IInv, TypeOK
    <3>2. \A g \in Fds : nvf[g].root' = nvf[g].root /\ nvf[g].height' = nvf[g].height
      BY <2>5, <3>1 DEF lseek1, NVFile
    <3>3. UNCHANGED <<heap, kernel>>
      BY <2>5 DEF lseek1
    <3> QED
      BY <3>2, <3>3, BarStays
  <2>6. ASSUME NEW fd \in Fds, NEW opening \in Openings, open1(fd, opening[1], opening[2])
        PROVE  Bar' = Bar
    BY <2>6, OpenIsStutter
  <2>7. ASSUME NEW fd \in Fds, close1(fd) PROVE Cache!CNext \/ Bar' = Bar
    BY <2>7, CloseIsStep
  <2> QED
    BY <2>1, <2>2, <2>3, <2>4, <2>5, <2>6, <2>7 DEF Next, Call
<1> QED
  BY <1>1, CacheInitially, Invariance, PTL DEF Spec, Bar, ImplementsCache, Cache!CSpec
=============================================================================
