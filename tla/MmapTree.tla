----------------------------- MODULE MmapTree -----------------------------
(***************************************************************************)
(* The radix tree in which lib/fileops_noposix.c remembers the chunks of a *)
(* file it has mapped.  A table has FANOUT words.  In a table at height 0  *)
(* a word is the address of a mapping of one chunk of CHUNK bytes; in a    *)
(* table at height h > 0 it points to a table at height h - 1, which       *)
(* stands for CHUNK * FANOUT^h bytes of the file.                          *)
(*                                                                         *)
(* heap maps the addresses of the tables malloc has handed out, and free   *)
(* has not taken back, to their words.  An address is <<"table", k>> or    *)
(* <<"map", k>>; malloc reuses the lowest table address that is free.      *)
(***************************************************************************)
EXTENDS Integers, FiniteSets, Functions

CONSTANTS
    FANOUT,     \* 1024 in the code: words in a table
    CHUNK       \* MAX_MMAP_SIZE: bytes mapped at a time

ASSUME FanoutAssumption == FANOUT \in Nat /\ FANOUT > 1
ASSUME ChunkAssumption == CHUNK \in Nat /\ CHUNK > 0

NULL == <<"null", 0>>
Table(k) == <<"table", k>>
Mapping(k) == <<"map", k>>

Slots == 0 .. FANOUT - 1
EmptyTable == [i \in Slots |-> NULL]

(* malloc *)
Fresh(heap) ==
    Table(CHOOSE k \in 1 .. Cardinality(DOMAIN heap) + 1 :
              /\ Table(k) \notin DOMAIN heap
              /\ \A j \in 1 .. k - 1 : Table(j) \in DOMAIN heap)

WithTable(heap, a) == [b \in DOMAIN heap \cup {a} |-> IF b = a THEN EmptyTable ELSE heap[b]]

calculate_capacity(height) ==
    LET capacity[h \in 0 .. height] == IF h = 0 THEN CHUNK ELSE capacity[h - 1] * FANOUT
    IN  capacity[height]

(* The height a tree needs to hold offset. *)
calculate_new_height(offset) ==
    CHOOSE h \in 0 .. offset :
        /\ offset < calculate_capacity(h + 1)
        /\ h > 0 => offset >= calculate_capacity(h)

(* The slot for offset in a table at height h: the whole quotient in the   *)
(* root, where it may exceed the table, and what is left of it below.      *)
SlotIn(offset, h, isRoot) ==
    (IF isRoot THEN offset ELSE offset % calculate_capacity(h + 1))
        \div calculate_capacity(h)

(* get_mmap_address, the lookup: the mapping that holds offset, or NULL.   *)
Lookup(heap, root, height, offset) ==
    LET word[h \in 0 .. height] ==      \* what the walk reads at height h
            LET table == IF h = height THEN root ELSE word[h + 1]
                slot == SlotIn(offset, h, h = height)
            IN  IF table = NULL \/ slot >= FANOUT THEN NULL ELSE heap[table][slot]
    IN  word[0]

(* Mutant: old_root is read after nvf->root has been replaced. *)
GrowFromNewRoot(heap, root, height, newHeight) ==
    LET tree[h \in height .. newHeight] ==
            IF h = height THEN [heap |-> heap, root |-> root]
            ELSE LET old == tree[h - 1]
                     new == Fresh(old.heap)
                 IN  [heap |-> [WithTable(old.heap, new) EXCEPT ![new][0] = new],
                      root |-> new]
    IN  tree[newHeight]

(* get_mmap_address, the growth: new roots, each with the old tree as its  *)
(* first child, until the tree is as high as offset needs.                 *)
Grow(heap, root, height, newHeight) ==
    LET tree[h \in height .. newHeight] ==
            IF h = height THEN [heap |-> heap, root |-> root]
            ELSE LET old == tree[h - 1]
                     new == Fresh(old.heap)
                 IN  [heap |-> [WithTable(old.heap, new) EXCEPT ![new][0] = old.root],
                      root |-> new]
    IN  tree[newHeight]

(* get_mmap_address, the insertion: walk down from the root, adding the    *)
(* tables that are missing, and write the mapping into its leaf.           *)
Insert(heap, root, height, offset, mapping) ==
    LET walk[h \in 0 .. height] ==      \* the heap, and the table at height h
            IF h = height THEN [heap |-> heap, table |-> root]
            ELSE LET up == walk[h + 1]
                     slot == SlotIn(offset, h + 1, h + 1 = height)
                     new == Fresh(up.heap)
                 IN  IF up.heap[up.table][slot] # NULL
                     THEN [up EXCEPT !.table = up.heap[up.table][slot]]
                     ELSE [heap |-> [WithTable(up.heap, new) EXCEPT ![up.table][slot] = new],
                           table |-> new]
        leaf == walk[0]
    IN  [leaf.heap EXCEPT ![leaf.table][SlotIn(offset, 0, height = 0)] = mapping]

(* get_mmap_address when the chunk is not mapped: the tree after mapping   *)
(* has been put into it.                                                   *)
WithMapping(heap, root, height, offset, mapping) ==
    LET needed == calculate_new_height(offset)
        newHeight == IF height < needed THEN needed ELSE height
        grown == Grow(heap, root, height, newHeight)
    IN  [heap |-> Insert(grown.heap, grown.root, newHeight, offset, mapping),
         root |-> grown.root, height |-> newHeight]

(* The tables of the tree at each height. *)
Level(heap, root, height) ==
    LET level[h \in 0 .. height] ==
            IF h = height THEN {root} \ {NULL}
            ELSE (UNION {Range(heap[a]) : a \in level[h + 1]}) \ {NULL}
    IN  level

TablesOf(heap, root, height) ==
    UNION {Level(heap, root, height)[h] : h \in 0 .. height}

(* Mutant: frees the root and does not recur. *)
free_root(heap, root, height) == [a \in DOMAIN heap \ {root} |-> heap[a]]

(* free_btree and free_file: every table is freed but the leaves of a tree *)
(* higher than 0, where free_btree returns before it frees.                *)
free_file(heap, root, height) ==
    LET freed == IF height = 0 THEN {root}
                 ELSE UNION {Level(heap, root, height)[h] : h \in 1 .. height}
    IN  [a \in DOMAIN heap \ freed |-> heap[a]]
============================================================================
