------------------------- MODULE MCStoragePrograms -------------------------
(* The command lines that are tried, with pages of two bytes, an END_SIZE  *)
(* of two pages and a RAM disk of three: request sizes that are 0, below   *)
(* and above END_SIZE and no divisor of the file size, file sizes that are *)
(* no multiple of anything, and a pattern that passes 'z'.                 *)
EXTENDS StoragePrograms

Line(prog, req, size, c) ==
    [prog |-> prog, req |-> req, file |-> size, c |-> c, at |-> 1, times |-> 2]

Lines(progs, reqs, sizes, c) ==
    {Line(p, req, size, c) : p \in progs, req \in reqs, size \in sizes}

MCCommands ==
    Lines({"integrity_test2_write", "integrity_test2_direct", "integrity_test2_read"},
          {1, 3}, {1, 5}, 122)
    \cup Lines({"integrity_test2_read"}, {-1, 0}, {6}, 122)
    \cup Lines({"mmap_write", "mmap_read"}, {1, 3}, {1, 4, 5}, 121)
    \cup Lines({"msync-test", "mprotect-test"}, {0, 1, 4}, {1, 3, 6}, 65)
    \cup Lines({"latency_write"}, {0, 2, 3}, {1, 5}, 66)
    \cup Lines({"latency_direct", "latency_read"}, {1, 4}, {1, 5}, 66)
    \cup Lines({"write_to_ram"}, {0, 1, 4}, {1, 5}, 97)
    \cup Lines({"rewrite"}, {3}, {1}, 99)
    \cup {[Line("rewrite", 1, 1, 99) EXCEPT !.times = 0]}
    \cup Lines({"mmap_to_ram", "munmap-test", "read_from_ram", "random_perf_test"},
               {1}, {1, 5, 6}, 97)
    \cup Lines({"pwrite", "fsync", "iozone_test"}, {1}, {1}, 97)
============================================================================
