--------------------------- MODULE MCNoposixFile --------------------------
(***************************************************************************)
(* libnoposix with chunks of 2 bytes and tables of 2 words, so that a      *)
(* file of 11 bytes takes a tree of height 2 and one of 3 bytes a single   *)
(* table; words of 5 bits.                                                 *)
(***************************************************************************)
EXTENDS NoposixFile

CONSTANTS big, small

MCFds == {0, 1}
MCPaths == {big, small}
MCFileLength == [p \in MCPaths |-> IF p = big THEN 11 ELSE 3]
MCSizes == {3, 31}          \* 31 is the largest size_t, -1 as ssize_t
MCOffsets == {5, 9, 31}
MCSeeks == {<<31, "SEEK_SET">>, <<0, "SEEK_CUR">>, <<0, "SEEK_END">>}
MCOpenings == {<<big, O_RDWR>>, <<small, O_RDWR>>, <<small, O_WRONLY>>}
============================================================================
