---------------------------- MODULE ChunkCache ----------------------------
(***************************************************************************)
(* What the table of mappings promises to the reads: for every descriptor  *)
(* a partial function from chunks of the file to mappings.  It starts      *)
(* empty, gains a chunk when that chunk is mapped for the first time,      *)
(* keeps every chunk at the same mapping for as long as the descriptor is  *)
(* open, and is emptied when the descriptor is closed.                     *)
(***************************************************************************)
EXTENDS Functions

CONSTANT Fds

VARIABLE cache

NoChunks == [c \in {} |-> c]

CInit == cache = [fd \in Fds |-> NoChunks]

Cached == UNION {Range(cache[fd]) : fd \in Fds}

With(chunks, c, mapping) ==
    [d \in DOMAIN chunks \cup {c} |-> IF d = c THEN mapping ELSE chunks[d]]

(* Chunk c, which had no mapping, gets one that no other chunk has. *)
AddChunk(fd, c, mapping) ==
    /\ c \notin DOMAIN cache[fd]
    /\ mapping \notin Cached
    /\ cache' = [cache EXCEPT ![fd] = With(@, c, mapping)]

Forget(fd) == cache' = [cache EXCEPT ![fd] = NoChunks]

CNext ==
    /\ cache' # cache
    /\ \E fd \in Fds :
           \/ Forget(fd)
           \/ LET gained == DOMAIN cache'[fd] \ DOMAIN cache[fd]
              IN  \E c \in gained : AddChunk(fd, c, cache'[fd][c])

CSpec == CInit /\ [][CNext]_cache
============================================================================
