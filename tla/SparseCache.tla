----------------------------- MODULE SparseCache -----------------------------
(***************************************************************************)
(* The local cache of one file: a sparse file that gdpfs_file_fill_cache   *)
(* writes to and gdpfs_file_get_cache reads from.  A cache maps each byte  *)
(* position to what a read of the sparse file gives there, or to Hole      *)
(* where the local file system has allocated nothing or the file ends.     *)
(* Bytes a process never wrote read as Zero once their block exists.       *)
(***************************************************************************)
EXTENDS Integers, FiniteSets

CONSTANTS
    FileLen,      \* bound: byte positions are 0 .. FileLen - 1
    BlockSize     \* the granularity at which lseek(SEEK_HOLE) sees holes

ASSUME CacheAssumption ==
    /\ FileLen \in Nat /\ FileLen >= 1
    /\ BlockSize \in Nat /\ BlockSize >= 1

Hole == -2
Zero == 0

Bytes == 0 .. FileLen - 1

EmptyCache == [b \in Bytes |-> Hole]

\* The n bytes from off on.
Span(off, n) == {b \in Bytes : off <= b /\ b < off + n}

Block(b) == b \div BlockSize

\* Positions before the end of the cache file.  Its last byte was written, as
\* nothing ever shortens the file.
CacheExtent(cache) == {b \in Bytes : \E e \in Bytes : b <= e /\ cache[e] # Hole}

\* gdpfs_file_fill_cache with overwrite set: write data over the bytes of span.
\* The write allocates whole blocks and may move the end of the file.
FillCache(cache, span, data) ==
    LET allocated == {Block(b) : b \in span \cup {c \in Bytes : cache[c] # Hole}}
    IN  [b \in Bytes |->
            CASE b \in span -> data[b]
              [] b \notin span /\ cache[b] # Hole -> cache[b]
              [] b \notin span /\ cache[b] = Hole ->
                    IF /\ Block(b) \in allocated
                       /\ \E e \in span \cup CacheExtent(cache) : b < e
                    THEN Zero
                    ELSE Hole]

\* gdpfs_file_get_cache: can span be read from the cache?  The cache of a file
\* created in this session counts as complete, so only a short read misses.
CacheHit(cache, new_file, span) ==
    IF new_file
    THEN span \subseteq CacheExtent(cache)
    ELSE \A b \in span : cache[b] # Hole

\* What read() gives at position b of the cache file.
CacheByte(cache, b) == IF cache[b] = Hole THEN Zero ELSE cache[b]
=============================================================================
