---------------------------- MODULE FigTreeStore ----------------------------
(***************************************************************************)
(* A fig tree and its checkpoints in the log of its file.  A checkpoint    *)
(* (get_dirty) writes the nodes changed since the last one; opening a file *)
(* takes the root of the newest checkpoint, applies the later writes and   *)
(* reads other nodes from the log when it comes to them.  The file is      *)
(* opened again after an eviction, and after the client stopped or died.   *)
(***************************************************************************)
EXTENDS FigTree

CONSTANTS
    LastByte,      \* bound: bytes 0 .. LastByte are written
    Preload,       \* the file is first written sequentially, a byte at a time
    MaxWrites,     \* bound: writes, the first ones included
    MaxReloads     \* bound: times the file is opened again

ASSUME StoreAssumption ==
    /\ LastByte \in 0 .. BYTE_INDEX_MAX
    /\ Preload \in 0 .. LastByte + 1
    /\ {MaxWrites, MaxReloads} \subseteq Nat

VARIABLES
    root,         \* the tree in memory
    disk,         \* the root in the newest checkpoint, NULL if there is none
    tail,         \* the writes in the log after it
    history,      \* byte -> the numbers of the writes to it
    writes, reloads,
    asserted,     \* has an assertion failed, and where?
    lossy         \* history: has a write been put in a tree that is not all in memory?

vars == <<root, disk, tail, history, writes, reloads, asserted, lossy>>

Bytes == 0 .. LastByte

Rec(l, r, value) == [left |-> l, right |-> r, value |-> value]

\* Slips that the properties below catch: records applied newest first; the
\* children of a written node not followed.
ReplayBackwards(tree, recs) ==
    FoldLeft(LAMBDA t, rec : IF t.ok THEN ft_write(t.root, rec.left, rec.right, rec.value) ELSE t,
             [root |-> tree, ok |-> TRUE], Reverse(recs))

\* open_file applies the data records after the checkpoint, oldest first.
Replay(tree, recs) ==
    FoldLeft(LAMBDA t, rec : IF t.ok THEN ft_write(t.root, rec.left, rec.right, rec.value) ELSE t,
             [root |-> tree, ok |-> TRUE], recs)

PreloadRecs == [k \in 1 .. Preload |-> Rec(k - 1, k - 1, k)]

Init ==
    /\ root = Replay(ftn_new(0), PreloadRecs).root
    /\ disk = NULL
    /\ tail = PreloadRecs
    /\ history = [b \in Bytes |-> IF b < Preload THEN {b + 1} ELSE {}]
    /\ writes = Preload /\ reloads = 0
    /\ asserted = "no"
    /\ lossy = FALSE
-----------------------------------------------------------------------------
Running == asserted = "no"

\* Has the tree nodes that are only in the log?
RECURSIVE Lazy(_)
Lazy(n) == \E i \in DOMAIN n.subtrees : ~n.subtrees[i].inmemory \/ Lazy(n.subtrees[i].st)

Write(l, r) ==
    LET v == writes + 1
        result == ft_write(root, l, r, v)
    IN  /\ Running
        /\ writes < MaxWrites
        /\ writes' = v
        /\ root' = result.root
        /\ tail' = Append(tail, Rec(l, r, v))
        /\ history' = [b \in Bytes |-> history[b] \cup (IF l <= b /\ b <= r THEN {v} ELSE {})]
        /\ asserted' = IF result.ok THEN asserted ELSE "write"
        /\ lossy' = (lossy \/ Lazy(root))
        /\ UNCHANGED <<disk, reloads>>
-----------------------------------------------------------------------------
\* What a written node has for a child: its place in the log.  Leaves keep their
\* NULL pointers.
OnLog(ptr) ==
    IF ptr.st = NULL /\ ptr.inmemory THEN ptr
    ELSE [st |-> NULL, inmemory |-> FALSE, saved |-> ptr.saved]

Flushed(ptr) == ~ptr.inmemory \/ ptr.st = NULL \/ ~ptr.st.dirty

DirtyRootOnly(ptr) ==
    IF Flushed(ptr) THEN ptr
    ELSE [ptr EXCEPT
            !.st.dirty = FALSE,
            !.saved = [ptr.st EXCEPT !.dirty = FALSE,
                         !.subtrees = [i \in DOMAIN @ |-> OnLog(@[i])]]]

\* get_dirty_helper: children first, then the node if it is dirty.  It does not
\* look below a node that is clean.
RECURSIVE get_dirty(_)
get_dirty(ptr) ==
    LET kids == [i \in DOMAIN ptr.st.subtrees |-> get_dirty(ptr.st.subtrees[i])]
    IN  IF Flushed(ptr) THEN ptr
        ELSE [ptr EXCEPT
                !.st = [@ EXCEPT !.dirty = FALSE,
                          !.subtrees = [i \in DOMAIN kids |->
                              IF kids[i].inmemory THEN kids[i]
                              ELSE [kids[i] EXCEPT !.st = kids[i].saved]]],
                !.saved = [ptr.st EXCEPT !.dirty = FALSE,
                             !.subtrees = [i \in DOMAIN kids |-> OnLog(kids[i])]]]

\* Is there a child get_dirty comes to that was never read from the log?
RECURSIVE NeverLoaded(_)
NeverLoaded(ptr) ==
    ~Flushed(ptr) /\ \E i \in DOMAIN ptr.st.subtrees :
        LET kid == ptr.st.subtrees[i]
        IN  (kid.st = NULL /\ ~kid.inmemory) \/ NeverLoaded(kid)

\* _file_chkpt.  With a clean root no record is written.  If a child was never
\* loaded by a write, reads may have loaded it.
Checkpoint ==
    LET done == get_dirty(subtree_set(root))
    IN  /\ Running
        /\ root.dirty
        /\ root' = done.st
        /\ disk' = done.saved
        /\ tail' = << >>
        /\ UNCHANGED <<history, writes, reloads, asserted, lossy>>

\* No read has: get_dirty_helper asserts that such a pointer is a leaf's.
CheckpointAsserts ==
    /\ Running
    /\ root.dirty
    /\ NeverLoaded(subtree_set(root))
    /\ asserted' = "get_dirty"
    /\ UNCHANGED <<root, disk, tail, history, writes, reloads, lossy>>

\* open_file reads the index from the log.
NewestRoot == IF disk = NULL THEN ftn_new(0) ELSE disk
Loaded == Replay(NewestRoot, tail)

Reload ==
    /\ Running
    /\ reloads < MaxReloads
    /\ reloads' = reloads + 1
    /\ root' = Loaded.root
    /\ asserted' = IF Loaded.ok THEN asserted ELSE "write"
    /\ lossy' = (lossy \/ (tail # << >> /\ Lazy(NewestRoot)))
    /\ UNCHANGED <<disk, tail, history, writes>>

Done == (~Running \/ writes = MaxWrites \/ reloads = MaxReloads) /\ UNCHANGED vars

Next ==
    \/ \E l \in Bytes : \E r \in l .. LastByte : Write(l, r)
    \/ Checkpoint \/ CheckpointAsserts \/ Reload \/ Done

Spec == Init /\ [][Next]_vars
-----------------------------------------------------------------------------
LastWrite(b) == Max(history[b] \cup {0})

\* The tree finds for every byte the record of the last write to it, also in
\* nodes that are read from a checkpoint when a lookup comes to them.
LookupFindsLast ==
    Running => \A b \in Bytes : ft_lookup(root, b) = LastWrite(b)

\* The same until a write is put in a tree that is not all in memory: checkpoints
\* and reloads, records applied after a checkpoint, and lazy reads of a tree
\* that is only read keep the index exact.
LookupExactUntilLazyWrite == ~lossy => LookupFindsLast

\* Until then, when the log ends with a checkpoint, the nodes of it and of the
\* earlier checkpoints it refers to hold the whole index: whatever a write
\* changed was rewritten, up to the root.
CheckpointHoldsIndex ==
    Running /\ ~lossy /\ tail = << >> /\ disk # NULL =>
        \A b \in Bytes : ft_lookup(disk, b) = LastWrite(b)

\* Whatever a reload loses, the record the tree names for a byte is of a write to
\* that byte: do_read never meets the record it calls corrupt.
LookupNamesAWrite ==
    Running => \A b \in Bytes : ft_lookup(root, b) \in history[b] \cup {0}

\* The assertions of ft_write hold, on trees that are partly in the log too.
WriteAssertions == asserted # "write"
=============================================================================
