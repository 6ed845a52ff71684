------------------------------- MODULE FigTree -------------------------------
(***************************************************************************)
(* The fig tree of src/figtree: a B tree from ranges of bytes to record    *)
(* numbers.  A write does not remove the older ranges below the place      *)
(* where it is put; they are dead, and whoever descends later prunes them  *)
(* to the interval that is still valid there.  Pure operators on trees;    *)
(* FigTreeIndex and FigTreeStore are the machines that use them.           *)
(*                                                                         *)
(* Bytes are of type uint32_t in the code: Up and Down wrap around.        *)
(* Indices count from 1: subtree i is left of entry i.  A subtree pointer  *)
(* has the node (st), the inmemory flag, and the node as a checkpoint of   *)
(* the log has it at the pointer's recno and offset (saved).               *)
(***************************************************************************)
EXTENDS Integers, Sequences, FiniteSets, SequencesExt

CONSTANTS
    FT_ORDER,         \* a node has at most 2 * FT_ORDER entries (2 in the code)
    BYTE_INDEX_MAX    \* 2^32 - 1 in the code

ASSUME FigTreeAssumption ==
    /\ FT_ORDER \in Nat /\ FT_ORDER >= 1
    /\ BYTE_INDEX_MAX \in Nat /\ BYTE_INDEX_MAX >= 1

FT_SPLITLIMIT == 2 * FT_ORDER + 1

Up(b) == (b + 1) % (BYTE_INDEX_MAX + 1)
Down(b) == (b - 1) % (BYTE_INDEX_MAX + 1)
-----------------------------------------------------------------------------
\* Intervals.  An entry is an interval with a value.
i_init(l, r) == [left |-> l, right |-> r]
EmptyInterval == i_init(BYTE_INDEX_MAX, 0)
FullInterval == i_init(0, BYTE_INDEX_MAX)
Nonempty(iv) == iv.left <= iv.right

i_contains_val(iv, b) == iv.left <= b /\ b <= iv.right
i_overlaps(iv, jv) == iv.right >= jv.left /\ iv.left <= jv.right

\* i_restrict_range.  Where the code does not allow an empty result it asserts
\* that there is none.
i_restrict_range(iv, l, r) ==
    LET lo == IF iv.left > l THEN iv.left ELSE l
        hi == IF iv.right < r THEN iv.right ELSE r
    IN  IF lo > hi THEN EmptyInterval ELSE i_init(lo, hi)

Entry(iv, value) == [left |-> iv.left, right |-> iv.right, value |-> value]
-----------------------------------------------------------------------------
NULL == [height |-> -1, entries |-> << >>, subtrees |-> << >>, dirty |-> FALSE]

\* subtree_set and subtree_get.  A subtree that is not in memory is read from
\* the log each time: nothing ever sets inmemory.
subtree_set(node) == [st |-> node, inmemory |-> TRUE, saved |-> NULL]
subtree_get(ptr) == IF ptr.inmemory THEN ptr.st ELSE ptr.saved

RECURSIVE ftn_new(_)
ftn_new(height) ==
    [height |-> height, entries |-> << >>, dirty |-> TRUE,
     subtrees |-> <<subtree_set(IF height = 0 THEN NULL ELSE ftn_new(height - 1))>>]

\* ftn_clear leaves the dirty flag alone.
ftn_clear(n) == [ftn_new(n.height) EXCEPT !.dirty = n.dirty]

subtree_clear(ptr, height) ==
    IF ~ptr.inmemory THEN subtree_set(ftn_new(height))
    ELSE IF ptr.st = NULL THEN ptr
    ELSE [ptr EXCEPT !.st = ftn_clear(ptr.st)]

\* The entries of a node that lie wholly to the left of an interval.
CountLeftOf(n, iv) == Cardinality({i \in DOMAIN n.entries : n.entries[i].right < iv.left})
CountOverlapping(n, iv) == Cardinality({i \in DOMAIN n.entries : i_overlaps(n.entries[i], iv)})

\* The bounds of the gap that subtree i is for.
GapLeft(n, i) == IF i = 1 THEN 0 ELSE Up(n.entries[i - 1].right)
GapRight(n, i) == IF i > Len(n.entries) THEN BYTE_INDEX_MAX ELSE Down(n.entries[i].left)

\* Slips in this code that the properties of FigTreeIndex and FigTreeStore catch:
\* a split that takes one subtree too many to the right; the index shared with
\* the left continuation not corrected when a split moves it; an iteration that
\* does not look between entries; and, below, continuations that take a closed
\* interval for a half-open one.
SplitOffByOne(n) ==
    [height |-> n.height, dirty |-> TRUE,
     entries |-> SubSeq(n.entries, FT_ORDER + 2, FT_SPLITLIMIT),
     subtrees |-> SubSeq(n.subtrees, FT_ORDER + 1, FT_SPLITLIMIT + 1)]

IndexNotMovedRight(idx, p, shared, wentRight) == IF p = shared THEN idx - 1 ELSE idx

DrillsNowhere(iter, node, l, r) == iter

ftn_pruneTo(n, valid) ==
    LET before == CountLeftOf(n, valid)
        kept == CountOverlapping(n, valid)
        first == n.entries[before + 1]
        last == n.entries[before + kept]
        atLeft == kept > 0 /\ i_contains_val(first, valid.left)
        \* An entry that spans all of valid is met at its left end only.
        atRight == kept > 0 /\ i_contains_val(last, valid.right) /\ ~(kept = 1 /\ atLeft)
        cut(e) == Entry(i_restrict_range(e, valid.left, valid.right), e.value)
        sub(i) == IF (i = 1 /\ atLeft) \/ (i = kept + 1 /\ atRight)
                  THEN subtree_clear(n.subtrees[before + i], n.height - 1)
                  ELSE n.subtrees[before + i]
    IN  IF ~Nonempty(valid) THEN ftn_clear(n)
        ELSE [n EXCEPT !.entries = [i \in 1 .. kept |-> cut(n.entries[before + i])],
                       !.subtrees = [i \in 1 .. kept + 1 |-> sub(i)],
                       !.dirty = @ \/ kept < Len(n.entries)]

\* Entries first .. past - 1 become one; the subtrees between them go.
ftn_replaceEntries(n, first, past, entry) ==
    [n EXCEPT !.entries = SubSeq(@, 1, first - 1) \o <<entry>> \o SubSeq(@, past, Len(@)),
              !.subtrees = SubSeq(@, 1, first) \o SubSeq(@, past, Len(@)),
              !.dirty = TRUE]

\* What ftn_insert asserts of the neighbours of a new entry.
InsertOK(n, entry, i) ==
    /\ i \in 1 .. Len(n.entries) + 1
    /\ i > 1 => ~i_overlaps(entry, n.entries[i - 1])
    /\ i <= Len(n.entries) => ~i_overlaps(entry, n.entries[i])

ftn_insert(n, entry, i, left, right) ==
    [n EXCEPT !.entries = InsertAt(@, i, entry),
              !.subtrees = InsertAt([@ EXCEPT ![i] = subtree_set(left)], i + 1, subtree_set(right)),
              !.dirty = TRUE]

\* The halves of a node that has reached FT_SPLITLIMIT entries.
LeftHalf(n) ==
    [height |-> n.height, dirty |-> TRUE, entries |-> SubSeq(n.entries, 1, FT_ORDER),
     subtrees |-> SubSeq(n.subtrees, 1, FT_ORDER + 1)]
RightHalf(n) ==
    [height |-> n.height, dirty |-> TRUE,
     entries |-> SubSeq(n.entries, FT_ORDER + 2, FT_SPLITLIMIT),
     subtrees |-> SubSeq(n.subtrees, FT_ORDER + 2, FT_SPLITLIMIT + 1)]
-----------------------------------------------------------------------------
\* path and pathIndices of _ft_insert: nodes from the root down, each with the
\* index of the subtree taken or of the place to insert at.
Hop(node, idx) == [node |-> node, idx |-> idx]

\* Nodes are changed in place, so a change to a node shows in its parent, if the
\* parent's pointer is to that node: a subtree read from the log is a copy.
StoreChild(n, i, child) ==
    [n EXCEPT !.subtrees[i].st = IF n.subtrees[i].inmemory THEN child
                                 ELSE n.subtrees[i].saved]

Stored(path) ==
    LET node[q \in 1 .. Len(path)] ==
            IF q = Len(path) THEN path[q].node
            ELSE StoreChild(path[q].node, path[q].idx, node[q + 1])
    IN  [q \in 1 .. Len(path) |-> Hop(node[q], path[q].idx)]

\* Descend from node, pruning, to the first entry that overlaps range or to a
\* NULL subtree.
RECURSIVE Descend(_, _, _, _)
DescendFrom(path, n, range, valid) ==
    LET i == CountLeftOf(n, range) + 1
    IN  IF i <= Len(n.entries) /\ i_overlaps(n.entries[i], range)
        THEN [path |-> Append(path, Hop(n, i)), hit |-> TRUE, valid |-> valid]
        ELSE Descend(Append(path, Hop(n, i)), subtree_get(n.subtrees[i]), range,
                     i_restrict_range(valid, GapLeft(n, i), GapRight(n, i)))

Descend(path, node, range, valid) ==
    IF node = NULL THEN [path |-> path, hit |-> FALSE, valid |-> valid]
    ELSE DescendFrom(path, ftn_pruneTo(node, valid), range, valid)

\* The path of the left continuation after the right one went through hop p of
\* it: the left one takes the branch before it in the last shared hop, and what
\* a split below moved to the right half is one further.
SharedIndex(idx, p, shared, wentRight) ==
    IF p = shared THEN idx - 1
    ELSE IF p < shared /\ wentRight THEN idx + 1
    ELSE idx

\* Insert up.entry, with the subtrees up.left and up.right, at hop p; a node
\* that is full then splits and pushes its middle entry up, past the root if
\* need be.  shared is 0 unless this is a right continuation.
RECURSIVE PushUp(_, _, _, _, _)
PushUp(path, p, up, shared, ok) ==
    IF p = 0
    THEN LET root == [height |-> up.left.height + 1, entries |-> <<up.entry>>, dirty |-> TRUE,
                      subtrees |-> <<subtree_set(up.left), subtree_set(up.right)>>]
         IN  [path |-> <<Hop(root, IF up.wentRight THEN 2 ELSE 1)>> \o path,
              shared |-> shared + 1, ok |-> ok]
    ELSE LET hop == path[p]
             fine == ok /\ InsertOK(hop.node, up.entry, hop.idx)
             n == ftn_insert(hop.node, up.entry, hop.idx, up.left, up.right)
             idx == SharedIndex(hop.idx, p, shared, up.wentRight)
             right == idx > FT_ORDER + 1
         IN  IF ~fine THEN [path |-> path, shared |-> shared, ok |-> FALSE]
             ELSE IF Len(n.entries) < FT_SPLITLIMIT
             THEN LET above == Stored(SubSeq(path, 1, p - 1) \o <<Hop(n, hop.idx)>>)
                      fixed == IF p > shared THEN shared ELSE p
                  IN  [path |-> IF shared = 0 THEN above
                                ELSE [above EXCEPT ![fixed].idx =
                                        SharedIndex(@, fixed, shared, up.wentRight)]
                                     \o SubSeq(path, p + 1, Len(path)),
                       shared |-> shared, ok |-> TRUE]
             ELSE PushUp([path EXCEPT ![p] = IF right
                                             THEN Hop(RightHalf(n), idx - (FT_ORDER + 1))
                                             ELSE Hop(LeftHalf(n), idx)],
                         p - 1,
                         [entry |-> n.entries[FT_ORDER + 1], left |-> LeftHalf(n),
                          right |-> RightHalf(n), wentRight |-> right],
                         shared, TRUE)

NoCont == [has |-> FALSE, range |-> EmptyInterval, value |-> 0, at |-> NULL,
           valid |-> EmptyInterval]
Cont(range, value, at, valid) ==
    [has |-> TRUE, range |-> range, value |-> value, at |-> at, valid |-> valid]

\* What range leaves of the first and of the last entry it overlaps.
LeftRestTooWide(e, range) == i_init(e.left, range.left)
LeftRest(e, range) == i_init(e.left, range.left - 1)
RestTooWide(e, range) == i_init(range.right + 1, e.right + 1)
RightRest(e, range) == i_init(range.right + 1, e.right)

\* _ft_insert puts range in place of the entries it overlaps; what they have to
\* the left and to the right of range is inserted again by a continuation.
InsertOver(path, range, value, valid) ==
    LET p == Len(path)
        n == path[p].node
        i == path[p].idx
        past == i + CountOverlapping(n, range)
        first == n.entries[i]
        last == n.entries[past - 1]
        leftc == IF first.left < range.left
                 THEN Cont(LeftRest(first, range), first.value,
                           subtree_get(n.subtrees[i]),
                           i_restrict_range(valid, GapLeft(n, i), GapRight(n, i)))
                 ELSE NoCont
        rightc == IF last.right > range.right
                  THEN Cont(RightRest(last, range), last.value,
                            subtree_get(n.subtrees[past]),
                            i_restrict_range(valid, GapLeft(n, past), GapRight(n, past)))
                  ELSE NoCont
        new == ftn_replaceEntries(n, i, past, Entry(range, value))
    IN  [path |-> Stored([path EXCEPT ![p] = Hop(new, IF rightc.has THEN i + 1 ELSE i)]),
         leftc |-> leftc, rightc |-> rightc, ok |-> TRUE]

\* The rest of _ft_insert, after its descent d: range replaces what it overlaps, or
\* goes into a leaf.  A right continuation ends with the path of the left one.
Kept(done, shared, fixed) ==
    IF shared = 0 THEN done ELSE [done EXCEPT !.path = SubSeq(@, 1, fixed)]

Pushed(up) == [path |-> up.path, leftc |-> NoCont, rightc |-> NoCont, ok |-> up.ok]

InsertAtLeaf(up, shared) == Kept(Pushed(up), shared, up.shared)

InsertFrom(d, args, shared) ==
    IF d.hit THEN Kept(InsertOver(d.path, args.range, args.value, d.valid), shared, shared)
    ELSE InsertAtLeaf(PushUp(d.path, Len(d.path),
                             [entry |-> Entry(args.range, args.value), left |-> NULL,
                              right |-> NULL, wentRight |-> FALSE],
                             shared, TRUE),
                      shared)

_ft_insert(path, args, shared) ==
    InsertFrom(Descend(path, args.at, args.range, args.valid), args, shared)

\* A continuation is inserted, if there is one; it leaves none of its own.
NoneLeft(done) == [done EXCEPT !.ok = @ /\ ~done.leftc.has /\ ~done.rightc.has]
Continue(done, cont, shared) ==
    IF cont.has /\ done.ok THEN NoneLeft(_ft_insert(done.path, cont, shared)) ELSE done

\* ft_write: the range, then its right and its left continuation.  ok is FALSE
\* if an assertion fails, which ends the program.
InsertConts(one) ==
    Continue(Continue(one, one.rightc, Len(one.path)), one.leftc, 0)

Written(root, done) ==
    IF done.ok THEN [root |-> done.path[1].node, ok |-> Len(done.path) <= root.height + 2]
    ELSE [root |-> root, ok |-> FALSE]

ft_write(root, l, r, value) ==
    Written(root, InsertConts(_ft_insert(<< >>, Cont(i_init(l, r), value, root, FullInterval), 0)))
-----------------------------------------------------------------------------
\* ft_lookup: the value at byte b; 0 stands for the NULL it returns if none.
RECURSIVE LookupIn(_, _)
LookupIn(n, b) ==
    LET i == CountLeftOf(n, i_init(b, b)) + 1
    IN  IF n = NULL THEN 0
        ELSE IF i <= Len(n.entries) /\ i_contains_val(n.entries[i], b) THEN n.entries[i].value
        ELSE LookupIn(subtree_get(n.subtrees[i]), b)

ft_lookup(root, b) == LookupIn(root, b)

\* An iterator is the sequence of its states up to depth: a node, the entry to
\* look at and the interval that is valid there.  A read that fails an assertion
\* has the iterator Aborted.
IterState(node, pos, valid) == [node |-> node, pos |-> pos, valid |-> valid]
Aborted == <<IterState(NULL, 0, EmptyInterval)>>

\* Go back up to a node with an entry left in its valid interval.
RECURSIVE Backtrack(_)
Backtrack(iter) ==
    LET rs == Last(iter)
    IN  IF iter = << >> \/ iter = Aborted THEN iter
        ELSE IF \/ rs.node = NULL
                \/ rs.pos > Len(rs.node.entries)
                \/ rs.valid.right < rs.node.entries[rs.pos].left
        THEN Backtrack(Front(iter))
        ELSE iter

\* The descent of ft_read to the first entry at or after start.
RECURSIVE Seek(_, _)
Seek(iter, start) ==
    LET rs == Last(iter)
        n == rs.node
        i == CountLeftOf(n, i_init(start, start)) + 1
        here == [iter EXCEPT ![Len(iter)].pos = i]
        valid == i_restrict_range(rs.valid, GapLeft(n, i), GapRight(n, i))
    IN  IF n = NULL THEN iter
        ELSE IF i <= Len(n.entries) /\ i_contains_val(n.entries[i], start) THEN here
        ELSE IF ~Nonempty(valid) THEN Aborted
        ELSE Seek(Append(here, IterState(subtree_get(n.subtrees[i]), 0, valid)), start)

ft_read(root, start, end) ==
    Backtrack(Seek(<<IterState(root, 0, i_init(start, end))>>, start))

\* The descent of fti_next into the subtree after the entry it yields.
RECURSIVE Drill(_, _, _, _)
Drill(iter, node, l, r) ==
    LET valid == i_restrict_range(Last(iter).valid, l, r)
        i == CountLeftOf(node, valid) + 1
        deeper == Append(iter, IterState(node, i, valid))
    IN  IF node = NULL THEN iter
        ELSE IF ~Nonempty(valid) THEN Aborted
        ELSE IF i <= Len(node.entries) /\ i_contains_val(node.entries[i], valid.left) THEN deeper
        ELSE Drill(deeper, subtree_get(node.subtrees[i]), GapLeft(node, i), GapRight(node, i))

\* The iterator after fti_next.
fti_next(iter) ==
    LET rs == Last(iter)
        n == rs.node
        next == rs.pos + 1
        at(i) == [iter EXCEPT ![Len(iter)].pos = i]
    IN  IF rs.valid.right <= n.entries[rs.pos].right
        THEN Backtrack(at(Len(n.entries) + 1))
        ELSE IF GapLeft(n, next) <= GapRight(n, next)
        THEN Backtrack(Drill(at(next), subtree_get(n.subtrees[next]),
                             GapLeft(n, next), GapRight(n, next)))
        ELSE Backtrack(at(next))

\* The figs a caller gets from an iterator.
RECURSIVE Figs(_)
Figs(iter) ==
    LET rs == Last(iter)
        e == rs.node.entries[rs.pos]
    IN  IF iter = << >> THEN << >>
        ELSE IF iter = Aborted THEN <<Entry(EmptyInterval, -1)>>
        ELSE <<Entry(i_restrict_range(e, rs.valid.left, rs.valid.right), e.value)>>
             \o Figs(fti_next(iter))
=============================================================================
