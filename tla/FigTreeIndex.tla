---------------------------- MODULE FigTreeIndex ----------------------------
(***************************************************************************)
(* A fig tree in memory under any sequence of writes, beside the plain map *)
(* from bytes to values that it stands for.  The value of a write is its   *)
(* number, as the record number is in the code.                            *)
(***************************************************************************)
EXTENDS FigTree

CONSTANT
    Starts    \* how files are written, see StartType

\* A file is first written sequentially, by preload writes of len bytes each; then
\* come more writes of any bytes of first .. last (these are bounds).
StartType(s) ==
    /\ s.preload \in Nat /\ s.len \in Nat \ {0} /\ s.more \in Nat
    /\ s.first \in Nat /\ s.last \in s.first .. BYTE_INDEX_MAX
    /\ s.preload * s.len <= BYTE_INDEX_MAX + 1

ASSUME IndexAssumption == \A s \in Starts : StartType(s)

VARIABLES
    root,       \* the tree
    contents,   \* byte -> number of the last write to it, 0 if none
    writes,     \* writes made so far
    start,      \* the member of Starts that applies
    asserted    \* has an assertion failed?

vars == <<root, contents, writes, start, asserted>>

Bytes == DOMAIN contents

Init ==
    /\ start \in Starts
    /\ root = ftn_new(0)
    /\ contents = [b \in start.first .. start.last |-> 0]
    /\ writes = 0
    /\ asserted = FALSE

Write(l, r) ==
    LET result == ft_write(root, l, r, writes + 1)
    IN  /\ ~asserted
        /\ writes' = writes + 1
        /\ root' = result.root
        /\ asserted' = ~result.ok
        /\ contents' = [b \in Bytes |-> IF l <= b /\ b <= r THEN writes + 1 ELSE contents[b]]
        /\ UNCHANGED start

WriteNext ==
    /\ writes < start.preload
    /\ Write(writes * start.len, (writes + 1) * start.len - 1)

WriteAny(l, r) ==
    /\ start.preload <= writes /\ writes < start.preload + start.more
    /\ l <= r
    /\ Write(l, r)

Done == (asserted \/ writes = start.preload + start.more) /\ UNCHANGED vars

Next == WriteNext \/ (\E l, r \in Bytes : WriteAny(l, r)) \/ Done

Spec == Init /\ [][Next]_vars
-----------------------------------------------------------------------------
\* No assertion of the fig tree fails: a continuation meets nothing that overlaps
\* it, an insertion nothing beside it that does, and the path array is long
\* enough.
AssertionsHold == ~asserted

\* ft_lookup finds, for every byte, the last write to it, and none of the dead
\* entries below.
LookupFindsLast ==
    ~asserted => \A b \in Bytes : ft_lookup(root, b) = contents[b]

\* The figs of ft_read over any range are in order, disjoint, within the range,
\* and give each byte of it the number of the last write to it.
ReadYieldsContents ==
    ~asserted => \A l, r \in Bytes : l <= r =>
        LET figs == Figs(ft_read(root, l, r))
        IN  /\ \A i \in DOMAIN figs : Nonempty(figs[i]) /\ l <= figs[i].left /\ figs[i].right <= r
            /\ \A i \in 1 .. Len(figs) - 1 : figs[i].right < figs[i + 1].left
            /\ \A b \in l .. r :
                 contents[b] = IF \E i \in DOMAIN figs : i_contains_val(figs[i], b)
                               THEN (CHOOSE f \in ToSet(figs) : i_contains_val(f, b)).value
                               ELSE 0

\* The tree stays a B tree: every leaf is at the same depth, no node has more
\* than 2 * FT_ORDER entries, and the entries of a node are in order.
RECURSIVE WellFormed(_)
WellFormed(n) ==
    /\ Len(n.subtrees) = Len(n.entries) + 1
    /\ Len(n.entries) < FT_SPLITLIMIT
    /\ \A i \in DOMAIN n.entries : Nonempty(n.entries[i])
    /\ \A i \in 1 .. Len(n.entries) - 1 : n.entries[i].right < n.entries[i + 1].left
    /\ \A i \in DOMAIN n.subtrees :
         LET child == subtree_get(n.subtrees[i])
         IN  child.height = n.height - 1 /\ (child # NULL => WellFormed(child))

TreeStaysBalanced == ~asserted => WellFormed(root)
=============================================================================
