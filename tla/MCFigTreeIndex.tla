--------------------------- MODULE MCFigTreeIndex ---------------------------
(* FigTreeIndex from an empty tree, at the first and at the last byte indexes; *)
(* from a tree of two levels; from one whose nodes on the way to its end are   *)
(* full.                                                                       *)
EXTENDS FigTreeIndex

MCStarts ==
    {[preload |-> 0, len |-> 1, first |-> 0, last |-> 5, more |-> 5],
     [preload |-> 0, len |-> 1, first |-> 96, last |-> 99, more |-> 5],
     [preload |-> 6, len |-> 1, first |-> 0, last |-> 6, more |-> 3],
     [preload |-> 25, len |-> 3, first |-> 48, last |-> 74, more |-> 1]}
=============================================================================
