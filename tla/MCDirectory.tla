----------------------------- MODULE MCDirectory -----------------------------
EXTENDS Directory

CONSTANTS t1, t2

\* One thread changes names, the other looks at files and lists directories.
MCOps == (t1 :> Mutators) @@ (t2 :> {"opendir", "getattr"})
MCPerms == {{"r"}}
MCSymmetry == Permutations(Names) \cup Permutations(Files \ {Root})
=============================================================================
