-------------------------- MODULE MCDirectoryCrash --------------------------
EXTENDS DirectoryCrash

CONSTANT t1

MCOps == (t1 :> Mutators \cup {"open", "chmod", "truncate"})
MCPerms == {{"r"}}
MCSymmetry == Permutations(Names) \cup Permutations(Files \ {Root})
=============================================================================
