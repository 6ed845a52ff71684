----------------------------- MODULE MCFileTable -----------------------------
(* FileTable with the symmetry of its threads and names, for safety runs. *)
EXTENDS FileTable, TLC

Symmetry == Permutations(Users) \cup Permutations(Names)
=============================================================================
