------------------------------ MODULE MCFileIO ------------------------------
(* FileIO with the symmetry of its writers, for safety runs. *)
EXTENDS FileIO, TLC

Symmetry == Permutations(Writers)
=============================================================================
