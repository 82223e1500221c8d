-------------------------------- MODULE MCFile --------------------------------
(***************************************************************************)
(* FilePublication for TLC: processes and documents are interchangeable.   *)
(***************************************************************************)
EXTENDS FilePublication, TLC

Symmetry == Permutations(Processes) \union Permutations(Docs)
===============================================================================
