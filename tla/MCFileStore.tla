------------------------------- MODULE MCFileStore ------------------------------
(***************************************************************************)
(* FileStore with the values of its model-checking runs.                   *)
(***************************************************************************)
EXTENDS FileStore, TLC

CONSTANTS w1, w2, local, s3, p1, p2, c1, c2

Symmetry == Permutations({w1, w2}) \cup Permutations({p1, p2}) \cup Permutations({c1, c2})
=============================================================================
