--------------------------- MODULE MCPublication ---------------------------
(* Publication with the changes that never conflict as a symmetric set. *)
EXTENDS Publication

Interchangeable == Permutations(Foreign \ Clash)
============================================================================
