------------------------------ MODULE MCQueue ------------------------------
(***************************************************************************)
(* Queue with callers as model values; see the .cfg files for the bounds.  *)
(***************************************************************************)
EXTENDS Queue, TLC

Interchangeable == Permutations(Callers)
============================================================================
