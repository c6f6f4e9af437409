------------------------------- MODULE MCHub --------------------------------
(***************************************************************************)
(* Hub with model values; see the .cfg file for the bounds.                *)
(***************************************************************************)
EXTENDS Hub

Interchangeable == Permutations(Publishers)
=============================================================================
