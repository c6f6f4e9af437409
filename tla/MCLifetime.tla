----------------------------- MODULE MCLifetime -----------------------------
(***************************************************************************)
(* Lifetime with model values; see the .cfg files for the bounds.          *)
(***************************************************************************)
EXTENDS Lifetime, TLC

Interchangeable ==
    Permutations(Runs) \cup Permutations(Fibers) \cup Permutations(Lexical)
      \cup Permutations(Resources) \cup Permutations(Closers)
=============================================================================
