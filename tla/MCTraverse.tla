----------------------------- MODULE MCTraverse -----------------------------
(***************************************************************************)
(* Traverse; the .cfg files choose the branches, limits and reasons.       *)
(***************************************************************************)
EXTENDS Traverse
=============================================================================
