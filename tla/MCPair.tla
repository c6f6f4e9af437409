------------------------------- MODULE MCPair -------------------------------
(***************************************************************************)
(* Pair; the .cfg files choose the compositions and the caller's reasons.  *)
(***************************************************************************)
EXTENDS Pair
=============================================================================
