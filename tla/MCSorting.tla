----------------------------- MODULE MCSorting -----------------------------
(***************************************************************************)
(* The sorts on all inputs of up to MaxNum elements.                       *)
(***************************************************************************)
EXTENDS Sorting
=============================================================================
