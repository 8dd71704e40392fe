--------------------------- MODULE MCLogShipping ---------------------------
(***************************************************************************)
(* Log shipping on a small instance.                                       *)
(***************************************************************************)
EXTENDS LogShipping
=============================================================================
