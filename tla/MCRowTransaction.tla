-------------------------- MODULE MCRowTransaction --------------------------
(***************************************************************************)
(* The transactions on a small instance.                                   *)
(***************************************************************************)
EXTENDS RowTransaction, TLC

DbSymmetry == Permutations(Dbs)
=============================================================================
