----------------------------- MODULE MCRowCache -----------------------------
(***************************************************************************)
(* The row cache on small instances.                                       *)
(***************************************************************************)
EXTENDS RowCache, TLC

CONSTANTS t1, t2, v, w

OneRow == [t \in Tables |-> IF t = t1 THEN <<v>> ELSE <<>>]

ReqSymmetry == Permutations(Reqs)
=============================================================================
