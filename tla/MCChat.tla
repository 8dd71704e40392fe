------------------------------- MODULE MCChat -------------------------------
(***************************************************************************)
(* The chat room on small instances.                                       *)
(***************************************************************************)
EXTENDS ChatSystem, TLC

ClientSymmetry == Permutations(Conns)

NoneMortal == {}

\* As many units from every client.
OneUnit == [c \in Conns |-> 1]
TwoUnits == [c \in Conns |-> 2]
=============================================================================
