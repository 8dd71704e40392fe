------------------------------- MODULE MCEcho -------------------------------
(***************************************************************************)
(* The echo service on small instances.  The clients are interchangeable.  *)
(***************************************************************************)
EXTENDS EchoSystem, TLC

CONSTANT a   \* the client that types more than the others

ClientSymmetry == Permutations(Conns)

\* Every client may be killed, or none.
AllMortal == Conns
NoneMortal == {}

\* A unit from every client; or six from one of them and one from the others.
OneUnit == [c \in Conns |-> 1]
OneTypesALot == [c \in Conns |-> IF c = a THEN 6 ELSE 1]
=============================================================================
