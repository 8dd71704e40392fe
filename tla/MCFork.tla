------------------------------- MODULE MCFork -------------------------------
(***************************************************************************)
(* The forking server on small instances.                                  *)
(***************************************************************************)
EXTENDS ForkSystem

CONSTANT b
KidAndParent == {b, Parent}

\* The client whose child may be killed types two lines of two numbers, with
\* the same sum or not, the one that may be killed itself one that is not, and
\* the third leaves at once.
LinesTyped ==
  [c \in Conns |-> IF c \in Doomed THEN {<<1, 1>>, <<1, 2>>} ELSE {<<>>}]
HowMany ==
  [c \in Conns |-> IF c \in Doomed THEN 2 ELSE IF c \in Mortal THEN 1 ELSE 0]
=============================================================================
