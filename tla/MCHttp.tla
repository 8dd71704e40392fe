------------------------------- MODULE MCHttp -------------------------------
(***************************************************************************)
(* The HTTP server on small instances; which agents are hasty, cut their   *)
(* request line or send a malformed one is said in the configurations.     *)
(***************************************************************************)
EXTENDS HttpSystem

CONSTANT a   \* the agent with a NUL in its request

\* The request line of a is whole, its second unit begins with a NUL.
NulUnits == {<<a, 2>>}
=============================================================================
