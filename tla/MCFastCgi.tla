----------------------------- MODULE MCFastCgi -----------------------------
(***************************************************************************)
(* The FastCGI threads on a small instance.                                *)
(***************************************************************************)
EXTENDS FastCgi

\* A whole body, a GET, a body that ends early, and a request without the
\* parameter.
SomeKinds == {<<2, 2>>, <<0, 0>>, <<1, 3>>, <<0, -1>>}
=============================================================================
