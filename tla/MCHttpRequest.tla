--------------------------- MODULE MCHttpRequest ---------------------------
(***************************************************************************)
(* One request on an instance long enough for two messages in a bufferful, *)
(* a chunked body with a trailer, and a folded header value.               *)
(***************************************************************************)
EXTENDS HttpRequest
=============================================================================
