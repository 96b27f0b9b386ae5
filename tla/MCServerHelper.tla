--------------------------- MODULE MCServerHelper ---------------------------
(* A server with up to two calls in flight, started alone, by a wrapper or  *)
(* in a container.                                                         *)
EXTENDS ServerHelper
=============================================================================
