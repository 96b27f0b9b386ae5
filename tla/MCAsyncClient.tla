--------------------------- MODULE MCAsyncClient ---------------------------
(* Coroutines that share a small pool.                                     *)
EXTENDS AsyncClient
============================================================================
